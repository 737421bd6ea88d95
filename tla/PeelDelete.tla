----------------------------- MODULE PeelDelete -----------------------------
(***************************************************************************)
(* How the two SQLite repositories delete legs.                            *)
(*                                                                         *)
(* transactions.parent_id is ON DELETE RESTRICT and SQLite checks it row   *)
(* by row, so neither a subtree nor a payout can go in one statement.      *)
(* SqliteTransactionRepository.delete and SqlitePayoutRepository.delete    *)
(* open a transaction and repeat one DELETE that removes the current       *)
(* leaves until it changes nothing; the payout row goes last.  Here every  *)
(* statement is a step on the transaction's own view of the tables, COMMIT *)
(* publishes it, and a kill before that leaves the tables as they were.    *)
(***************************************************************************)
EXTENDS LegTree

(* Row ids are positive: NoLeg names no row. *)
ASSUME LegIdsAssumption == LegIds \subseteq Nat \ {NoLeg}

VARIABLE txn  \* the open transaction

vars == <<payouts, tree, txn>>

NoTxn == [deletes |-> "nothing", id |-> 0, work |-> [l \in {} |-> l]]

Begin(what, id) == [deletes |-> what, id |-> id, work |-> tree]

-----------------------------------------------------------------------------
(* Faulty: from the top down, the rows whose parent is not doomed. *)
Topmost(t, doomed) == {l \in doomed : t[l].parent \notin doomed}

(* The rows of `doomed' that are nobody's parent. The NOT IN looks at the   *)
(* whole table, not at the payout.                                          *)
Leaves(t, doomed) == {l \in doomed : \A m \in DOMAIN t : t[m].parent # l}

(* WITH RECURSIVE subtree: evaluated afresh by every pass, and empty once   *)
(* the root has gone.                                                       *)
SubtreeNow(t, l) == IF l \in DOMAIN t THEN Subtree(t, l) ELSE {}

Doomed(x) ==
  IF x.deletes = "leg" THEN SubtreeNow(x.work, x.id) ELSE LegsOfPayout(x.work, x.id)

Layer(x) == Leaves(x.work, Doomed(x))

-----------------------------------------------------------------------------
Quiet == txn = NoTxn

BeginDeleteLeg(l) ==
  /\ Quiet
  /\ l \in DOMAIN tree
  /\ txn' = Begin("leg", l)
  /\ UNCHANGED <<payouts, tree>>

BeginDeletePayout(p) ==
  /\ Quiet
  /\ p \in payouts
  /\ txn' = Begin("payout", p)
  /\ UNCHANGED <<payouts, tree>>

(* Faulty: each pass commits on its own. *)
PassAutocommitted ==
  /\ ~Quiet
  /\ Layer(txn) # {}
  /\ txn' = [txn EXCEPT !.work = Without(@, Layer(txn))]
  /\ tree' = txn'.work
  /\ UNCHANGED payouts

(* Faulty: a soft delete, which `changes' counts although the row stays. *)
PassKeepsRows == ~Quiet /\ Layer(txn) # {} /\ UNCHANGED vars

(* One run of the DELETE with `changes' above zero. *)
Pass ==
  /\ ~Quiet
  /\ Layer(txn) # {}
  /\ txn' = [txn EXCEPT !.work = Without(@, Layer(txn))]
  /\ UNCHANGED <<payouts, tree>>

CommitLeg ==
  /\ txn.deletes = "leg"
  /\ Layer(txn) = {}
  /\ tree' = txn.work
  /\ txn' = NoTxn
  /\ UNCHANGED payouts

(* Whatever legs are left go by CASCADE; a leg of another payout that hangs *)
(* below one of them makes the statement fail.                              *)
CommitPayout ==
  LET left == LegsOfPayout(txn.work, txn.id) IN
  /\ txn.deletes = "payout"
  /\ Layer(txn) = {}
  /\ \A m \in DOMAIN txn.work : txn.work[m].parent \notin left
  /\ payouts' = payouts \ {txn.id}
  /\ tree' = Without(txn.work, left)
  /\ txn' = NoTxn

(* The process is killed, or the last statement fails: ROLLBACK. *)
Rollback ==
  /\ ~Quiet
  /\ txn' = NoTxn
  /\ UNCHANGED <<payouts, tree>>

Insert(l, p, parent) == Quiet /\ Grow(l, p, parent) /\ UNCHANGED txn
OpenPayout(p) == Quiet /\ Open(p) /\ UNCHANGED txn

Init == TreeInit /\ txn = NoTxn

Next ==
  \/ \E p \in PayoutIds : OpenPayout(p) \/ BeginDeletePayout(p)
  \/ \E l \in LegIds :
       \/ \E p \in PayoutIds, parent \in LegIds \cup {NoLeg} : Insert(l, p, parent)
       \/ BeginDeleteLeg(l)
  \/ Pass \/ CommitLeg \/ CommitPayout \/ Rollback

(* A transaction that has begun runs on: nothing else holds the thread. *)
Fairness == WF_vars(Pass) /\ WF_vars(CommitLeg) /\ WF_vars(CommitPayout)

Spec == Init /\ [][Next]_vars /\ Fairness

-----------------------------------------------------------------------------
(* Properties *)

(* Both repositories: the passes only ever take doomed legs, children       *)
(* before parents, so the transaction's view is a forest after every one of *)
(* them and the RESTRICT on parent_id is never hit half way.                *)
EveryPassLeavesAForest == IsForest(txn.work)

(* When a pass changes nothing, nothing is left to remove: the loop's exit  *)
(* condition means what its comment says.                                   *)
DoneMeansGone == ~Quiet /\ Layer(txn) = {} => Doomed(txn) = {}

(* A delete that repeats a layered DELETE is one atomic delete of exactly   *)
(* the subtree, or of exactly the payout's legs, killed or not.             *)
DeletesAreAtomic == TreeSpec

(* `Bounded by the depth of the tree, not by a hope': the loop ends.        *)
DeletesEnd == ~Quiet ~> Quiet
=============================================================================

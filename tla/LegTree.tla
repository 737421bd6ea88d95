------------------------------ MODULE LegTree -------------------------------
(***************************************************************************)
(* What the ledger promises about its legs, with every delete one step.    *)
(*                                                                         *)
(* Ledger keeps this promise among accounts, fees and half-finished        *)
(* recordings; PeelDelete keeps it although a delete is a loop of passes   *)
(* inside one SQLite transaction.                                          *)
(***************************************************************************)
EXTENDS Forest

CONSTANTS PayoutIds, LegIds

VARIABLES
  payouts,  \* ids of the payouts on file
  tree      \* leg id -> [payout, parent]

treeVars == <<payouts, tree>>

(* RecordPayout *)
Open(p) ==
  /\ IsNextRowId(p, payouts)
  /\ payouts' = payouts \cup {p}
  /\ UNCHANGED tree

(* RecordTransaction, RecordSale *)
Grow(l, p, parent) ==
  /\ IsNextRowId(l, DOMAIN tree)
  /\ p \in payouts
  /\ parent # NoLeg => parent \in LegsOfPayout(tree, p)
  /\ tree' = WithRow(tree, l, [payout |-> p, parent |-> parent])
  /\ UNCHANGED payouts

(* DeleteTransaction: the leg, and every leg below it. *)
Prune(l) ==
  /\ l \in DOMAIN tree
  /\ tree' = Without(tree, Subtree(tree, l))
  /\ UNCHANGED payouts

(* DeletePayout: the payout and all its legs, and no others. *)
Fell(p) ==
  /\ p \in payouts
  /\ payouts' = payouts \ {p}
  /\ tree' = Without(tree, LegsOfPayout(tree, p))

TreeInit == payouts = {} /\ tree = [l \in {} |-> l]

TreeNext ==
  \/ \E p \in PayoutIds : Open(p) \/ Fell(p)
  \/ \E l \in LegIds : \/ \E p \in PayoutIds, parent \in LegIds \cup {NoLeg} : Grow(l, p, parent)
                       \/ Prune(l)

TreeSpec == TreeInit /\ [][TreeNext]_treeVars
=============================================================================

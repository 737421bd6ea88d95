------------------------------- MODULE Forest -------------------------------
(***************************************************************************)
(* The shape of a payout's legs.                                           *)
(*                                                                         *)
(* A transaction row names its payout and, through parent_id, the leg its  *)
(* money came from (apps/api/migrations/001_initial.sql).  A table of legs *)
(* is a function t from row ids to records that carry at least `payout'    *)
(* and `parent'; NoLeg stands for a NULL parent_id.  The operators here    *)
(* are the tree walks of DeleteTransaction and of the two SQLite           *)
(* repositories, written without recursion.                                *)
(***************************************************************************)
EXTENDS Naturals, Functions

NoLeg == 0

(***************************************************************************)
(* The row id SQLite gives the next insert.  `INTEGER PRIMARY KEY' without *)
(* AUTOINCREMENT is one more than the largest id present, so the id of the *)
(* newest row is handed out again once that row has been deleted.          *)
(***************************************************************************)
IsNextRowId(id, rows) ==
  /\ \A i \in rows : i < id
  /\ id = 1 \/ id - 1 \in rows

(***************************************************************************)
(* S contains every child of each of its members.                          *)
(***************************************************************************)
IsClosed(t, S) == \A m \in DOMAIN t : t[m].parent \in S => m \in S

(***************************************************************************)
(* A leg and everything below it: the least closed set that contains it.   *)
(* `descendants' walks it breadth first, `deleteLeavesUnder' names it with *)
(* a recursive CTE.                                                        *)
(***************************************************************************)
Subtree(t, l) ==
  {m \in DOMAIN t :
     \A S \in SUBSET DOMAIN t : l \in S /\ IsClosed(t, S) => m \in S}

LegsOfPayout(t, p) == {l \in DOMAIN t : t[l].payout = p}

Without(t, S) == Restrict(t, DOMAIN t \ S)

WithRow(t, id, row) ==
  [i \in DOMAIN t \cup {id} |-> IF i = id THEN row ELSE t[i]]

(***************************************************************************)
(* Every parent_id names an older leg of the same payout: no orphan, no    *)
(* tree that spans two payouts and, ids only growing downwards, no cycle.  *)
(***************************************************************************)
ParentOK(t, l) ==
  \/ t[l].parent = NoLeg
  \/ /\ t[l].parent \in DOMAIN t
     /\ t[l].parent < l
     /\ t[t[l].parent].payout = t[l].payout

IsForest(t) == \A l \in DOMAIN t : ParentOK(t, l)
=============================================================================

-------------------------- MODULE PeelDeleteProofs --------------------------
(***************************************************************************)
(* Why the layered deletes work, for every tree and every kill, and why    *)
(* the reads beside them agree, for every date and every selection.        *)
(*                                                                         *)
(* The loop is right because the rows it has taken away so far always form *)
(* a closed set: whatever hung below them went before them.  That set is   *)
(* the witness of the inductive invariant.  The loop stops at the right    *)
(* moment because parents are older than their children, so a set of legs  *)
(* that holds all its children has a leaf, its newest row, or is empty.    *)
(*                                                                         *)
(* The reads need of the rows only that every leg is in a payout on file;  *)
(* the rest is that days ordered as text are days ordered by month, and by *)
(* the financial year they are in.                                         *)
(***************************************************************************)
EXTENDS Scope, Integers, WellFoundedInduction, FiniteSetTheorems, TLAPS

-----------------------------------------------------------------------------
(* What the operators of Forest preserve, for every table of legs *)

(* A subtree holds its root and is closed under children: the recursive CTE *)
(* and the breadth-first walk stop only when no child is left out.          *)
LEMMA SubtreeIsClosed ==
  ASSUME NEW t, NEW l \in DOMAIN t
  PROVE  /\ l \in Subtree(t, l)
         /\ Subtree(t, l) \subseteq DOMAIN t
         /\ IsClosed(t, Subtree(t, l))
  <1>1. l \in Subtree(t, l) /\ Subtree(t, l) \subseteq DOMAIN t
    BY DEF Subtree
  <1>2. ASSUME NEW m \in DOMAIN t, t[m].parent \in Subtree(t, l)
        PROVE  m \in Subtree(t, l)
    <2>1. ASSUME NEW S \in SUBSET DOMAIN t, l \in S, IsClosed(t, S)
          PROVE  m \in S
      <3>1. t[m].parent \in S
        BY <1>2, <2>1 DEF Subtree
      <3>2. QED
        BY <2>1, <3>1 DEF IsClosed
    <2>2. QED
      BY <2>1 DEF Subtree
  <1>3. QED
    BY <1>1, <1>2 DEF IsClosed

(* Any closed set that holds the root holds the whole subtree.              *)
LEMMA SubtreeIsLeast ==
  ASSUME NEW t, NEW l \in DOMAIN t, NEW S \in SUBSET DOMAIN t,
         l \in S, IsClosed(t, S)
  PROVE  Subtree(t, l) \subseteq S
  BY DEF Subtree

(* In a forest a subtree stays inside one payout, so deleting a leg never   *)
(* reaches the legs of another one.                                         *)
LEMMA SubtreeInOnePayout ==
  ASSUME NEW t, IsForest(t), 0 \notin DOMAIN t, NEW l \in DOMAIN t
  PROVE  Subtree(t, l) \subseteq LegsOfPayout(t, t[l].payout)
  <1> DEFINE S == LegsOfPayout(t, t[l].payout)
  <1>1. S \in SUBSET DOMAIN t /\ l \in S
    BY DEF LegsOfPayout
  <1>2. IsClosed(t, S)
    <2>1. ASSUME NEW m \in DOMAIN t, t[m].parent \in S
          PROVE  m \in S
      BY <2>1 DEF IsForest, ParentOK, LegsOfPayout, NoLeg
    <2>2. QED
      BY <2>1 DEF IsClosed
  <1>3. QED
    BY <1>1, <1>2, SubtreeIsLeast

(* The legs of one payout are closed too: the peel of a payout is never     *)
(* blocked by a leg of another one.                                         *)
LEMMA PayoutIsClosed ==
  ASSUME NEW t, IsForest(t), 0 \notin DOMAIN t, NEW p
  PROVE  IsClosed(t, LegsOfPayout(t, p))
  BY DEF IsForest, ParentOK, LegsOfPayout, NoLeg, IsClosed

(* Walking only the legs of the payout finds the same subtree as walking    *)
(* the whole table: what DeleteTransaction counts is what goes.             *)
LEMMA SubtreeWithinPayout ==
  ASSUME NEW t, IsForest(t), 0 \notin DOMAIN t, NEW l \in DOMAIN t
  PROVE  Subtree(Restrict(t, LegsOfPayout(t, t[l].payout)), l) = Subtree(t, l)
  <1> DEFINE L == LegsOfPayout(t, t[l].payout)
             u == Restrict(t, L)
             S == Subtree(t, l)
             T == Subtree(u, l)
  <1>1. L \subseteq DOMAIN t /\ l \in L /\ IsClosed(t, L)
    BY PayoutIsClosed DEF LegsOfPayout
  <1>2. DOMAIN u = L /\ \A m \in L : u[m] = t[m]
    BY DEF Restrict
  <1>3. S \subseteq L /\ l \in S /\ IsClosed(t, S)
    BY SubtreeIsClosed, SubtreeInOnePayout
  <1> HIDE DEF u, L, S
  <1>4. T \subseteq L /\ l \in T /\ IsClosed(u, T)
    BY <1>1, <1>2, SubtreeIsClosed
  <1>5. T \subseteq S
    <2>1. IsClosed(u, S)
      BY <1>1, <1>2, <1>3 DEF IsClosed
    <2>2. QED
      BY <1>1, <1>2, <1>3, <2>1, SubtreeIsLeast
  <1> HIDE DEF T
  <1>6. S \subseteq T
    <2>1. ASSUME NEW m \in DOMAIN t, t[m].parent \in T
          PROVE  m \in T
      <3>1. m \in L
        BY <1>1, <1>4, <2>1 DEF IsClosed
      <3>2. QED
        BY <1>2, <1>4, <2>1, <3>1 DEF IsClosed
    <2>2. IsClosed(t, T) /\ T \in SUBSET DOMAIN t
      BY <1>1, <1>4, <2>1 DEF IsClosed
    <2>3. QED
      BY <1>4, <2>2, SubtreeIsLeast DEF S
  <1>7. QED
    BY <1>5, <1>6 DEF L, u, S, T

(* Taking away a closed set of legs leaves a forest.                        *)
LEMMA WithoutClosedIsForest ==
  ASSUME NEW t, IsForest(t), NEW S, IsClosed(t, S)
  PROVE  /\ DOMAIN Without(t, S) = DOMAIN t \ S
         /\ \A m \in DOMAIN t \ S : Without(t, S)[m] = t[m]
         /\ IsForest(Without(t, S))
  <1>1. /\ DOMAIN Without(t, S) = DOMAIN t \ S
        /\ \A m \in DOMAIN t \ S : Without(t, S)[m] = t[m]
    BY DEF Without, Restrict
  <1>2. ASSUME NEW m \in DOMAIN t \ S
        PROVE  ParentOK(Without(t, S), m)
    BY <1>1, <1>2 DEF IsForest, ParentOK, IsClosed
  <1>3. QED
    BY <1>1, <1>2 DEF IsForest

(* A new leg under an existing leg of the same payout, or under none, keeps *)
(* the forest: the next row id is above every id present.                   *)
LEMMA WithRowIsForest ==
  ASSUME NEW t, IsForest(t), DOMAIN t \subseteq Nat, NEW l \in Nat, NEW row,
         IsNextRowId(l, DOMAIN t),
         row.parent = NoLeg \/ (row.parent \in DOMAIN t /\ t[row.parent].payout = row.payout)
  PROVE  /\ DOMAIN WithRow(t, l, row) = DOMAIN t \cup {l}
         /\ WithRow(t, l, row)[l] = row
         /\ \A m \in DOMAIN t : m # l /\ WithRow(t, l, row)[m] = t[m]
         /\ IsForest(WithRow(t, l, row))
  <1>1. \A m \in DOMAIN t : m < l
    BY DEF IsNextRowId
  <1>2. \A m \in DOMAIN t : m # l
    BY <1>1
  <1>3. QED
    BY <1>1, <1>2 DEF WithRow, IsForest, ParentOK

-----------------------------------------------------------------------------
LegRow == [payout : PayoutIds, parent : LegIds \cup {NoLeg}]

TypeOK ==
  /\ payouts \subseteq PayoutIds
  /\ DOMAIN tree \subseteq LegIds
  /\ tree \in [DOMAIN tree -> LegRow]

(* SQLite's largest row id: there is one. *)
Bounded == \E n \in Nat : \A l \in DOMAIN tree : l <= n

(* The deletion of a leg, when the rows of gone have been taken away: the   *)
(* root goes last.                                                          *)
PeelsLeg(gone) ==
  /\ txn = [deletes |-> "leg", id |-> txn.id, work |-> Without(tree, gone)]
  /\ txn.id \in DOMAIN tree
  /\ gone \subseteq Subtree(tree, txn.id)
  /\ txn.id \in gone => gone = Subtree(tree, txn.id)

(* The deletion of a payout, when the rows of gone have been taken away.    *)
PeelsPayout(gone) ==
  /\ txn = [deletes |-> "payout", id |-> txn.id, work |-> Without(tree, gone)]
  /\ txn.id \in payouts
  /\ gone \subseteq LegsOfPayout(tree, txn.id)

Peeling ==
  \E gone \in SUBSET DOMAIN tree :
    IsClosed(tree, gone) /\ (PeelsLeg(gone) \/ PeelsPayout(gone))

IInv == TypeOK /\ Bounded /\ IsForest(tree) /\ (txn = NoTxn \/ Peeling)

-----------------------------------------------------------------------------
(* Every set of numbers has a smallest one, and a bounded one a largest.    *)
LEMMA Lowest ==
  ASSUME NEW T \in SUBSET Nat, T # {}
  PROVE  \E x \in T : \A y \in T : x <= y
<1> DEFINE R == OpToRel(<, Nat)
<1>1. IsWellFoundedOn(R, Nat)
  BY NatLessThanWellFounded
<1>2. \A x, y \in Nat : y < x => <<y, x>> \in R
  BY DEF OpToRel
<1> HIDE DEF R
<1>3. PICK x \in T : \A y \in T : <<y, x>> \notin R
  BY <1>1, WFMin
<1>4. \A y \in T : ~(y < x)
  BY <1>2, <1>3
<1> QED
  BY <1>3, <1>4

LEMMA Largest ==
  ASSUME NEW D \in SUBSET Nat, D # {}, NEW n \in Nat, \A x \in D : x <= n
  PROVE  \E x \in D : \A y \in D : y <= x
<1> DEFINE T == {k \in Nat : n - k \in D}
<1>1. \A y \in D : n - y \in T
  <2> TAKE y \in D
  <2>1. n - y \in Nat /\ n - (n - y) = y
    OBVIOUS
  <2> QED
    BY <2>1
<1>2. T \in SUBSET Nat /\ T # {}
  BY <1>1
<1>3. \A k \in T : k \in Nat /\ n - k \in D
  OBVIOUS
<1> HIDE DEF T
<1>4. PICK k \in T : \A j \in T : k <= j
  BY <1>2, Lowest
<1>5. ASSUME NEW y \in D PROVE y <= n - k
  BY <1>1, <1>2, <1>4
<1> QED
  BY <1>3, <1>4, <1>5

(* Legs that hold all their children and are not none have a leaf: their    *)
(* newest row, since a parent is older than its children.                   *)
LEMMA ClosedHasLeaf ==
  ASSUME NEW t, IsForest(t), DOMAIN t \subseteq LegIds,
         NEW n \in Nat, \A l \in DOMAIN t : l <= n,
         NEW D \in SUBSET DOMAIN t, IsClosed(t, D), D # {}
  PROVE  Leaves(t, D) # {}
<1>1. PICK x \in D : \A y \in D : y <= x
  BY Largest, LegIdsAssumption
<1>2. x \in Nat /\ x # NoLeg
  BY LegIdsAssumption
<1>3. ASSUME NEW m \in DOMAIN t PROVE t[m].parent # x
  <2> SUFFICES ASSUME t[m].parent = x PROVE FALSE
    OBVIOUS
  <2>1. m \in D
    BY DEF IsClosed
  <2>2. x < m
    BY <1>2 DEF IsForest, ParentOK
  <2>3. m <= x /\ m \in Nat
    BY <1>1, <2>1, LegIdsAssumption
  <2> QED
    BY <1>2, <2>2, <2>3
<1> QED
  BY <1>3 DEF Leaves

(* The recursive CTE, evaluated afresh after some passes, names what is     *)
(* left of the subtree it named before the first.                           *)
LEMMA SubtreeLeft ==
  ASSUME NEW t, NEW gone \in SUBSET DOMAIN t, IsClosed(t, gone),
         NEW l \in DOMAIN t \ gone
  PROVE  Subtree(Without(t, gone), l) = Subtree(t, l) \ gone
<1> DEFINE u == Without(t, gone)
           S == Subtree(t, l)
           T == Subtree(u, l)
<1>1. DOMAIN u = DOMAIN t \ gone /\ \A m \in DOMAIN u : u[m] = t[m]
  BY DEF Without, Restrict
<1>2. l \in S /\ S \subseteq DOMAIN t /\ IsClosed(t, S)
  BY SubtreeIsClosed
<1> HIDE DEF u, S
<1>3. l \in T /\ T \subseteq DOMAIN u /\ IsClosed(u, T)
  BY <1>1, SubtreeIsClosed
<1>4. T \subseteq S \ gone
  <2>1. IsClosed(u, S \ gone) /\ S \ gone \in SUBSET DOMAIN u /\ l \in S \ gone
    BY <1>1, <1>2 DEF IsClosed
  <2> QED
    BY <1>1, <2>1, SubtreeIsLeast
<1> HIDE DEF T
<1>5. S \subseteq T \cup gone
  <2>1. IsClosed(t, T \cup gone)
    BY <1>1, <1>3 DEF IsClosed
  <2> QED
    BY <1>1, <1>3, <2>1, SubtreeIsLeast DEF S
<1> QED
  BY <1>4, <1>5 DEF u, S, T

(* Taking away rows that are nobody's parent keeps what is gone closed.     *)
LEMMA LeavesKeepClosed ==
  ASSUME NEW t, NEW gone \in SUBSET DOMAIN t, IsClosed(t, gone), NEW D,
         NEW L, L = Leaves(Without(t, gone), D), D \subseteq DOMAIN t \ gone
  PROVE  /\ gone \cup L \in SUBSET DOMAIN t
         /\ IsClosed(t, gone \cup L)
         /\ Without(Without(t, gone), L) = Without(t, gone \cup L)
<1>1. /\ DOMAIN Without(t, gone) = DOMAIN t \ gone
      /\ \A m \in DOMAIN t \ gone : Without(t, gone)[m] = t[m]
  BY DEF Without, Restrict
<1>2. L \subseteq D /\ \A l \in L, m \in DOMAIN t \ gone : t[m].parent # l
  BY <1>1 DEF Leaves
<1>3. IsClosed(t, gone \cup L)
  BY <1>2 DEF IsClosed
<1>4. Without(Without(t, gone), L) = Without(t, gone \cup L)
  BY DEF Without, Restrict
<1> QED
  BY <1>2, <1>3, <1>4

-----------------------------------------------------------------------------
(* The transaction's own view of the legs, and what it still has to take. *)

LEMMA ViewIsForest ==
  ASSUME IInv, NEW gone \in SUBSET DOMAIN tree, IsClosed(tree, gone)
  PROVE  LET work == Without(tree, gone) IN
         /\ DOMAIN work = DOMAIN tree \ gone
         /\ \A m \in DOMAIN work : work[m] = tree[m]
         /\ IsForest(work)
         /\ 0 \notin DOMAIN tree
         /\ \E n \in Nat : \A m \in DOMAIN work : m <= n
<1>1. 0 \notin DOMAIN tree
  BY LegIdsAssumption DEF IInv, TypeOK, NoLeg
<1>2. /\ DOMAIN Without(tree, gone) = DOMAIN tree \ gone
      /\ \A m \in DOMAIN tree \ gone : Without(tree, gone)[m] = tree[m]
      /\ IsForest(Without(tree, gone))
  BY WithoutClosedIsForest DEF IInv
<1> QED
  BY <1>1, <1>2 DEF IInv, Bounded

(* What is doomed is a closed set of rows of the view.                      *)
LEMMA DoomedIsClosed ==
  ASSUME IInv, NEW gone \in SUBSET DOMAIN tree, IsClosed(tree, gone),
         PeelsLeg(gone) \/ PeelsPayout(gone)
  PROVE  /\ txn.work = Without(tree, gone)
         /\ Doomed(txn) \in SUBSET DOMAIN txn.work
         /\ IsClosed(txn.work, Doomed(txn))
<1>1. txn.work = Without(tree, gone)
  BY DEF PeelsLeg, PeelsPayout
<1>2. CASE PeelsLeg(gone)
  <2>1. Doomed(txn) = SubtreeNow(txn.work, txn.id)
    BY <1>2 DEF PeelsLeg, Doomed
  <2>2. CASE txn.id \in DOMAIN txn.work
    BY <1>1, <2>1, <2>2, SubtreeIsClosed DEF SubtreeNow
  <2>3. CASE txn.id \notin DOMAIN txn.work
    BY <1>1, <2>1, <2>3 DEF SubtreeNow, IsClosed
  <2> QED
    BY <2>2, <2>3
<1>3. CASE PeelsPayout(gone)
  <2>1. Doomed(txn) = LegsOfPayout(txn.work, txn.id)
    BY <1>3 DEF PeelsPayout, Doomed
  <2>2. IsForest(txn.work) /\ 0 \notin DOMAIN txn.work
    BY <1>1, ViewIsForest
  <2>3. IsClosed(txn.work, LegsOfPayout(txn.work, txn.id))
    BY <2>2, PayoutIsClosed
  <2> QED
    BY <1>1, <2>1, <2>3 DEF LegsOfPayout
<1> QED
  BY <1>2, <1>3

LEMMA DoneWhenNoLeaves ==
  ASSUME IInv, NEW gone \in SUBSET DOMAIN tree, IsClosed(tree, gone),
         PeelsLeg(gone) \/ PeelsPayout(gone), Layer(txn) = {}
  PROVE  Doomed(txn) = {}
<1>1. /\ txn.work = Without(tree, gone)
      /\ Doomed(txn) \in SUBSET DOMAIN txn.work
      /\ IsClosed(txn.work, Doomed(txn))
  BY DoomedIsClosed
<1>2. /\ IsForest(txn.work)
      /\ DOMAIN txn.work \subseteq LegIds
      /\ \E n \in Nat : \A m \in DOMAIN txn.work : m <= n
  BY <1>1, ViewIsForest DEF IInv, TypeOK
<1> QED
  BY <1>1, <1>2, ClosedHasLeaf DEF Layer

(* So a leg's deletion commits when exactly its subtree has gone ...        *)
LEMMA LegIsPruned ==
  ASSUME IInv, NEW gone \in SUBSET DOMAIN tree, IsClosed(tree, gone),
         PeelsLeg(gone), Layer(txn) = {}
  PROVE  gone = Subtree(tree, txn.id)
<1>1. SubtreeNow(txn.work, txn.id) = {}
  BY DoneWhenNoLeaves DEF Doomed, PeelsLeg
<1>2. txn.id \notin DOMAIN txn.work
  BY <1>1, SubtreeIsClosed DEF SubtreeNow
<1>3. txn.work = Without(tree, gone)
  BY DEF PeelsLeg
<1>4. DOMAIN txn.work = DOMAIN tree \ gone
  BY <1>3, ViewIsForest
<1> QED
  BY <1>2, <1>4 DEF PeelsLeg

(* ... and a payout's when exactly its legs have.                           *)
LEMMA PayoutIsFelled ==
  ASSUME IInv, NEW gone \in SUBSET DOMAIN tree, IsClosed(tree, gone),
         PeelsPayout(gone), Layer(txn) = {}
  PROVE  /\ LegsOfPayout(txn.work, txn.id) = {}
         /\ gone = LegsOfPayout(tree, txn.id)
<1>1. LegsOfPayout(txn.work, txn.id) = {}
  BY DoneWhenNoLeaves DEF Doomed, PeelsPayout
<1>2. txn.work = Without(tree, gone)
  BY DEF PeelsPayout
<1>3. /\ DOMAIN txn.work = DOMAIN tree \ gone
      /\ \A m \in DOMAIN txn.work : txn.work[m] = tree[m]
  BY <1>2, ViewIsForest
<1> QED
  BY <1>1, <1>3 DEF LegsOfPayout, PeelsPayout

-----------------------------------------------------------------------------
(* The invariant is inductive *)

LEMMA InitIInv == Init => IInv
<1> SUFFICES ASSUME Init PROVE IInv
  OBVIOUS
<1>1. payouts = {} /\ DOMAIN tree = {} /\ tree = [l \in {} |-> l] /\ txn = NoTxn
  BY DEF Init, TreeInit
<1>2. TypeOK
  BY <1>1 DEF TypeOK
<1>3. Bounded
  BY <1>1 DEF Bounded
<1> QED
  BY <1>1, <1>2, <1>3 DEF IInv, IsForest

(* Fewer legs: what Prune, Fell and no step at all leave of the tables.     *)
LEMMA FewerLegs ==
  ASSUME IInv, NEW gone, IsClosed(tree, gone), tree' = Without(tree, gone),
         payouts' \subseteq payouts
  PROVE  TypeOK' /\ Bounded' /\ IsForest(tree')
<1>1. /\ DOMAIN tree' = DOMAIN tree \ gone
      /\ \A m \in DOMAIN tree \ gone : tree'[m] = tree[m]
      /\ IsForest(tree')
  BY WithoutClosedIsForest DEF IInv
<1>2. tree' \in [DOMAIN tree' -> LegRow]
  BY <1>1 DEF Without, Restrict, IInv, TypeOK
<1>3. TypeOK'
  BY <1>1, <1>2 DEF IInv, TypeOK
<1>4. Bounded'
  BY <1>1 DEF IInv, Bounded
<1> QED
  BY <1>1, <1>3, <1>4

LEMMA NothingIsClosed ==
  ASSUME IInv
  PROVE  IsClosed(tree, {}) /\ tree = Without(tree, {})
BY DEF IsClosed, Without, Restrict, IInv, TypeOK

LEMMA BeginIInv ==
  ASSUME IInv, NEW id, BeginDeleteLeg(id) \/ BeginDeletePayout(id)
  PROVE  IInv'
<1>1. IsClosed(tree, {}) /\ tree = Without(tree, {}) /\ {} \in SUBSET DOMAIN tree
  BY NothingIsClosed
<1>2. UNCHANGED <<payouts, tree>>
  BY DEF BeginDeleteLeg, BeginDeletePayout
<1>3. TypeOK' /\ Bounded' /\ IsForest(tree')
  BY <1>2 DEF IInv, TypeOK, Bounded
<1>4. CASE BeginDeleteLeg(id)
  <2>1. txn' = [deletes |-> "leg", id |-> id, work |-> Without(tree, {})]
    BY <1>1, <1>4 DEF BeginDeleteLeg, Begin
  <2>2. PeelsLeg({})'
    BY <1>2, <1>4, <2>1 DEF BeginDeleteLeg, PeelsLeg
  <2> QED
    BY <1>1, <1>2, <1>3, <2>2 DEF IInv, Peeling
<1>5. CASE BeginDeletePayout(id)
  <2>1. txn' = [deletes |-> "payout", id |-> id, work |-> Without(tree, {})]
    BY <1>1, <1>5 DEF BeginDeletePayout, Begin
  <2>2. PeelsPayout({})'
    BY <1>2, <1>5, <2>1 DEF BeginDeletePayout, PeelsPayout
  <2> QED
    BY <1>1, <1>2, <1>3, <2>2 DEF IInv, Peeling
<1> QED
  BY <1>4, <1>5

(* One pass more has gone, and what has gone is closed.                     *)
LEMMA PassIInv ==
  ASSUME IInv, Pass
  PROVE  IInv'
<1>1. PICK gone \in SUBSET DOMAIN tree :
        IsClosed(tree, gone) /\ (PeelsLeg(gone) \/ PeelsPayout(gone))
  BY DEF IInv, Pass, Quiet, Peeling
<1> DEFINE L == Layer(txn)
<1>2. /\ txn.work = Without(tree, gone)
      /\ Doomed(txn) \in SUBSET DOMAIN txn.work
      /\ IsClosed(txn.work, Doomed(txn))
  BY <1>1, DoomedIsClosed
<1>3. /\ DOMAIN txn.work = DOMAIN tree \ gone
      /\ \A m \in DOMAIN txn.work : txn.work[m] = tree[m]
  BY <1>1, <1>2, ViewIsForest
<1>4. L \subseteq Doomed(txn) /\ L = Leaves(Without(tree, gone), Doomed(txn)) /\ L # {}
  BY <1>2 DEF Layer, Leaves, Pass
<1>5. UNCHANGED <<payouts, tree>>
  BY DEF Pass
<1>6. TypeOK' /\ Bounded' /\ IsForest(tree')
  BY <1>5 DEF IInv, TypeOK, Bounded
<1>7. txn' = [txn EXCEPT !.work = Without(txn.work, L)]
  BY DEF Pass
<1> HIDE DEF L
<1>8. PICK more \in SUBSET DOMAIN tree :
        /\ more = gone \cup L
        /\ IsClosed(tree, more)
        /\ Without(Without(tree, gone), L) = Without(tree, more)
  <2>1. /\ gone \cup L \in SUBSET DOMAIN tree
        /\ IsClosed(tree, gone \cup L)
        /\ Without(Without(tree, gone), L) = Without(tree, gone \cup L)
    BY <1>1, <1>2, <1>3, <1>4, LeavesKeepClosed
  <2> QED
    BY <2>1
<1>9. CASE PeelsLeg(gone)
  <2>1. txn' = [deletes |-> "leg", id |-> txn.id, work |-> Without(tree, more)]
    BY <1>2, <1>7, <1>8, <1>9 DEF PeelsLeg
  <2>2. Doomed(txn) = SubtreeNow(txn.work, txn.id)
    BY <1>9 DEF PeelsLeg, Doomed
  <2>3. txn.id \in DOMAIN tree \ gone
    BY <1>3, <1>4, <2>2 DEF SubtreeNow
  <2>4. Doomed(txn) = Subtree(tree, txn.id) \ gone
    BY <1>1, <1>2, <1>3, <2>2, <2>3, SubtreeLeft DEF SubtreeNow
  <2>5. gone \subseteq Subtree(tree, txn.id)
    BY <1>9 DEF PeelsLeg
  <2>6. more \subseteq Subtree(tree, txn.id)
    BY <1>4, <1>8, <2>4, <2>5
  <2>7. ASSUME txn.id \in more PROVE more = Subtree(tree, txn.id)
    <3>1. txn.id \in L
      BY <1>8, <2>3, <2>7
    <3>2. \A m \in DOMAIN txn.work : txn.work[m].parent # txn.id
      BY <1>2, <1>4, <3>1 DEF Leaves
    <3>3. IsClosed(txn.work, {txn.id}) /\ txn.id \in DOMAIN txn.work
      BY <1>3, <2>3, <3>2 DEF IsClosed
    <3>4. Subtree(txn.work, txn.id) \subseteq {txn.id}
      BY <3>3, SubtreeIsLeast
    <3>5. Doomed(txn) \subseteq {txn.id}
      BY <2>2, <3>3, <3>4 DEF SubtreeNow
    <3> QED
      BY <1>8, <2>4, <2>6, <3>1, <3>5
  <2>8. PeelsLeg(more)'
    BY <1>5, <2>1, <2>3, <2>6, <2>7 DEF PeelsLeg
  <2> QED
    BY <1>5, <1>6, <1>8, <2>8 DEF IInv, Peeling
<1>10. CASE PeelsPayout(gone)
  <2>1. txn' = [deletes |-> "payout", id |-> txn.id, work |-> Without(tree, more)]
    BY <1>2, <1>7, <1>8, <1>10 DEF PeelsPayout
  <2>2. Doomed(txn) = LegsOfPayout(txn.work, txn.id)
    BY <1>10 DEF PeelsPayout, Doomed
  <2>3. more \subseteq LegsOfPayout(tree, txn.id)
    BY <1>3, <1>4, <1>8, <1>10, <2>2 DEF LegsOfPayout, PeelsPayout
  <2>4. PeelsPayout(more)'
    BY <1>5, <1>10, <2>1, <2>3 DEF PeelsPayout
  <2> QED
    BY <1>5, <1>6, <1>8, <2>4 DEF IInv, Peeling
<1> QED
  BY <1>1, <1>9, <1>10

(* A commit publishes the abstract delete.                                  *)
LEMMA CommitLegPrunes ==
  ASSUME IInv, CommitLeg
  PROVE  IInv' /\ txn.id \in LegIds /\ Prune(txn.id)
<1>1. txn # NoTxn
  BY DEF CommitLeg, NoTxn
<1>2. PICK gone \in SUBSET DOMAIN tree : IsClosed(tree, gone) /\ PeelsLeg(gone)
  BY <1>1 DEF IInv, Peeling, CommitLeg, PeelsPayout
<1>3. gone = Subtree(tree, txn.id)
  BY <1>2, LegIsPruned DEF CommitLeg
<1>4. tree' = Without(tree, gone) /\ txn' = NoTxn /\ UNCHANGED payouts
  BY <1>2 DEF CommitLeg, PeelsLeg
<1>5. txn.id \in DOMAIN tree /\ txn.id \in LegIds
  BY <1>2 DEF PeelsLeg, IInv, TypeOK
<1>6. TypeOK' /\ Bounded' /\ IsForest(tree')
  BY <1>2, <1>4, FewerLegs
<1> QED
  BY <1>3, <1>4, <1>5, <1>6 DEF IInv, Prune, NoTxn

LEMMA CommitPayoutFells ==
  ASSUME IInv, CommitPayout
  PROVE  IInv' /\ txn.id \in PayoutIds /\ Fell(txn.id)
<1>1. txn # NoTxn
  BY DEF CommitPayout, NoTxn
<1>2. PICK gone \in SUBSET DOMAIN tree : IsClosed(tree, gone) /\ PeelsPayout(gone)
  BY <1>1 DEF IInv, Peeling, CommitPayout, PeelsLeg
<1>3. LegsOfPayout(txn.work, txn.id) = {} /\ gone = LegsOfPayout(tree, txn.id)
  BY <1>2, PayoutIsFelled DEF CommitPayout
<1>4. txn.work = Without(tree, gone)
  BY <1>2 DEF PeelsPayout
<1>5. tree' = Without(tree, gone) /\ txn' = NoTxn /\ payouts' = payouts \ {txn.id}
  <2>1. Without(Without(tree, gone), {}) = Without(tree, gone)
    BY DEF Without, Restrict
  <2> QED
    BY <1>3, <1>4, <2>1 DEF CommitPayout
<1>6. txn.id \in payouts /\ txn.id \in PayoutIds
  BY <1>2 DEF PeelsPayout, IInv, TypeOK
<1>7. TypeOK' /\ Bounded' /\ IsForest(tree')
  BY <1>2, <1>5, FewerLegs
<1> QED
  BY <1>3, <1>5, <1>6, <1>7 DEF IInv, Fell, NoTxn

LEMMA InsertIInv ==
  ASSUME IInv, NEW l \in LegIds, NEW p \in PayoutIds, NEW parent \in LegIds \cup {NoLeg},
         Insert(l, p, parent)
  PROVE  IInv'
<1> DEFINE row == [payout |-> p, parent |-> parent]
<1>1. /\ IsNextRowId(l, DOMAIN tree)
      /\ tree' = WithRow(tree, l, row)
      /\ parent = NoLeg \/ (parent \in DOMAIN tree /\ tree[parent].payout = p)
      /\ UNCHANGED <<payouts, txn>> /\ txn = NoTxn
  BY DEF Insert, Grow, Quiet, LegsOfPayout
<1>2. DOMAIN tree \subseteq Nat /\ l \in Nat /\ IsForest(tree)
  BY LegIdsAssumption DEF IInv, TypeOK
<1>3. /\ DOMAIN tree' = DOMAIN tree \cup {l}
      /\ IsForest(tree')
  BY <1>1, <1>2, WithRowIsForest
<1>4. tree' \in [DOMAIN tree' -> LegRow]
  BY <1>1, <1>3 DEF WithRow, LegRow, IInv, TypeOK
<1>5. TypeOK'
  BY <1>1, <1>3, <1>4 DEF IInv, TypeOK
<1>6. \A m \in DOMAIN tree' : m <= l
  BY <1>1, <1>2, <1>3 DEF IsNextRowId
<1>7. Bounded'
  BY <1>2, <1>6 DEF Bounded
<1> QED
  BY <1>1, <1>3, <1>5, <1>7 DEF IInv

LEMMA QuietIInv ==
  ASSUME IInv, UNCHANGED tree, payouts' \subseteq PayoutIds, txn' = NoTxn
  PROVE  IInv'
BY DEF IInv, TypeOK, Bounded

LEMMA NextIInv == IInv /\ [Next]_vars => IInv'
<1> SUFFICES ASSUME IInv, [Next]_vars PROVE IInv'
  OBVIOUS
<1>1. ASSUME NEW p \in PayoutIds, OpenPayout(p) PROVE IInv'
  BY <1>1, QuietIInv DEF OpenPayout, Open, Quiet, IInv, TypeOK
<1>2. ASSUME NEW p \in PayoutIds, BeginDeletePayout(p) PROVE IInv'
  BY <1>2, BeginIInv
<1>3. ASSUME NEW l \in LegIds, NEW p \in PayoutIds, NEW parent \in LegIds \cup {NoLeg},
             Insert(l, p, parent)
      PROVE  IInv'
  BY <1>3, InsertIInv
<1>4. ASSUME NEW l \in LegIds, BeginDeleteLeg(l) PROVE IInv'
  BY <1>4, BeginIInv
<1>5. CASE Rollback
  BY <1>5, QuietIInv DEF Rollback, IInv, TypeOK
<1>6. CASE UNCHANGED vars
  BY <1>6 DEF vars, IInv, TypeOK, Bounded, Peeling, PeelsLeg, PeelsPayout
<1> QED
  BY <1>1, <1>2, <1>3, <1>4, <1>5, <1>6, PassIInv, CommitLegPrunes, CommitPayoutFells
  DEF Next

LEMMA AlwaysIInv == Spec => []IInv
  BY InitIInv, NextIInv, PTL DEF Spec

-----------------------------------------------------------------------------
(* After every pass the transaction's view is a forest: the RESTRICT on     *)
(* parent_id is never hit half way, however deep the tree.                  *)
THEOREM PassesLeaveForests == Spec => []EveryPassLeavesAForest
<1>1. IInv => EveryPassLeavesAForest
  <2> SUFFICES ASSUME IInv PROVE IsForest(txn.work)
    BY DEF EveryPassLeavesAForest
  <2>1. CASE txn = NoTxn
    BY <2>1 DEF NoTxn, IsForest
  <2>2. CASE Peeling
    <3>1. PICK gone \in SUBSET DOMAIN tree :
            IsClosed(tree, gone) /\ (PeelsLeg(gone) \/ PeelsPayout(gone))
      BY <2>2 DEF Peeling
    <3>2. txn.work = Without(tree, gone)
      BY <3>1 DEF PeelsLeg, PeelsPayout
    <3> QED
      BY <3>1, <3>2, ViewIsForest
  <2> QED
    BY <2>1, <2>2 DEF IInv
<1> QED
  BY <1>1, AlwaysIInv, PTL

(* `changes' is zero only when nothing doomed is left: the loop's exit      *)
(* condition means what the comment beside it says.                         *)
THEOREM NoChangesMeansGone == Spec => []DoneMeansGone
<1>1. IInv => DoneMeansGone
  BY DoneWhenNoLeaves DEF DoneMeansGone, IInv, Quiet, Peeling
<1> QED
  BY <1>1, AlwaysIInv, PTL

(* Every statement and every kill is an abstract step or none.               *)
LEMMA StepsAreTheTrees == IInv /\ [Next]_vars => [TreeNext]_treeVars
<1> SUFFICES ASSUME IInv, [Next]_vars PROVE [TreeNext]_treeVars
  OBVIOUS
<1>1. ASSUME NEW p \in PayoutIds, OpenPayout(p) PROVE TreeNext
  BY <1>1 DEF OpenPayout, TreeNext
<1>2. ASSUME NEW l \in LegIds, NEW p \in PayoutIds, NEW parent \in LegIds \cup {NoLeg},
             Insert(l, p, parent)
      PROVE  TreeNext
  BY <1>2 DEF Insert, TreeNext
<1>3. CASE CommitLeg
  BY <1>3, CommitLegPrunes DEF TreeNext
<1>4. CASE CommitPayout
  BY <1>4, CommitPayoutFells DEF TreeNext
<1>5. CASE Pass \/ Rollback \/ UNCHANGED vars
  BY <1>5 DEF Pass, Rollback, vars, treeVars
<1>6. ASSUME NEW id, BeginDeleteLeg(id) \/ BeginDeletePayout(id)
      PROVE  UNCHANGED treeVars
  BY <1>6 DEF BeginDeleteLeg, BeginDeletePayout, treeVars
<1> QED
  BY <1>1, <1>2, <1>3, <1>4, <1>5, <1>6 DEF Next

(* The loop of passes inside one transaction implements one atomic delete   *)
(* of exactly the subtree, or of the payout and its legs, killed or not.    *)
THEOREM LoopsAreAtomicDeletes == Spec => DeletesAreAtomic
<1>1. Init => TreeInit
  BY DEF Init
<1> QED
  BY <1>1, StepsAreTheTrees, AlwaysIInv, PTL DEF Spec, DeletesAreAtomic, TreeSpec

-----------------------------------------------------------------------------
(* The reads of Scope *)

(* Every leg under a leg that is not that leg hangs from one of them.       *)
LEMMA ParentInSubtree ==
  ASSUME NEW t, NEW r \in DOMAIN t, NEW x \in Subtree(t, r), x # r
  PROVE  t[x].parent \in Subtree(t, r)
<1> DEFINE S == Subtree(t, r)
<1> SUFFICES ASSUME t[x].parent \notin S PROVE FALSE
  OBVIOUS
<1>1. r \in S /\ S \subseteq DOMAIN t /\ IsClosed(t, S)
  BY SubtreeIsClosed
<1>2. Subtree(t, r) = S
  OBVIOUS
<1> HIDE DEF S
<1>3. IsClosed(t, S \ {x}) /\ S \ {x} \in SUBSET DOMAIN t /\ r \in S \ {x}
  BY <1>1 DEF IsClosed
<1>4. Subtree(t, r) \subseteq S \ {x}
  BY <1>3, SubtreeIsLeast
<1> QED
  BY <1>2, <1>4

(* Every leg is in the tree of some leg that came from no other ...         *)
LEMMA EveryLegHasARoot ==
  ASSUME NEW t, IsForest(t), DOMAIN t \subseteq Nat, NEW l \in DOMAIN t
  PROVE  \E r \in DOMAIN t : t[r].parent = NoLeg /\ l \in Subtree(t, r)
<1> DEFINE A == {m \in DOMAIN t : l \in Subtree(t, m)}
<1>1. A \in SUBSET Nat /\ A # {}
  BY SubtreeIsClosed
<1>2. PICK r \in A : \A m \in A : r <= m
  BY <1>1, Lowest
<1>3. ASSUME t[r].parent # NoLeg PROVE FALSE
  <2>1. t[r].parent \in DOMAIN t /\ t[r].parent < r
    BY <1>3 DEF IsForest, ParentOK
  <2>2. r \in Subtree(t, t[r].parent) /\ IsClosed(t, Subtree(t, t[r].parent))
        /\ Subtree(t, t[r].parent) \in SUBSET DOMAIN t
    BY <2>1, SubtreeIsClosed DEF IsClosed
  <2>3. Subtree(t, r) \subseteq Subtree(t, t[r].parent)
    BY <2>2, SubtreeIsLeast
  <2>4. t[r].parent \in A /\ r \in Nat
    BY <1>1, <2>1, <2>3
  <2> QED
    BY <1>1, <1>2, <2>1, <2>4
<1> QED
  BY <1>3

(* ... and of no two of them: two trees that share a leg share the oldest   *)
(* of those, which would have to be both roots.                             *)
LEMMA NoLegHasTwoRoots ==
  ASSUME NEW t, IsForest(t), DOMAIN t \subseteq Nat, NoLeg \notin DOMAIN t,
         NEW q \in DOMAIN t, NEW r \in DOMAIN t,
         t[q].parent = NoLeg, t[r].parent = NoLeg,
         NEW l \in Subtree(t, q) \cap Subtree(t, r)
  PROVE  q = r
<1> SUFFICES ASSUME q # r PROVE FALSE
  OBVIOUS
<1> DEFINE D == Subtree(t, q) \cap Subtree(t, r)
<1>1. Subtree(t, q) \subseteq DOMAIN t /\ Subtree(t, r) \subseteq DOMAIN t
  BY SubtreeIsClosed
<1>2. D \in SUBSET Nat /\ D # {}
  BY <1>1
<1>3. PICK x \in D : \A y \in D : x <= y
  BY <1>2, Lowest
<1>4. CASE x # q /\ x # r
  <2>1. t[x].parent \in D
    BY <1>4, ParentInSubtree
  <2>2. t[x].parent # NoLeg
    BY <1>1, <2>1
  <2>3. t[x].parent < x
    BY <1>1, <2>2 DEF IsForest, ParentOK
  <2> QED
    BY <1>2, <1>3, <2>1, <2>3
<1>5. CASE x = q
  <2>1. t[q].parent \in Subtree(t, r)
    BY <1>5, ParentInSubtree
  <2> QED
    BY <1>1, <2>1
<1>6. CASE x = r
  <2>1. t[r].parent \in Subtree(t, q)
    BY <1>6, ParentInSubtree
  <2> QED
    BY <1>1, <2>1
<1> QED
  BY <1>4, <1>5, <1>6

-----------------------------------------------------------------------------
(* What the reads find: every leg in a payout on file, every payout as one  *)
(* of the drafts.                                                           *)
ScopeInv ==
  /\ IInv
  /\ \A l \in DOMAIN tree : tree[l].payout \in payouts
  /\ about \in [payouts -> Drafts]

LEMMA ScopeInitInv == ScopeInit => ScopeInv
<1> SUFFICES ASSUME ScopeInit PROVE ScopeInv
  OBVIOUS
<1>1. IInv
  BY InitIInv DEF ScopeInit
<1>2. payouts = {} /\ DOMAIN tree = {} /\ about = [p \in {} |-> p]
  BY DEF ScopeInit, Init, TreeInit
<1>3. about \in [payouts -> Drafts]
  BY <1>2
<1> QED
  BY <1>1, <1>2, <1>3 DEF ScopeInv

LEMMA ScopeNextInv == ScopeInv /\ [ScopeNext]_scopeVars => ScopeInv'
<1> SUFFICES ASSUME ScopeInv, [ScopeNext]_scopeVars PROVE ScopeInv'
  OBVIOUS
<1>1. [Next]_vars
  BY DEF ScopeNext, scopeVars
<1>2. IInv /\ IInv' /\ [TreeNext]_treeVars
  BY <1>1, NextIInv, StepsAreTheTrees DEF ScopeInv
<1>3. \A l \in DOMAIN tree' : tree'[l].payout \in payouts'
  <2> USE DEF ScopeInv
  <2>1. ASSUME NEW p \in PayoutIds, Open(p) PROVE <1>3
    BY <2>1 DEF Open
  <2>2. ASSUME NEW l \in LegIds, NEW p \in PayoutIds, NEW parent \in LegIds \cup {NoLeg},
               Grow(l, p, parent)
        PROVE  <1>3
    BY <2>2 DEF Grow, WithRow
  <2>3. ASSUME NEW l \in LegIds, Prune(l) PROVE <1>3
    BY <2>3 DEF Prune, Without, Restrict
  <2>4. ASSUME NEW p \in PayoutIds, Fell(p) PROVE <1>3
    BY <2>4 DEF Fell, Without, Restrict, LegsOfPayout
  <2>5. CASE UNCHANGED treeVars
    BY <2>5 DEF treeVars
  <2> QED
    BY <1>2, <2>1, <2>2, <2>3, <2>4, <2>5 DEF TreeNext
<1>4. about' \in [payouts' -> Drafts]
  <2>1. CASE UNCHANGED scopeVars
    BY <2>1 DEF scopeVars, vars, ScopeInv
  <2>2. ASSUME NEW draft \in Drafts, Recorded(draft) PROVE <1>4
    BY <2>2 DEF Recorded, ScopeInv
  <2> QED
    BY <2>1, <2>2 DEF ScopeNext
<1> QED
  BY <1>2, <1>3, <1>4 DEF ScopeInv

LEMMA AlwaysScopeInv == ScopeSpec => []ScopeInv
  BY ScopeInitInv, ScopeNextInv, PTL DEF ScopeSpec

(* get-payout-trail.ts: the trail shows every leg, and each once: of the    *)
(* roots of its payout exactly one has it below.                            *)
LEMMA TrailIsWhole == ScopeInv => TrailShowsEveryLeg
<1> SUFFICES ASSUME ScopeInv, NEW p \in payouts, NEW l \in LegsOfPayout(tree, p)
             PROVE  Cardinality({r \in Roots(p) : l \in Trail(p, r)}) = 1
  BY DEF TrailShowsEveryLeg
<1>1. /\ IsForest(tree) /\ l \in DOMAIN tree /\ tree[l].payout = p
      /\ DOMAIN tree \subseteq Nat /\ NoLeg \notin DOMAIN tree /\ 0 \notin DOMAIN tree
  BY LegIdsAssumption DEF ScopeInv, IInv, TypeOK, LegsOfPayout, NoLeg
<1>2. Roots(p) = {m \in LegsOfPayout(tree, p) : tree[m].parent = NoLeg}
  BY <1>1 DEF Roots, LegsOfPayout, IsForest, ParentOK
<1>3. ASSUME NEW r \in Roots(p) PROVE Trail(p, r) = Subtree(tree, r) /\ r \in DOMAIN tree
  <2>1. r \in DOMAIN tree /\ tree[r].payout = p
    BY <1>2 DEF LegsOfPayout
  <2> QED
    BY <1>1, <2>1, SubtreeWithinPayout DEF Trail
<1>4. PICK r \in DOMAIN tree : tree[r].parent = NoLeg /\ l \in Subtree(tree, r)
  BY <1>1, EveryLegHasARoot
<1>5. r \in Roots(p)
  <2>1. l \in LegsOfPayout(tree, tree[r].payout)
    BY <1>1, <1>4, SubtreeInOnePayout
  <2> QED
    BY <1>1, <1>2, <1>4, <2>1 DEF LegsOfPayout
<1>6. {q \in Roots(p) : l \in Trail(p, q)} = {r}
  <2>1. ASSUME NEW q \in Roots(p), l \in Trail(p, q) PROVE q = r
    <3>1. q \in DOMAIN tree /\ l \in Subtree(tree, q) /\ tree[q].parent = NoLeg
      BY <1>2, <1>3, <2>1
    <3> QED
      BY <1>1, <1>4, <3>1, NoLegHasTwoRoots
  <2>2. l \in Trail(p, r)
    BY <1>3, <1>4, <1>5
  <2> QED
    BY <1>5, <2>1, <2>2
<1> QED
  BY <1>6, FS_Singleton

-----------------------------------------------------------------------------
(* Days and months *)

LEMMA DateFields ==
  ASSUME NEW d \in Date
  PROVE  /\ d.year \in Nat /\ d.month \in 1..12 /\ d.day \in 1..31
         /\ d.day <= LastDay(d.year, d.month)
<1>1. d \in [year : Nat, month : 1..12, day : 1..31] /\ d.day <= DaysIn(d.year, d.month)
  BY DEF Date
<1> QED
  BY <1>1 DEF LastDay

LEMMA LastDays ==
  ASSUME NEW year \in Nat, NEW month \in 1..12
  PROVE  LastDay(year, month) \in 28..31
<1> DEFINE leap == year % 4 = 0 /\ (year % 100 # 0 \/ year % 400 = 0)
<1>1. LastDay(year, month) = CASE month = 2 -> IF leap THEN 29 ELSE 28
                               [] month \in {4, 6, 9, 11} -> 30
                               [] OTHER -> 31
  BY DEF LastDay, DaysIn
<1> HIDE DEF leap
<1> QED
  BY <1>1

(* Comparing days as text is comparing their months first. *)
LEMMA DaysInOrder ==
  \A y, z \in Nat, m, n \in 1..12, d, e \in 1..31 :
    Day(y, m, d) <= Day(z, n, e)
      <=> \/ y * 12 + m < z * 12 + n
          \/ y = z /\ m = n /\ d <= e
<1> TAKE y, z \in Nat, m, n \in 1..12, d, e \in 1..31
<1>1. Day(y, m, d) <= Day(z, n, e) <=> (y * 100 + m) * 100 + d <= (z * 100 + n) * 100 + e
  BY DEF Day
<1>2. CASE y < z
  BY <1>1, <1>2
<1>3. CASE z < y
  BY <1>1, <1>3
<1>4. CASE y = z
  BY <1>1, <1>4
<1> QED
  BY <1>2, <1>3, <1>4

(* The days of a period are the days of its months: comparing days as text  *)
(* and months as numbers is the same, from a month's first day to its last. *)
LEMMA DaysOfMonths ==
  ASSUME NEW d \in Date, NEW from \in Point, NEW to \in Point
  PROVE  /\ Day(from.year, from.month, 1) <= DayOf(d) <=> ~IsBefore(d, from)
         /\ DayOf(d) <= Day(to.year, to.month, LastDay(to.year, to.month)) <=> ~IsBefore(to, d)
<1>1. /\ d.year \in Nat /\ d.month \in 1..12 /\ d.day \in 1..31
      /\ d.day <= LastDay(d.year, d.month)
  BY DateFields
<1>2. /\ from.year \in Nat /\ from.month \in 1..12
      /\ to.year \in Nat /\ to.month \in 1..12
  BY ScopeConstants DEF Point
<1>3. LastDay(to.year, to.month) \in 28..31
  BY <1>2, LastDays
<1>4. DayOf(d) = Day(d.year, d.month, d.day)
  BY DEF DayOf
<1>5. Day(from.year, from.month, 1) <= Day(d.year, d.month, d.day) <=> ~IsBefore(d, from)
  <2>1. Day(from.year, from.month, 1) <= Day(d.year, d.month, d.day)
          <=> \/ from.year * 12 + from.month < d.year * 12 + d.month
              \/ from.year = d.year /\ from.month = d.month /\ 1 <= d.day
    <3>1. 1 \in 1..31
      OBVIOUS
    <3> QED
      BY <1>1, <1>2, <3>1, DaysInOrder
  <2>2. IsBefore(d, from) <=> d.year * 12 + d.month < from.year * 12 + from.month
    BY DEF IsBefore
  <2>3. \A y, z \in Nat, m, n \in 1..12 :
          ~(y * 12 + m < z * 12 + n) <=> z * 12 + n < y * 12 + m \/ (z = y /\ n = m)
    OBVIOUS
  <2> QED
    BY <1>1, <1>2, <2>1, <2>2, <2>3
<1>6. Day(d.year, d.month, d.day) <= Day(to.year, to.month, LastDay(to.year, to.month))
        <=> ~IsBefore(to, d)
  <2>1. PICK e \in 1..31 : e = LastDay(to.year, to.month)
    BY <1>3
  <2>2. Day(d.year, d.month, d.day) <= Day(to.year, to.month, e)
          <=> \/ d.year * 12 + d.month < to.year * 12 + to.month
              \/ d.year = to.year /\ d.month = to.month /\ d.day <= e
    BY <1>1, <1>2, DaysInOrder
  <2>3. IsBefore(to, d) <=> to.year * 12 + to.month < d.year * 12 + d.month
    BY DEF IsBefore
  <2>4. \A y, z \in Nat, m, n \in 1..12 :
          ~(y * 12 + m < z * 12 + n) <=> z * 12 + n < y * 12 + m \/ (z = y /\ n = m)
    OBVIOUS
  <2> QED
    BY <1>1, <1>2, <2>1, <2>2, <2>3, <2>4
<1> QED
  BY <1>4, <1>5, <1>6

-----------------------------------------------------------------------------
(* Selections *)

LEMMA PeriodShape ==
  ASSUME NEW s \in Periods
  PROVE  /\ s = [trader |-> s.trader, from |-> s.from, to |-> s.to]
         /\ s.trader \in Traders \cup {Everybody}
         /\ \/ s.from = Everybody /\ s.to = Everybody
            \/ s.from \in Point /\ s.to \in Point /\ ~IsBefore(s.to, s.from)
BY DEF Periods, Selections, IsPeriod, Everything

LEMMA PointIsNotEverybody == Everybody \notin Point
BY EverybodyIsNoChoice

(* The years offered reach from before the first payout to the last, or to  *)
(* the clock's.                                                             *)
LEMMA YearsOffered ==
  ASSUME ScopeInv
  PROVE  \E lo, hi \in Nat :
           /\ YearsToOffer = (lo - 1)..hi /\ YearsToOffer \subseteq Years
           /\ lo - 1 \in Nat /\ lo <= hi /\ FallbackYear = hi
           /\ \A p \in payouts : lo <= about[p].date.year /\ about[p].date.year <= hi
<1>1. \A p \in payouts : about[p].date \in Date /\ about[p].date.year \in YearsInUse
  BY ScopeConstants DEF ScopeInv, YearsInUse
<1>2. PayoutYears \subseteq YearsInUse /\ \A y \in PayoutYears : y \in Nat /\ y <= 9999
  <2>1. \A p \in payouts : about[p].date.year \in Nat /\ about[p].date.year <= 9999
    BY <1>1 DEF Date
  <2> QED
    BY <1>1, <2>1 DEF PayoutYears
<1>3. ThisYear \in YearsInUse /\ \A y \in YearsInUse : y - 1 \in Years /\ y \in Years
  BY ScopeConstants DEF YearsInUse
<1> DEFINE known == IF PayoutYears = {} THEN {ThisYear} ELSE PayoutYears
<1>4. known \subseteq YearsInUse /\ known # {} /\ PayoutYears \subseteq known
      /\ known \cup {ThisYear} \subseteq YearsInUse /\ known \cup {ThisYear} # {}
      /\ known \subseteq PayoutYears \cup {ThisYear}
  BY <1>2, <1>3
<1>5. \A y \in YearsInUse : y \in Nat \ {0} /\ y - 1 \in Nat
  BY <1>3, ScopeConstants
<1>6. PICK n \in Nat : \A y \in known \cup {ThisYear} : y <= n
  <2>1. ThisYear \in Nat
    BY <1>3, <1>5
  <2>2. \A y \in known \cup {ThisYear} : (y \in Nat /\ y <= 9999) \/ y = ThisYear
    BY <1>2, <1>4
  <2>3. \A y \in known \cup {ThisYear} : y <= 9999 + ThisYear
    BY <2>1, <2>2
  <2>4. 9999 + ThisYear \in Nat
    BY <2>1
  <2> QED
    BY <2>3, <2>4
<1>7. YearsToOffer = (Min(known) - 1)..Max(known \cup {ThisYear})
  BY DEF YearsToOffer
<1> HIDE DEF known
<1>8. Min(known) \in known /\ \A y \in known : Min(known) <= y
  <2>1. \E x \in known : \A y \in known : x <= y
    BY <1>4, <1>5, Lowest
  <2> QED
    BY <2>1 DEF Min
<1>9. /\ Max(known \cup {ThisYear}) \in known \cup {ThisYear}
      /\ \A y \in known \cup {ThisYear} : y <= Max(known \cup {ThisYear})
  <2> DEFINE M == known \cup {ThisYear}
  <2>1. M \in SUBSET Nat /\ M # {} /\ \A y \in M : y <= n
    BY <1>4, <1>5, <1>6
  <2> HIDE DEF M
  <2>2. \E x \in M : \A y \in M : y <= x
    BY <2>1, Largest
  <2>3. \E x \in M : \A y \in M : x >= y
    BY <2>1, <2>2
  <2>4. Max(M) \in M /\ \A y \in M : Max(M) >= y
    BY <2>3 DEF Max
  <2>5. Max(M) \in M /\ \A y \in M : y <= Max(M)
    BY <2>1, <2>4
  <2> QED
    BY <2>5 DEF M
<1> DEFINE lo == Min(known)
           hi == Max(known \cup {ThisYear})
<1>10. /\ lo \in Nat /\ lo - 1 \in Nat /\ hi \in Nat /\ lo <= hi
       /\ lo - 1 \in Years /\ hi \in Years
  BY <1>3, <1>4, <1>5, <1>8, <1>9
<1>11. \A p \in payouts : lo <= about[p].date.year /\ about[p].date.year <= hi
  BY <1>4, <1>8, <1>9 DEF PayoutYears
<1> HIDE DEF lo, hi
<1>12. YearsToOffer = (lo - 1)..hi
  BY <1>7 DEF lo, hi
<1>13. YearsToOffer \subseteq Years
  BY <1>10, <1>12, ScopeConstants
<1>14. FallbackYear = hi
  <2>1. hi \in YearsToOffer /\ \A y \in YearsToOffer : hi >= y
    BY <1>10, <1>12
  <2>2. \A x \in YearsToOffer : (\A y \in YearsToOffer : x >= y) => x = hi
    BY <1>10, <1>12, <2>1
  <2> QED
    BY <2>1, <2>2 DEF FallbackYear, Max
<1> QED
  BY <1>10, <1>11, <1>12, <1>13, <1>14

LEMMA CompletedIsAPoint ==
  ASSUME ScopeInv, NEW point \in Point \cup {Everybody}, NEW half \in Halves, NEW month \in Months
  PROVE  Completed(point, half, month) \in Point
<1>1. PICK lo, hi \in Nat : /\ YearsToOffer = (lo - 1)..hi /\ YearsToOffer \subseteq Years
                            /\ lo - 1 \in Nat /\ lo <= hi /\ FallbackYear = hi
  BY YearsOffered
<1>2. FallbackYear \in Years
  BY <1>1
<1>3. point # Everybody => point.year \in Years /\ point.month \in Months
  BY DEF Point
<1>4. CASE \E y \in YearsToOffer : half = [year |-> y]
  <2>1. "year" \in DOMAIN half /\ "month" \notin DOMAIN half /\ half.year \in Years
    BY <1>1, <1>4
  <2> QED
    BY <1>3, <2>1 DEF Completed, Point
<1>5. CASE \E m \in Months : half = [month |-> m]
  <2>1. "month" \in DOMAIN half /\ "year" \notin DOMAIN half /\ half.month \in Months
    BY <1>5
  <2> QED
    BY <1>2, <1>3, <2>1 DEF Completed, Point
<1> QED
  BY <1>4, <1>5 DEF Halves

LEMMA NoPointBeforeItself ==
  ASSUME NEW point \in Point
  PROVE  ~IsBefore(point, point)
<1>1. point.year \in Nat /\ point.month \in 1..12
  BY ScopeConstants DEF Point
<1>2. \A y \in Nat, m \in 1..12 : ~(y * 12 + m < y * 12 + m)
  OBVIOUS
<1> QED
  BY <1>1, <1>2 DEF IsBefore

(* What moving either end leaves.                                           *)
LEMMA EndsMoved ==
  ASSUME NEW s \in Periods, NEW point \in Point \cup {Everybody}
  PROVE  /\ IsPeriod(SetFrom(s, point)) /\ SetFrom(s, point).trader = s.trader
         /\ IsPeriod(SetTo(s, point)) /\ SetTo(s, point).trader = s.trader
<1>1. /\ s = [trader |-> s.trader, from |-> s.from, to |-> s.to]
      /\ \/ s.from = Everybody /\ s.to = Everybody
         \/ s.from \in Point /\ s.to \in Point /\ ~IsBefore(s.to, s.from)
  BY PeriodShape
<1> DEFINE end == IF point = Everybody THEN Everybody
                  ELSE IF s.to = Everybody \/ IsBefore(s.to, point) THEN point ELSE s.to
           start == IF point = Everybody THEN Everybody
                    ELSE IF s.from = Everybody \/ IsBefore(point, s.from) THEN point ELSE s.from
<1>2. SetFrom(s, point) = [trader |-> s.trader, from |-> point, to |-> end]
  <2>1. SetFrom(s, point) = [s EXCEPT !.from = point, !.to = end]
    BY <1>1 DEF SetFrom
  <2> HIDE DEF end
  <2> QED
    BY <1>1, <2>1
<1>3. SetTo(s, point) = [trader |-> s.trader, from |-> start, to |-> point]
  <2>1. SetTo(s, point) = [s EXCEPT !.to = point, !.from = start]
    BY <1>1 DEF SetTo
  <2> HIDE DEF start
  <2> QED
    BY <1>1, <2>1
<1>4. \/ point = Everybody /\ end = Everybody
      \/ point \in Point /\ end \in Point /\ ~IsBefore(end, point)
  BY <1>1, NoPointBeforeItself
<1>5. \/ point = Everybody /\ start = Everybody
      \/ point \in Point /\ start \in Point /\ ~IsBefore(point, start)
  BY <1>1, NoPointBeforeItself
<1> HIDE DEF end, start
<1> QED
  BY <1>2, <1>3, <1>4, <1>5 DEF IsPeriod

(* ScopeProvider: whatever is clicked in whatever order, the bar holds a    *)
(* period or none.                                                          *)
LEMMA ClicksLeavePeriods == ScopeInv => EveryClickLeavesAPeriod
<1> SUFFICES ASSUME ScopeInv, NEW s \in Periods, NEW c \in Clicked(s)
             PROVE  IsPeriod(c) /\ c.trader \in Traders \cup {Everybody}
  BY DEF EveryClickLeavesAPeriod
<1>1. /\ s = [trader |-> s.trader, from |-> s.from, to |-> s.to]
      /\ s.trader \in Traders \cup {Everybody}
      /\ s.from \in Point \cup {Everybody} /\ s.to \in Point \cup {Everybody}
      /\ IsPeriod(s)
  BY PeriodShape DEF IsPeriod
<1>2. {1, 12} \subseteq Months
  BY ScopeConstants
<1>3. ASSUME NEW t \in Traders \cup {Everybody}
      PROVE  /\ IsPeriod(SetTraderId(s, t)) /\ SetTraderId(s, t).trader = t
             /\ SetTraderId(s, t) = [trader |-> t, from |-> s.from, to |-> s.to]
  <2>1. SetTraderId(s, t) = [trader |-> t, from |-> s.from, to |-> s.to]
    BY <1>1 DEF SetTraderId
  <2> QED
    BY <1>1, <2>1 DEF IsPeriod
<1>4. ASSUME NEW half \in Halves, c = StartFrom(s, half)
      PROVE  IsPeriod(c) /\ c.trader \in Traders \cup {Everybody}
  <2>1. Completed(s.from, half, 1) \in Point
    BY <1>1, <1>2, CompletedIsAPoint
  <2> QED
    BY <1>1, <1>4, <2>1, EndsMoved DEF StartFrom
<1>5. ASSUME NEW half \in Halves, c = EndAt(s, half)
      PROVE  IsPeriod(c) /\ c.trader \in Traders \cup {Everybody}
  <2>1. Completed(s.to, half, 12) \in Point
    BY <1>1, <1>2, CompletedIsAPoint
  <2> QED
    BY <1>1, <1>5, <2>1, EndsMoved DEF EndAt
<1>6. CASE c \in {SetFrom(s, Everybody), SetTo(s, Everybody)}
  BY <1>1, <1>6, EndsMoved
<1>7. CASE c = ShowEverything(s)
  <2> DEFINE u == [trader |-> Everybody, from |-> s.from, to |-> s.to]
  <2>1. c = SetFrom(u, Everybody)
    BY <1>3, <1>7 DEF ShowEverything
  <2>2. c = [trader |-> Everybody, from |-> Everybody, to |-> Everybody]
    BY <2>1 DEF SetFrom
  <2> QED
    BY <2>2 DEF IsPeriod
<1> QED
  BY <1>3, <1>4, <1>5, <1>6, <1>7 DEF Clicked

-----------------------------------------------------------------------------
(* What is asked, and what is shown *)

(* The range a period is asked for, or none. *)
RangeAsked(s) ==
  IF s.from = Everybody THEN Everybody
  ELSE [from |-> Day(s.from.year, s.from.month, 1),
        to |-> Day(s.to.year, s.to.month, LastDay(s.to.year, s.to.month))]

LEMMA DaysAreNumbers ==
  ASSUME NEW point \in Point
  PROVE  /\ Day(point.year, point.month, 1) \in Int
         /\ Day(point.year, point.month, LastDay(point.year, point.month)) \in Int
<1>1. point.year \in Nat /\ point.month \in 1..12
  BY ScopeConstants DEF Point
<1>2. \A y \in Nat, m \in 1..12, d \in 1..31 : Day(y, m, d) \in Int
  BY DEF Day
<1>3. PICK e \in 28..31 : e = LastDay(point.year, point.month)
  BY <1>1, LastDays
<1>4. 1 \in 1..31 /\ e \in 1..31
  OBVIOUS
<1> QED
  BY <1>1, <1>2, <1>3, <1>4

LEMMA PeriodIsAsked ==
  ASSUME NEW s \in Periods
  PROVE  /\ BothOrNeither(Filter(s))
         /\ Asked(s) = [trader |-> s.trader, range |-> RangeAsked(s)]
         /\ s.from # Everybody => RangeAsked(s) # Everybody
<1>1. \/ s.from = Everybody /\ s.to = Everybody
      \/ s.from \in Point /\ s.to \in Point /\ ~IsBefore(s.to, s.from)
  BY PeriodShape
<1>2. CASE s.from = Everybody /\ s.to = Everybody
  <2>1. Filter(s) = [trader |-> s.trader, from |-> Everybody, to |-> Everybody]
    BY <1>2 DEF Filter, PeriodRange
  <2> QED
    BY <1>2, <2>1 DEF BothOrNeither, Asked, ScopeOf, RangeAsked
<1>3. CASE s.from \in Point /\ s.to \in Point /\ ~IsBefore(s.to, s.from)
  <2> DEFINE first == Day(s.from.year, s.from.month, 1)
             last == Day(s.to.year, s.to.month, LastDay(s.to.year, s.to.month))
  <2>1. s.from # Everybody /\ s.to # Everybody
    BY <1>3, PointIsNotEverybody
  <2>2. PeriodRange(s.from, s.to) = [from |-> first, to |-> last]
    BY <1>3, <2>1 DEF PeriodRange
  <2>3. RangeAsked(s) = [from |-> first, to |-> last]
    BY <2>1 DEF RangeAsked
  <2>4. first \in Int /\ last \in Int
    BY <1>3, DaysAreNumbers
  <2> HIDE DEF first, last
  <2>5. Filter(s) = [trader |-> s.trader, from |-> first, to |-> last]
    BY <2>2 DEF Filter
  <2>6. first # Everybody /\ last # Everybody
    BY <2>4, EverybodyIsNoChoice
  <2>7. [from |-> first, to |-> last] \in [from : Int, to : Int]
    BY <2>4
  <2>8. RangeAsked(s) # Everybody
    BY <2>3, <2>7, EverybodyIsNoChoice
  <2> QED
    BY <2>3, <2>5, <2>6, <2>8 DEF BothOrNeither, Asked, ScopeOf
<1> QED
  BY <1>1, <1>2, <1>3

LEMMA AboutFields ==
  ASSUME ScopeInv, NEW p \in payouts
  PROVE  /\ about[p].trader \in Traders /\ about[p].company \in Companies
         /\ about[p].date \in Date /\ about[p].date.year \in YearsInUse
         /\ about[p].trader # Everybody
<1>1. about[p] \in Drafts
  BY DEF ScopeInv
<1>2. about[p] \in [trader : Traders, company : Companies, date : Date]
  BY <1>1, ScopeConstants
<1>3. about[p].date.year \in YearsInUse
  BY <1>1 DEF YearsInUse
<1> QED
  BY <1>2, <1>3, EverybodyIsNoChoice

(* The rows a read takes are those of the trader, in the months of the      *)
(* period.                                                                  *)
LEMMA ScopeIsWhatIsChosen ==
  ASSUME ScopeInv, NEW s \in Periods
  PROVE  PayoutsInScope(Asked(s)) = {p \in payouts : IsChosen(s, p)}
<1>1. Asked(s) = [trader |-> s.trader, range |-> RangeAsked(s)]
  BY PeriodIsAsked
<1>2. Asked(s).trader = s.trader /\ Asked(s).range = RangeAsked(s)
  BY <1>1
<1>3. CASE s.from = Everybody
  <2>1. RangeAsked(s) = Everybody
    BY <1>3 DEF RangeAsked
  <2>2. \A p \in payouts : IsChosen(s, p) <=> s.trader \in {Everybody, about[p].trader}
    BY <1>3 DEF IsChosen
  <2>3. CASE s.trader = Everybody
    BY <1>2, <2>1, <2>2, <2>3 DEF PayoutsInScope
  <2>4. CASE s.trader # Everybody
    <3>1. PayoutsInScope(Asked(s)) = ListByTrader(s.trader)
      BY <1>2, <2>1, <2>4 DEF PayoutsInScope
    <3> QED
      BY <2>2, <2>4, <3>1 DEF ListByTrader
  <2> QED
    BY <2>3, <2>4
<1>4. CASE s.from # Everybody
  <2>1. RangeAsked(s) # Everybody
    BY <1>4, PeriodIsAsked
  <2>2. s.from \in Point /\ s.to \in Point
    BY <1>4, PeriodShape
  <2>3. /\ RangeAsked(s).from = Day(s.from.year, s.from.month, 1)
        /\ RangeAsked(s).to = Day(s.to.year, s.to.month, LastDay(s.to.year, s.to.month))
    BY <1>4 DEF RangeAsked
  <2>4. ASSUME NEW p \in payouts
        PROVE  RangeAsked(s).from <= DayOf(about[p].date) /\ DayOf(about[p].date) <= RangeAsked(s).to
                 <=> ~(IsBefore(about[p].date, s.from) \/ IsBefore(s.to, about[p].date))
    BY <2>2, <2>3, AboutFields, DaysOfMonths
  <2>5. ListByDateRange(RangeAsked(s))
          = {p \in payouts : ~(IsBefore(about[p].date, s.from) \/ IsBefore(s.to, about[p].date))}
    BY <2>4 DEF ListByDateRange
  <2>6. CASE s.trader = Everybody
    <3>1. PayoutsInScope(Asked(s)) = ListByDateRange(RangeAsked(s))
      BY <1>2, <2>1, <2>6 DEF PayoutsInScope
    <3> QED
      BY <1>4, <2>5, <2>6, <3>1 DEF IsChosen
  <2>7. CASE s.trader # Everybody
    <3>1. PayoutsInScope(Asked(s))
            = {p \in ListByDateRange(RangeAsked(s)) : about[p].trader = s.trader}
      BY <1>2, <2>1, <2>7 DEF PayoutsInScope
    <3> QED
      BY <1>4, <2>5, <2>7, <3>1 DEF IsChosen
  <2> QED
    BY <2>6, <2>7
<1> QED
  BY <1>3, <1>4

(* payout-scope.ts: the list, the balances beside it and the sweep take the *)
(* same payouts and the same legs, and they are the ones selected.          *)
LEMMA ChosenIsShown == ScopeInv => WhatIsChosenIsShown
<1> SUFFICES ASSUME ScopeInv, NEW s \in Periods
             PROVE  LET chosen == {p \in payouts : IsChosen(s, p)}
                        legs == {l \in DOMAIN tree : tree[l].payout \in chosen}
                    IN /\ BothOrNeither(Filter(s))
                       /\ ListPayouts(Asked(s), Everybody) = chosen
                       /\ SweptPayouts(Asked(s)) = chosen
                       /\ SweptLegs(Asked(s)) = legs
                       /\ BalancedLegs(Asked(s)) = legs
                       /\ \A c \in Companies :
                            ListPayouts(Asked(s), c) = {p \in chosen : about[p].company = c}
  BY DEF WhatIsChosenIsShown
<1> DEFINE chosen == {p \in payouts : IsChosen(s, p)}
           legs == {l \in DOMAIN tree : tree[l].payout \in chosen}
<1>1. BothOrNeither(Filter(s))
  BY PeriodIsAsked
<1>2. PayoutsInScope(Asked(s)) = chosen
  BY ScopeIsWhatIsChosen
<1>3. ~IsNarrowed(Asked(s)) => chosen = payouts
  <2>1. ~IsNarrowed(Asked(s)) => PayoutsInScope(Asked(s)) = payouts
    BY DEF IsNarrowed, PayoutsInScope
  <2> QED
    BY <1>2, <2>1
<1>4. \A l \in DOMAIN tree : tree[l].payout \in payouts
  BY DEF ScopeInv
<1> HIDE DEF chosen
<1>5. ListPayouts(Asked(s), Everybody) = chosen
  BY <1>2 DEF ListPayouts
<1>6. SweptPayouts(Asked(s)) = chosen
  BY <1>2 DEF SweptPayouts
<1>7. SweptLegs(Asked(s)) = legs
  BY <1>3, <1>4, <1>6 DEF SweptLegs
<1>8. BalancedLegs(Asked(s)) = legs
  BY <1>2, <1>3, <1>4 DEF BalancedLegs
<1>9. ASSUME NEW c \in Companies
      PROVE  ListPayouts(Asked(s), c) = {p \in chosen : about[p].company = c}
  <2>1. c # Everybody
    BY EverybodyIsNoChoice
  <2> QED
    BY <1>2, <1>3, <2>1 DEF ListPayouts, ListByCompany
<1> QED
  BY <1>1, <1>5, <1>6, <1>7, <1>8, <1>9 DEF chosen

(* Whatever is clicked, a selection is one that can be asked about, every   *)
(* screen answers it with the same payouts and legs, and the trail of each  *)
(* of them shows every leg once: for all dates, leap years included.        *)
THEOREM EveryReadAgrees == ScopeSpec => []ReadsAgree
<1>1. ScopeInv => ReadsAgree
  BY ClicksLeavePeriods, ChosenIsShown, TrailIsWhole DEF ReadsAgree
<1> QED
  BY <1>1, AlwaysScopeInv, PTL

-----------------------------------------------------------------------------
(* Financial years *)

(* The year whose first of April opens the financial year of a day. *)
Opens(d) == IF d.month >= 4 THEN d.year ELSE d.year - 1

LEMMA FirstOfApril ==
  ASSUME NEW d, d.year \in Nat, d.month \in 1..12, d.day \in 1..31, NEW y \in Int
  PROVE  /\ Opens(d) \in Int
         /\ DayOf(d) >= Day(y, 4, 1) <=> Opens(d) >= y
         /\ Day(y, 4, 1) <= DayOf(d) <=> y <= Opens(d)
         /\ DayOf(d) <= Day(y + 1, 3, 31) <=> Opens(d) <= y
<1>1. \A a \in Nat, m \in 1..12, e \in 1..31 :
        LET f == IF m >= 4 THEN a ELSE a - 1
            n == (a * 100 + m) * 100 + e
        IN /\ f \in Int
           /\ n >= (y * 100 + 4) * 100 + 1 <=> f >= y
           /\ (y * 100 + 4) * 100 + 1 <= n <=> y <= f
           /\ n <= ((y + 1) * 100 + 3) * 100 + 31 <=> f <= y
  OBVIOUS
<1>2. PICK a \in Nat, m \in 1..12, e \in 1..31 : d.year = a /\ d.month = m /\ d.day = e
  OBVIOUS
<1>3. Opens(d) = IF m >= 4 THEN a ELSE a - 1
  BY <1>2 DEF Opens
<1>4. DayOf(d) = (a * 100 + m) * 100 + e
  BY <1>2 DEF DayOf, Day
<1>5. /\ Day(y, 4, 1) = (y * 100 + 4) * 100 + 1
      /\ Day(y + 1, 3, 31) = ((y + 1) * 100 + 3) * 100 + 31
  BY DEF Day
<1> QED
  BY <1>1, <1>3, <1>4, <1>5

(* No first of April lies between two days that open in the same year, and  *)
(* one does otherwise.                                                      *)
LEMMA SameYearOpens ==
  ASSUME NEW d, d.year \in Nat, d.month \in 1..12, d.day \in 1..31, Opens(d) \in Years,
         NEW e, e.year \in Nat, e.month \in 1..12, e.day \in 1..31, Opens(e) \in Years
  PROVE  SameFinancialYear(d, e) <=> Opens(d) = Opens(e)
<1>1. \A y \in Years : y \in Int
  BY ScopeConstants
<1>2. \A y \in Years : /\ DayOf(d) >= Day(y, 4, 1) <=> Opens(d) >= y
                       /\ DayOf(e) >= Day(y, 4, 1) <=> Opens(e) >= y
  BY <1>1, FirstOfApril
<1>3. SameFinancialYear(d, e) <=> \A y \in Years : Opens(d) >= y <=> Opens(e) >= y
  BY <1>2 DEF SameFinancialYear
<1> QED
  BY <1>1, <1>3

LEMMA DatesOpenInYears ==
  ASSUME NEW d \in Date, d.year \in YearsInUse
  PROVE  /\ d.year \in Nat /\ d.month \in 1..12 /\ d.day \in 1..31
         /\ Opens(d) \in Years /\ Opens(d) \in Int
<1>1. d.year \in Years /\ d.year - 1 \in Years
  BY ScopeConstants
<1>2. Opens(d) \in Years
  BY <1>1 DEF Opens
<1>3. \A y \in Years : y \in Int
  BY ScopeConstants
<1> QED
  BY <1>2, <1>3, DateFields

(* ScopeBar: the period from the first of April of a payout's financial     *)
(* year to its end, or to the end of the last year offered, shows exactly   *)
(* the payouts of that financial year.                                      *)
LEMMA YearsCanBeChosen == ScopeInv => EveryFinancialYearCanBeChosen
<1> SUFFICES ASSUME ScopeInv, NEW p \in payouts
             PROVE  \E s \in Periods :
               /\ s.trader = Everybody /\ s.from # Everybody
               /\ s.from.year \in YearsToOffer /\ s.to.year \in YearsToOffer
               /\ s.from.month = 4
               /\ SameFinancialYear([year |-> s.from.year, month |-> 4, day |-> 1], about[p].date)
               /\ ListPayouts(Asked(s), Everybody)
                    = {q \in payouts : SameFinancialYear(about[q].date, about[p].date)}
  BY DEF EveryFinancialYearCanBeChosen
<1>1. PICK lo, hi \in Nat :
        /\ YearsToOffer = (lo - 1)..hi /\ YearsToOffer \subseteq Years
        /\ lo - 1 \in Nat /\ lo <= hi
        /\ \A q \in payouts : lo <= about[q].date.year /\ about[q].date.year <= hi
  BY YearsOffered
<1>2. \A q \in payouts :
        LET d == about[q].date
        IN /\ d.year \in Nat /\ d.month \in 1..12 /\ d.day \in 1..31
           /\ Opens(d) \in Years /\ Opens(d) \in Int
  BY AboutFields, DatesOpenInYears
<1>3. PICK f \in Int : f = Opens(about[p].date)
  BY <1>2
<1>4. lo - 1 <= f /\ f <= hi
  BY <1>1, <1>2, <1>3 DEF Opens
<1>5. f \in YearsToOffer /\ f \in Years /\ f \in Nat
  BY <1>1, <1>4
<1> DEFINE from == [year |-> f, month |-> 4]
           to == IF f + 1 <= hi THEN [year |-> f + 1, month |-> 3] ELSE [year |-> f, month |-> 12]
           s == [trader |-> Everybody, from |-> from, to |-> to]
<1>6. to.year \in YearsToOffer /\ to.year \in Nat /\ to.month \in {3, 12}
  BY <1>1, <1>4, <1>5
<1>7. from \in Point /\ to \in Point
  <2>1. {3, 4, 12} \subseteq Months
    BY ScopeConstants
  <2> QED
    BY <1>1, <1>5, <1>6, <2>1 DEF Point
<1>8. ~IsBefore(to, from)
  <2>1. from.year * 12 + from.month = f * 12 + 4
    OBVIOUS
  <2>2. to.year * 12 + to.month \in {f * 12 + 15, f * 12 + 12}
    OBVIOUS
  <2>3. ~(f * 12 + 15 < f * 12 + 4) /\ ~(f * 12 + 12 < f * 12 + 4)
    OBVIOUS
  <2> QED
    BY <2>1, <2>2, <2>3 DEF IsBefore
<1>9. \A q \in payouts :
        ~(IsBefore(about[q].date, from) \/ IsBefore(to, about[q].date))
          <=> Opens(about[q].date) = f
  <2> TAKE q \in payouts
  <2>1. PICK a \in Nat, m \in 1..12 : about[q].date.year = a /\ about[q].date.month = m
    BY <1>2
  <2>2. Opens(about[q].date) = IF m >= 4 THEN a ELSE a - 1
    BY <2>1 DEF Opens
  <2>3. a <= hi
    BY <1>1, <2>1
  <2>4. IsBefore(about[q].date, from) <=> a * 12 + m < f * 12 + 4
    BY <2>1 DEF IsBefore
  <2>5. CASE f + 1 <= hi
    <3>1. IsBefore(to, about[q].date) <=> (f + 1) * 12 + 3 < a * 12 + m
      BY <2>1, <2>5 DEF IsBefore
    <3> HIDE DEF from, to
    <3> QED
      BY <2>2, <2>4, <3>1
  <2>6. CASE ~(f + 1 <= hi)
    <3>1. IsBefore(to, about[q].date) <=> f * 12 + 12 < a * 12 + m
      BY <2>1, <2>6 DEF IsBefore
    <3>2. a <= f
      BY <2>3, <2>6
    <3> HIDE DEF from, to
    <3> QED
      BY <2>2, <2>4, <3>1, <3>2
  <2> QED
    BY <2>5, <2>6
<1>10. from.year = f /\ from.month = 4 /\ from # Everybody
  BY <1>7, PointIsNotEverybody
<1> HIDE DEF from, to
<1>11. s \in Periods
  <2>1. s \in Selections
    BY <1>7 DEF Selections
  <2>2. IsPeriod(s)
    BY <1>7, <1>8 DEF IsPeriod
  <2> QED
    BY <2>1, <2>2 DEF Periods
<1>12. \A q \in payouts : IsChosen(s, q) <=> Opens(about[q].date) = f
  BY <1>9, <1>10 DEF IsChosen
<1>13. \A q \in payouts :
         SameFinancialYear(about[q].date, about[p].date) <=> Opens(about[q].date) = f
  <2> TAKE q \in payouts
  <2> QED
    BY <1>2, <1>3, SameYearOpens
<1>14. SameFinancialYear([year |-> f, month |-> 4, day |-> 1], about[p].date)
  <2> DEFINE one == [year |-> f, month |-> 4, day |-> 1]
  <2>1. one.year \in Nat /\ one.month \in 1..12 /\ one.day \in 1..31 /\ Opens(one) = f
    BY <1>5 DEF Opens
  <2> HIDE DEF one
  <2>2. SameFinancialYear(one, about[p].date)
    BY <1>2, <1>3, <1>5, <2>1, SameYearOpens
  <2> QED
    BY <2>2 DEF one
<1> HIDE DEF s
<1>15. ListPayouts(Asked(s), Everybody)
         = {q \in payouts : SameFinancialYear(about[q].date, about[p].date)}
  <2>1. ListPayouts(Asked(s), Everybody) = {q \in payouts : IsChosen(s, q)}
    BY <1>11, ScopeIsWhatIsChosen DEF ListPayouts
  <2> QED
    BY <1>12, <1>13, <2>1
<1>16. s.trader = Everybody /\ s.from = from /\ s.to = to
  BY DEF s
<1> QED
  BY <1>5, <1>6, <1>10, <1>11, <1>14, <1>15, <1>16

(* FinancialYearReport: six consecutive years, each from its first of April *)
(* to the next 31 March, so a day is in one of them.                        *)
LEMMA PayoutsAreReportedOnce == ScopeInv => EveryPayoutIsReportedOnce
<1> SUFFICES ASSUME ScopeInv, NEW today \in Todays, NEW p \in payouts,
                    FinancialYears(today)[6].from <= DayOf(about[p].date),
                    DayOf(about[p].date) <= DayOf(today)
             PROVE  LET offered == FinancialYears(today)
                        Reporting(t) ==
                          {i \in DOMAIN offered :
                             \E c \in DOMAIN ByCompany(offered[i], t) :
                               p \in ByCompany(offered[i], t)[c]}
                    IN /\ \A t \in {Everybody, about[p].trader} :
                            \E i \in DOMAIN offered :
                              /\ Reporting(t) = {i}
                              /\ i = 1 <=> SameFinancialYear(about[p].date, today)
                              /\ p \in ByCompany(offered[i], t)[about[p].company]
                       /\ \A t \in Traders \ {about[p].trader} : Reporting(t) = {}
  BY DEF EveryPayoutIsReportedOnce
<1> DEFINE offered == FinancialYears(today)
           Reporting(t) ==
             {i \in DOMAIN offered :
                \E c \in DOMAIN ByCompany(offered[i], t) : p \in ByCompany(offered[i], t)[c]}
<1>1. today \in Date /\ today.year \in YearsInUse
  BY ScopeConstants DEF YearsInUse
<1>2. /\ today.year \in Nat /\ today.month \in 1..12 /\ today.day \in 1..31
      /\ Opens(today) \in Years /\ Opens(today) \in Int
  BY <1>1, DatesOpenInYears
<1> DEFINE d == about[p].date
<1>3. /\ d.year \in Nat /\ d.month \in 1..12 /\ d.day \in 1..31
      /\ Opens(d) \in Years /\ Opens(d) \in Int
  BY AboutFields, DatesOpenInYears
<1>4. PICK start \in Int : start = Opens(today)
  BY <1>2
<1>5. PICK f \in Int : f = Opens(d)
  BY <1>3
<1>6. offered = [i \in 1..6 |-> [from |-> Day(start - i + 1, 4, 1), to |-> Day(start - i + 2, 3, 31)]]
  BY <1>4 DEF FinancialYears, Opens
<1>7. DOMAIN offered = 1..6
  BY <1>6
<1>8. \A i \in 1..6 :
        /\ offered[i].from = Day(start - i + 1, 4, 1)
        /\ offered[i].to = Day((start - i + 1) + 1, 3, 31)
        /\ offered[i] # Everybody
  <2> TAKE i \in 1..6
  <2>1. offered[i] = [from |-> Day(start - i + 1, 4, 1), to |-> Day(start - i + 2, 3, 31)]
    BY <1>6
  <2>2. start - i + 2 = (start - i + 1) + 1 /\ start - i + 1 \in Int /\ start - i + 2 \in Int
    OBVIOUS
  <2>3. \A y \in Int : Day(y, 4, 1) \in Int /\ Day(y, 3, 31) \in Int
    BY DEF Day
  <2>4. offered[i] \in [from : Int, to : Int]
    BY <2>1, <2>2, <2>3
  <2> QED
    BY <2>1, <2>2, <2>4, EverybodyIsNoChoice
<1>9. start - 5 <= f /\ f <= start
  <2>1. start - 6 + 1 \in Int /\ start - 6 + 1 = start - 5 /\ 6 \in 1..6
    OBVIOUS
  <2>2. Day(start - 6 + 1, 4, 1) <= DayOf(d)
    BY <1>8, <2>1
  <2>3. start - 6 + 1 <= Opens(d)
    BY <1>3, <2>1, <2>2, FirstOfApril
  <2>4. Day(f, 4, 1) <= DayOf(d)
    BY <1>3, <1>5, FirstOfApril
  <2>5. DayOf(d) \in Int /\ DayOf(today) \in Int /\ Day(f, 4, 1) \in Int
    <3>1. \A y \in Int, m \in 1..12, e \in 1..31 : Day(y, m, e) \in Int
      BY DEF Day
    <3>2. 4 \in 1..12 /\ 1 \in 1..31 /\ d.year \in Int /\ today.year \in Int
      BY <1>2, <1>3
    <3> QED
      BY <1>2, <1>3, <3>1, <3>2 DEF DayOf
  <2>6. Day(f, 4, 1) <= DayOf(today)
    BY <2>4, <2>5
  <2>7. f <= Opens(today)
    BY <1>2, <2>6, FirstOfApril
  <2> QED
    BY <1>4, <1>5, <2>1, <2>3, <2>7
<1> HIDE DEF offered
<1>10. \A i \in 1..6 : p \in ListByDateRange(offered[i]) <=> i = start - f + 1
  <2> TAKE i \in 1..6
  <2>1. p \in ListByDateRange(offered[i])
          <=> offered[i].from <= DayOf(d) /\ DayOf(d) <= offered[i].to
    BY DEF ListByDateRange
  <2>2. start - i + 1 \in Int
    OBVIOUS
  <2>3. p \in ListByDateRange(offered[i])
          <=> start - i + 1 <= Opens(d) /\ Opens(d) <= start - i + 1
    BY <1>3, <1>8, <2>1, <2>2, FirstOfApril
  <2> QED
    BY <1>5, <2>3
<1> HIDE DEF d
<1>11. ASSUME NEW t, NEW i \in 1..6
       PROVE  LET rows == PayoutsInScope([trader |-> t, range |-> offered[i]])
              IN /\ i \in Reporting(t) <=> p \in rows
                 /\ p \in rows => p \in ByCompany(offered[i], t)[about[p].company]
                 /\ p \in rows <=> i = start - f + 1 /\ t \in {Everybody, about[p].trader}
  <2> DEFINE scope == [trader |-> t, range |-> offered[i]]
             rows == PayoutsInScope(scope)
  <2>1. p \in rows <=> p \in ListByDateRange(offered[i]) /\ t \in {Everybody, about[p].trader}
    <3>1. scope.trader = t /\ scope.range = offered[i] /\ offered[i] # Everybody
      BY <1>8
    <3>2. CASE t = Everybody
      <4>1. rows = ListByDateRange(offered[i])
        BY <3>1, <3>2 DEF PayoutsInScope
      <4> QED
        BY <3>2, <4>1
    <3>3. CASE t # Everybody
      <4>1. rows = {q \in ListByDateRange(offered[i]) : about[q].trader = t}
        BY <3>1, <3>3 DEF PayoutsInScope
      <4> QED
        BY <3>3, <4>1
    <3> QED
      BY <3>2, <3>3
  <2> HIDE DEF rows
  <2>2. ByCompany(offered[i], t)
          = [c \in {about[q].company : q \in rows} |-> {q \in rows : about[q].company = c}]
    BY DEF ByCompany, rows
  <2>3. i \in Reporting(t) <=> p \in rows
    BY <1>7, <2>2
  <2>4. p \in rows => p \in ByCompany(offered[i], t)[about[p].company]
    BY <2>2
  <2> QED
    BY <1>10, <2>1, <2>3, <2>4 DEF rows
<1>12. \A t : Reporting(t) \subseteq 1..6
  BY <1>7
<1>13. PICK k \in 1..6 : k = start - f + 1
  BY <1>9
<1>14. k = 1 <=> SameFinancialYear(about[p].date, today)
  <2>1. SameFinancialYear(d, today) <=> Opens(d) = Opens(today)
    BY <1>2, <1>3, SameYearOpens
  <2> QED
    BY <1>4, <1>5, <1>13, <2>1 DEF d
<1> HIDE DEF Reporting
<1>15. ASSUME NEW t \in {Everybody, about[p].trader}
       PROVE  Reporting(t) = {k} /\ p \in ByCompany(offered[k], t)[about[p].company]
  <2>1. \A i \in 1..6 : i \in Reporting(t) <=> i = k
    BY <1>11, <1>13, <1>15
  <2>2. Reporting(t) = {k}
    BY <1>12, <2>1
  <2> QED
    BY <1>11, <1>13, <1>15, <2>2
<1>16. ASSUME NEW t \in Traders \ {about[p].trader}
       PROVE  Reporting(t) = {}
  <2>1. t \notin {Everybody, about[p].trader}
    BY EverybodyIsNoChoice
  <2> QED
    BY <1>11, <1>12, <2>1
<1> QED
  BY <1>7, <1>14, <1>15, <1>16 DEF offered, Reporting

(* No payout falls between two financial years, whatever the year of the    *)
(* clock, the drafts and the days on which the report is opened.            *)
THEOREM NoPayoutBetweenYears == ScopeSpec => []YearsAreCovered
<1>1. ScopeInv => YearsAreCovered
  BY YearsCanBeChosen, PayoutsAreReportedOnce DEF YearsAreCovered
<1> QED
  BY <1>1, AlwaysScopeInv, PTL
=============================================================================

---------------------------- MODULE LedgerProofs ----------------------------
(***************************************************************************)
(* Proofs about the two programs that write the ledger's rows, for every   *)
(* value of their constants: the server (Ledger) and the importer of the   *)
(* legacy sheet (LegacyImport).                                            *)
(*                                                                         *)
(* Of the server none of the invariants is inductive alone.  The forest    *)
(* needs the types (an id is never NoLeg); the references need the forest, *)
(* because a delete takes a payout's legs and must not leave a child of    *)
(* one behind; and the counts need both.  IInv is their conjunction.       *)
(*                                                                         *)
(* Of the importer, that its last run leaves the whole sheet says nothing  *)
(* of the runs before it.  ImportInv does: nothing but what the sheet says *)
(* is ever on file (Faithful), and all a run has done so far is (Progress),*)
(* until the owner changes something; and the leg a run has met is the one *)
(* on file or the owner's (LegFound), so that its fees are in the sheet's  *)
(* currency.                                                               *)
(***************************************************************************)
EXTENDS Ledger, LegacyImport, SequenceTheorems,TLAPS

-----------------------------------------------------------------------------
(* What the operators of Forest preserve, for every table of legs *)

(* A subtree holds its root and is closed under children: the recursive CTE *)
(* and the breadth-first walk stop only when no child is left out.          *)
LEMMA SubtreeIsClosed ==
  ASSUME NEW t, NEW l \in DOMAIN t
  PROVE  /\ l \in Subtree(t, l)
         /\ Subtree(t, l) \subseteq DOMAIN t
         /\ IsClosed(t, Subtree(t, l))
  <1>1. l \in Subtree(t, l) /\ Subtree(t, l) \subseteq DOMAIN t
    BY DEF Subtree
  <1>2. ASSUME NEW m \in DOMAIN t, t[m].parent \in Subtree(t, l)
        PROVE  m \in Subtree(t, l)
    <2>1. ASSUME NEW S \in SUBSET DOMAIN t, l \in S, IsClosed(t, S)
          PROVE  m \in S
      <3>1. t[m].parent \in S
        BY <1>2, <2>1 DEF Subtree
      <3>2. QED
        BY <2>1, <3>1 DEF IsClosed
    <2>2. QED
      BY <2>1 DEF Subtree
  <1>3. QED
    BY <1>1, <1>2 DEF IsClosed

(* Any closed set that holds the root holds the whole subtree.              *)
LEMMA SubtreeIsLeast ==
  ASSUME NEW t, NEW l \in DOMAIN t, NEW S \in SUBSET DOMAIN t,
         l \in S, IsClosed(t, S)
  PROVE  Subtree(t, l) \subseteq S
  BY DEF Subtree

(* In a forest a subtree stays inside one payout, so deleting a leg never   *)
(* reaches the legs of another one.                                         *)
LEMMA SubtreeInOnePayout ==
  ASSUME NEW t, IsForest(t), 0 \notin DOMAIN t, NEW l \in DOMAIN t
  PROVE  Subtree(t, l) \subseteq LegsOfPayout(t, t[l].payout)
  <1> DEFINE S == LegsOfPayout(t, t[l].payout)
  <1>1. S \in SUBSET DOMAIN t /\ l \in S
    BY DEF LegsOfPayout
  <1>2. IsClosed(t, S)
    <2>1. ASSUME NEW m \in DOMAIN t, t[m].parent \in S
          PROVE  m \in S
      BY <2>1 DEF IsForest, ParentOK, LegsOfPayout, NoLeg
    <2>2. QED
      BY <2>1 DEF IsClosed
  <1>3. QED
    BY <1>1, <1>2, SubtreeIsLeast

(* The legs of one payout are closed too: the peel of a payout is never     *)
(* blocked by a leg of another one.                                         *)
LEMMA PayoutIsClosed ==
  ASSUME NEW t, IsForest(t), 0 \notin DOMAIN t, NEW p
  PROVE  IsClosed(t, LegsOfPayout(t, p))
  BY DEF IsForest, ParentOK, LegsOfPayout, NoLeg, IsClosed

(* Walking only the legs of the payout finds the same subtree as walking    *)
(* the whole table: what DeleteTransaction counts is what goes.             *)
LEMMA SubtreeWithinPayout ==
  ASSUME NEW t, IsForest(t), 0 \notin DOMAIN t, NEW l \in DOMAIN t
  PROVE  Subtree(Restrict(t, LegsOfPayout(t, t[l].payout)), l) = Subtree(t, l)
  <1> DEFINE L == LegsOfPayout(t, t[l].payout)
             u == Restrict(t, L)
             S == Subtree(t, l)
             T == Subtree(u, l)
  <1>1. L \subseteq DOMAIN t /\ l \in L /\ IsClosed(t, L)
    BY PayoutIsClosed DEF LegsOfPayout
  <1>2. DOMAIN u = L /\ \A m \in L : u[m] = t[m]
    BY DEF Restrict
  <1>3. S \subseteq L /\ l \in S /\ IsClosed(t, S)
    BY SubtreeIsClosed, SubtreeInOnePayout
  <1> HIDE DEF u, L, S
  <1>4. T \subseteq L /\ l \in T /\ IsClosed(u, T)
    BY <1>1, <1>2, SubtreeIsClosed
  <1>5. T \subseteq S
    <2>1. IsClosed(u, S)
      BY <1>1, <1>2, <1>3 DEF IsClosed
    <2>2. QED
      BY <1>1, <1>2, <1>3, <2>1, SubtreeIsLeast
  <1> HIDE DEF T
  <1>6. S \subseteq T
    <2>1. ASSUME NEW m \in DOMAIN t, t[m].parent \in T
          PROVE  m \in T
      <3>1. m \in L
        BY <1>1, <1>4, <2>1 DEF IsClosed
      <3>2. QED
        BY <1>2, <1>4, <2>1, <3>1 DEF IsClosed
    <2>2. IsClosed(t, T) /\ T \in SUBSET DOMAIN t
      BY <1>1, <1>4, <2>1 DEF IsClosed
    <2>3. QED
      BY <1>4, <2>2, SubtreeIsLeast DEF S
  <1>7. QED
    BY <1>5, <1>6 DEF L, u, S, T

(* Taking away a closed set of legs leaves a forest.                        *)
LEMMA WithoutClosedIsForest ==
  ASSUME NEW t, IsForest(t), NEW S, IsClosed(t, S)
  PROVE  /\ DOMAIN Without(t, S) = DOMAIN t \ S
         /\ \A m \in DOMAIN t \ S : Without(t, S)[m] = t[m]
         /\ IsForest(Without(t, S))
  <1>1. /\ DOMAIN Without(t, S) = DOMAIN t \ S
        /\ \A m \in DOMAIN t \ S : Without(t, S)[m] = t[m]
    BY DEF Without, Restrict
  <1>2. ASSUME NEW m \in DOMAIN t \ S
        PROVE  ParentOK(Without(t, S), m)
    BY <1>1, <1>2 DEF IsForest, ParentOK, IsClosed
  <1>3. QED
    BY <1>1, <1>2 DEF IsForest

(* A new leg under an existing leg of the same payout, or under none, keeps *)
(* the forest: the next row id is above every id present.                   *)
LEMMA WithRowIsForest ==
  ASSUME NEW t, IsForest(t), DOMAIN t \subseteq Nat, NEW l \in Nat, NEW row,
         IsNextRowId(l, DOMAIN t),
         row.parent = NoLeg \/ (row.parent \in DOMAIN t /\ t[row.parent].payout = row.payout)
  PROVE  /\ DOMAIN WithRow(t, l, row) = DOMAIN t \cup {l}
         /\ WithRow(t, l, row)[l] = row
         /\ \A m \in DOMAIN t : m # l /\ WithRow(t, l, row)[m] = t[m]
         /\ IsForest(WithRow(t, l, row))
  <1>1. \A m \in DOMAIN t : m < l
    BY DEF IsNextRowId
  <1>2. \A m \in DOMAIN t : m # l
    BY <1>1
  <1>3. QED
    BY <1>1, <1>2 DEF WithRow, IsForest, ParentOK

-----------------------------------------------------------------------------
IInv == TypeOK /\ LegsFormAForest /\ NoDanglingRows

LEMMA InitIInv == Init => IInv
  <1> SUFFICES ASSUME Init PROVE IInv
    OBVIOUS
  <1>1. <<>> \in FeeLists
    BY DEF FeeLists
  <1>2. TypeOK
    BY <1>1 DEF Init, TypeOK, NoRows, Idle
  <1>3. LegsFormAForest
    BY DEF Init, LegsFormAForest, IsForest, NoRows
  <1>4. NoDanglingRows
    BY DEF Init, NoDanglingRows, NoRows, IsIdle
  <1>5. QED
    BY <1>2, <1>3, <1>4 DEF IInv

(* A new leg: types, forest and references in one place, for UC2 and UC3.   *)
LEMMA InsertLegIInv ==
  ASSUME IInv, NEW l \in LegIds, NEW leg \in Leg, NEW todo \in FeeLists,
         InsertLeg(l, leg, todo)
  PROVE  IInv'
  <1> USE DEF LegIds, NoLeg
  <1>1. /\ DOMAIN legs \subseteq Nat /\ l \in Nat /\ l # 0
        /\ IsForest(legs)
        /\ IsNextRowId(l, DOMAIN legs)
        /\ leg.parent = NoLeg
           \/ (leg.parent \in DOMAIN legs /\ legs[leg.parent].payout = leg.payout)
    BY LedgerConstants DEF IInv, TypeOK, LegsFormAForest, InsertLeg, ParentAccepted
  <1>2. /\ DOMAIN legs' = DOMAIN legs \cup {l}
        /\ legs'[l] = leg
        /\ \A m \in DOMAIN legs : m # l /\ legs'[m] = legs[m]
        /\ IsForest(legs')
    <2> DEFINE grown == WithRow(legs, l, leg)
    <2>1. /\ DOMAIN grown = DOMAIN legs \cup {l}
          /\ grown[l] = leg
          /\ \A m \in DOMAIN legs : m # l /\ grown[m] = legs[m]
          /\ IsForest(grown)
      BY <1>1, WithRowIsForest
    <2> HIDE DEF grown
    <2>2. legs' = grown
      BY DEF InsertLeg, grown
    <2>3. QED
      BY <2>1, <2>2
  <1>3. writing' = Idle \/ (writing' = [leg |-> l, todo |-> todo] /\ todo # <<>>)
    BY DEF InsertLeg
  <1>4. <<>> \in FeeLists
    BY DEF FeeLists
  <1>5. legs' = [m \in DOMAIN legs' |-> legs'[m]]
    BY <1>2 DEF InsertLeg, WithRow
  <1>6. TypeOK'
    BY <1>2, <1>3, <1>4, <1>5 DEF IInv, TypeOK, InsertLeg, Idle
  <1>7. NoDanglingRows'
    BY <1>2, <1>3 DEF IInv, NoDanglingRows, InsertLeg, CanMove, IsIdle
  <1>8. QED
    BY <1>2, <1>6, <1>7 DEF IInv, LegsFormAForest

(* Deleting a set of legs closed under children, with its fees.             *)
LEMMA RemoveLegsIInv ==
  ASSUME IInv, IsIdle, NEW STATE S, S \subseteq DOMAIN legs, IsClosed(legs, S),
         legs' = Without(legs, S), fees' = FeesWithout(S),
         payouts' \subseteq payouts,
         \A l \in DOMAIN legs \ S : legs[l].payout \in payouts',
         UNCHANGED <<accounts, scheduled, writing>>
  PROVE  IInv'
  <1>1. /\ DOMAIN legs' = DOMAIN legs \ S
        /\ \A m \in DOMAIN legs' : legs'[m] = legs[m]
        /\ IsForest(legs')
    <2> DEFINE rest == Without(legs, S)
    <2>1. IsForest(legs)
      BY DEF IInv, LegsFormAForest
    <2>2. /\ DOMAIN rest = DOMAIN legs \ S
          /\ \A m \in DOMAIN legs \ S : rest[m] = legs[m]
          /\ IsForest(rest)
      BY <2>1, WithoutClosedIsForest
    <2> HIDE DEF rest
    <2>3. legs' = rest
      BY DEF rest
    <2>4. QED
      BY <2>2, <2>3
  <1>2. legs' = [m \in DOMAIN legs' |-> legs'[m]]
    BY DEF Without, Restrict
  <1>3. TypeOK'
    BY <1>1, <1>2 DEF IInv, TypeOK, FeesWithout
  <1>4. NoDanglingRows'
    BY <1>1 DEF IInv, TypeOK, NoDanglingRows, FeesWithout, IsIdle
  <1>5. QED
    BY <1>1, <1>3, <1>4 DEF IInv, LegsFormAForest

LEMMA NextIInv == IInv /\ [Next]_vars => IInv'
  <1> SUFFICES ASSUME IInv, [Next]_vars PROVE IInv'
    OBVIOUS
  <1>1. ASSUME NEW p \in PayoutIds, RecordPayout(p) PROVE IInv'
    BY <1>1 DEF RecordPayout, IInv, TypeOK, LegsFormAForest, NoDanglingRows, IsIdle
  <1>2. ASSUME NEW p \in PayoutIds, DeletePayout(p) PROVE IInv'
    <2> DEFINE own == LegsOfPayout(legs, p)
    <2>1. own \in SUBSET DOMAIN legs /\ IsClosed(legs, own)
      <3>1. 0 \notin DOMAIN legs
        BY DEF IInv, TypeOK, LegIds
      <3>2. QED
        BY <3>1, PayoutIsClosed DEF IInv, LegsFormAForest, LegsOfPayout
    <2>2. \A l \in DOMAIN legs \ own : legs[l].payout \in payouts'
      BY <1>2 DEF DeletePayout, IInv, NoDanglingRows, LegsOfPayout
    <2>3. QED
      BY <1>2, <2>1, <2>2, RemoveLegsIInv DEF DeletePayout
  <1>3. ASSUME NEW a \in AccountIds, NEW allowed \in AllowLists, RecordAccount(a, allowed)
        PROVE  IInv'
    <2>1. /\ DOMAIN accounts' = DOMAIN accounts \cup {a}
          /\ accounts' \in [DOMAIN accounts' -> SUBSET Currencies]
      BY <1>3, LedgerConstants DEF RecordAccount, WithRow, IInv, TypeOK
    <2>2. QED
      BY <1>3, <2>1 DEF RecordAccount, IInv, TypeOK, LegsFormAForest, NoDanglingRows, IsIdle
  <1>4. ASSUME NEW a \in AccountIds, NEW allowed \in AllowLists, EditAccount(a, allowed)
        PROVE  IInv'
    <2>1. /\ DOMAIN accounts' = DOMAIN accounts
          /\ accounts' \in [DOMAIN accounts' -> SUBSET Currencies]
      BY <1>4, LedgerConstants DEF EditAccount, IInv, TypeOK
    <2>2. QED
      BY <1>4, <2>1 DEF EditAccount, IInv, TypeOK, LegsFormAForest, NoDanglingRows, IsIdle
  <1>5. ASSUME NEW a \in AccountIds, DeleteAccount(a) PROVE IInv'
    <2>1. /\ DOMAIN accounts' = DOMAIN accounts \ {a}
          /\ accounts' \in [DOMAIN accounts' -> SUBSET Currencies]
      BY <1>5 DEF DeleteAccount, Without, Restrict, IInv, TypeOK
    <2>2. QED
      BY <1>5, <2>1
      DEF DeleteAccount, UsesAccount, IInv, TypeOK, LegsFormAForest, NoDanglingRows, IsIdle
  <1>6. ASSUME NEW a \in AccountIds, DeclareSchedule(a) PROVE IInv'
    BY <1>6 DEF DeclareSchedule, IInv, TypeOK, LegsFormAForest, NoDanglingRows, IsIdle
  <1>7. ASSUME NEW l \in LegIds, NEW leg \in Leg, NEW charge \in ChargeLists,
               RecordTransaction(l, leg, charge)
        PROVE  IInv'
    BY <1>7, InsertLegIInv, LedgerConstants DEF RecordTransaction
  <1>8. ASSUME NEW l \in LegIds, NEW leg \in Leg,
               NEW plan \in SchedulePlans, NEW tds \in TdsLists,
               RecordSale(l, leg, plan, tds)
        PROVE  IInv'
    <2>1. plan \o tds \in FeeLists
      BY LedgerConstants, ConcatProperties DEF FeeLists
    <2>2. QED
      BY <1>8, <2>1, InsertLegIInv DEF RecordSale
  <1>9. ASSUME NEW l \in LegIds, NEW from \in AccountIds, NEW to \in AccountIds,
               NEW fromCurrency \in Currencies, NEW toCurrency \in Currencies,
               EditTransaction(l, from, to, fromCurrency, toCurrency)
        PROVE  IInv'
    <2> DEFINE edited == [legs[l] EXCEPT !.from = from, !.to = to,
                                         !.fromCurrency = fromCurrency,
                                         !.toCurrency = toCurrency]
    <2>1. /\ l \in DOMAIN legs /\ legs' = [legs EXCEPT ![l] = edited] /\ CanMove(edited)
          /\ UNCHANGED <<payouts, fees, accounts, scheduled, writing>>
      BY <1>9 DEF EditTransaction
    <2>2. /\ edited \in Leg
          /\ edited.payout = legs[l].payout /\ edited.parent = legs[l].parent
          /\ edited.from = from /\ edited.to = to
      BY <2>1 DEF IInv, TypeOK, Leg
    <2> HIDE DEF edited
    <2>3. /\ DOMAIN legs' = DOMAIN legs
          /\ legs' \in [DOMAIN legs -> Leg]
          /\ \A m \in DOMAIN legs : /\ legs'[m].payout = legs[m].payout
                                    /\ legs'[m].parent = legs[m].parent
                                    /\ m # l => legs'[m] = legs[m]
          /\ legs'[l] = edited
      BY <2>1, <2>2 DEF IInv, TypeOK
    <2>4. TypeOK'
      BY <2>1, <2>3 DEF IInv, TypeOK
    <2>5. LegsFormAForest'
      BY <2>3 DEF IInv, LegsFormAForest, IsForest, ParentOK
    <2>6. NoDanglingRows'
      BY <2>1, <2>2, <2>3 DEF IInv, NoDanglingRows, CanMove, IsIdle
    <2>7. QED
      BY <2>4, <2>5, <2>6 DEF IInv
  <1>10. ASSUME NEW l \in LegIds, DeleteTransaction(l) PROVE IInv'
    <2>1. l \in DOMAIN legs
      BY <1>10 DEF DeleteTransaction
    <2>2. Subtree(legs, l) \in SUBSET DOMAIN legs /\ IsClosed(legs, Subtree(legs, l))
      BY <2>1, SubtreeIsClosed
    <2>3. QED
      BY <1>10, <2>2, RemoveLegsIInv DEF DeleteTransaction, IInv, NoDanglingRows
  <1>11. CASE RecordFee
    <2>1. writing.leg \in DOMAIN legs /\ writing.todo \in FeeLists /\ writing.todo # <<>>
      BY <1>11 DEF RecordFee, IInv, TypeOK, NoDanglingRows
    <2>2. Head(writing.todo) \in PendingFee /\ Tail(writing.todo) \in FeeLists
      BY <2>1, HeadTailProperties DEF FeeLists
    <2>3. writing' \in [leg : LegIds \cup {NoLeg}, todo : FeeLists]
      BY <1>11, <2>2 DEF RecordFee, IInv, TypeOK, Idle, FeeLists
    <2>4. fees' = fees \cup {<<writing.leg, Head(writing.todo).type>>}
          /\ Head(writing.todo).type \in FeeTypes
      BY <1>11, <2>2 DEF RecordFee, PendingFee
    <2>5. TypeOK'
      BY <1>11, <2>1, <2>3, <2>4 DEF RecordFee, IInv, TypeOK
    <2>6. IsIdle' \/ (writing'.leg = writing.leg /\ writing'.todo # <<>>)
      BY <1>11 DEF RecordFee, IInv, TypeOK, IsIdle
    <2>7. NoDanglingRows'
      <3>1. UNCHANGED <<payouts, legs, accounts, scheduled>>
        BY <1>11 DEF RecordFee
      <3>2. \A f \in fees' : f \in fees \/ f[1] = writing.leg
        BY <2>4
      <3>3. ~IsIdle
        BY <1>11 DEF RecordFee
      <3> QED
        BY <2>1, <2>6, <3>1, <3>2, <3>3 DEF IInv, NoDanglingRows
    <2>8. QED
      BY <1>11, <2>5, <2>7 DEF RecordFee, IInv, LegsFormAForest
  <1>12. CASE RefuseFee \/ Crash
    <2>1. <<>> \in FeeLists
      BY DEF FeeLists
    <2>2. QED
      BY <1>12, <2>1
      DEF RefuseFee, Crash, IInv, TypeOK, LegsFormAForest, NoDanglingRows, Idle, IsIdle
  <1>13. CASE UNCHANGED vars
    BY <1>13 DEF vars, IInv, TypeOK, LegsFormAForest, NoDanglingRows, IsIdle
  <1>14. QED
    BY <1>1, <1>2, <1>3, <1>4, <1>5, <1>6, <1>7, <1>8, <1>9, <1>10, <1>11, <1>12, <1>13
    DEF Next, NextPayout, NextAccount, NextLeg

LEMMA AlwaysIInv == Spec => []IInv
  BY InitIInv, NextIInv, PTL DEF Spec
(* Every table keeps its shape, whatever is recorded, edited or deleted.    *)
THEOREM TypeCorrect == Spec => []TypeOK
  BY AlwaysIInv, PTL DEF IInv

(* The legs are always a forest of per-payout trees, although only the      *)
(* parent check of RecordTransaction ever looks at it.                      *)
THEOREM ForestAlways == Spec => []LegsFormAForest
  BY AlwaysIInv, PTL DEF IInv

(* Every foreign key is respected, including by a recording in progress.    *)
THEOREM ReferencesHold == Spec => []NoDanglingRows
  BY AlwaysIInv, PTL DEF IInv

(* ... and so the tables hang together after every commit and every kill.   *)
THEOREM RowsAlwaysHold == Spec => []RowsHoldTogether
  BY AlwaysIInv, PTL DEF IInv, RowsHoldTogether

LEMMA IInvCounts == IInv => CountIsWhatGoes
  <1> SUFFICES ASSUME IInv, NEW l \in DOMAIN legs
               PROVE  CountedLegs(l) = Subtree(legs, l)
    BY DEF CountIsWhatGoes
  <1>1. 0 \notin DOMAIN legs /\ IsForest(legs)
    BY DEF IInv, TypeOK, LegIds, LegsFormAForest
  <1>2. QED
    BY <1>1, SubtreeWithinPayout DEF CountedLegs

(* The number DeleteTransaction reports is the number of legs that go.      *)
THEOREM CountsAreExact == Spec => []CountIsWhatGoes
  BY AlwaysIInv, IInvCounts, PTL

-----------------------------------------------------------------------------
(* What a step may take away or bring. *)

(* The steps that touch legs at all, by what they do to the table.          *)
LEMMA LegSteps ==
  ASSUME IInv, [Next]_vars
  PROVE  \/ DOMAIN legs' = DOMAIN legs /\ fees \subseteq fees'
         \/ /\ \E l \in LegIds, leg \in Leg :
                 /\ IsNextRowId(l, DOMAIN legs)
                 /\ legs' = WithRow(legs, l, leg)
                 /\ ParentAccepted(leg)
            /\ fees' = fees
         \/ \E p \in payouts : /\ legs' = Without(legs, LegsOfPayout(legs, p))
                               /\ fees' = FeesWithout(LegsOfPayout(legs, p))
         \/ \E l \in DOMAIN legs : /\ legs' = Without(legs, Subtree(legs, l))
                                   /\ fees' = FeesWithout(Subtree(legs, l))
  <1>1. CASE UNCHANGED <<legs, fees>>
    BY <1>1
  <1>2. CASE RecordFee
    BY <1>2 DEF RecordFee
  <1>3. ASSUME NEW l \in LegIds, NEW from \in AccountIds, NEW to \in AccountIds,
               NEW fromCurrency \in Currencies, NEW toCurrency \in Currencies,
               EditTransaction(l, from, to, fromCurrency, toCurrency)
        PROVE  DOMAIN legs' = DOMAIN legs /\ fees \subseteq fees'
    BY <1>3 DEF EditTransaction
  <1>4. CASE NextPayout
    BY <1>4 DEF NextPayout, RecordPayout, DeletePayout
  <1>5. CASE NextAccount
    BY <1>1, <1>5 DEF NextAccount, RecordAccount, EditAccount, DeleteAccount, DeclareSchedule
  <1>6. CASE RefuseFee \/ Crash
    BY <1>1, <1>6 DEF RefuseFee, Crash
  <1>7. CASE NextLeg
    BY <1>3, <1>7 DEF NextLeg, RecordTransaction, RecordSale, InsertLeg, DeleteTransaction
  <1>8. QED
    BY <1>1, <1>2, <1>4, <1>5, <1>6, <1>7 DEF Next, vars

LEMMA NewLegIsClean ==
  ASSUME IInv, [Next]_vars, NEW l \in DOMAIN legs' \ DOMAIN legs
  PROVE  /\ \A f \in fees' : f[1] # l
         /\ \A m \in DOMAIN legs' : legs'[m].parent # l
  <1>1. PICK id \in LegIds, leg \in Leg :
          /\ IsNextRowId(id, DOMAIN legs)
          /\ legs' = WithRow(legs, id, leg)
          /\ ParentAccepted(leg)
          /\ fees' = fees
    BY LegSteps DEF Without, Restrict
  <1>2. l = id /\ l # 0
    BY <1>1 DEF WithRow, LegIds
  <1>3. \A f \in fees' : f[1] # l
    BY <1>1 DEF IInv, NoDanglingRows
  <1>4. leg.parent # l
    BY <1>1, <1>2 DEF ParentAccepted, NoLeg
  <1>5. \A m \in DOMAIN legs : legs[m].parent # l
    BY <1>2 DEF IInv, LegsFormAForest, IsForest, ParentOK, NoLeg
  <1>6. QED
    BY <1>1, <1>2, <1>3, <1>4, <1>5 DEF WithRow

(* A leg that gets the row id of a deleted one starts with no fee and no    *)
(* child of its predecessor.                                                *)
THEOREM ReuseIsSafe == Spec => ReusedIdIsClean
  <1>1. IInv /\ [Next]_vars =>
          [\A l \in DOMAIN legs' \ DOMAIN legs :
             /\ \A f \in fees' : f[1] # l
             /\ \A m \in DOMAIN legs' : legs'[m].parent # l]_vars
    BY NewLegIsClean
  <1>2. QED
    BY <1>1, AlwaysIInv, PTL DEF Spec, ReusedIdIsClean

LEMMA LossInOnePayout ==
  ASSUME IInv, [Next]_vars,
         NEW l \in DOMAIN legs \ DOMAIN legs', NEW m \in DOMAIN legs,
         m \notin DOMAIN legs' \/ \E t \in FeeTypes : <<m, t>> \in fees \ fees'
  PROVE  legs[m].payout = legs[l].payout
  <1>1. PICK gone \in SUBSET DOMAIN legs :
          /\ legs' = Without(legs, gone)
          /\ fees' = FeesWithout(gone)
          /\ \/ \E p \in payouts : gone = LegsOfPayout(legs, p)
             \/ \E k \in DOMAIN legs : gone = Subtree(legs, k)
    BY LegSteps DEF WithRow, LegsOfPayout, Subtree
  <1>2. l \in gone /\ m \in gone
    BY <1>1 DEF Without, Restrict, FeesWithout
  <1>3. \E p : gone \subseteq LegsOfPayout(legs, p)
    BY <1>1, SubtreeInOnePayout DEF IInv, TypeOK, LegIds, LegsFormAForest
  <1>4. QED
    BY <1>2, <1>3 DEF LegsOfPayout

(* A delete never costs two payouts a leg or a fee.                         *)
THEOREM LossIsLocal == Spec => LossStaysInOnePayout
  <1>1. IInv /\ [Next]_vars =>
          [\A l \in DOMAIN legs \ DOMAIN legs', m \in DOMAIN legs :
             (m \notin DOMAIN legs' \/ \E t \in FeeTypes : <<m, t>> \in fees \ fees')
               => legs[m].payout = legs[l].payout]_vars
    BY LossInOnePayout
  <1>2. QED
    BY <1>1, AlwaysIInv, PTL DEF Spec, LossStaysInOnePayout
(* While the accounts stay as they are, a leg that contradicts its accounts *)
(* did so before, and has not been edited since: new and edited legs pass   *)
(* CanMove, which asks of the two sides what the check asks of them.        *)
LEMMA AcceptedLegsAgree ==
  ASSUME IInv, [Next]_vars, accounts' = accounts, NEW l \in Contradicting'
  PROVE  l \in Contradicting /\ legs'[l] = legs[l]
  <1>1. l \in DOMAIN legs' /\ ~CanMove(legs'[l])
    BY DEF Contradicting, Contradicts, CanMove
  <1>2. l \in DOMAIN legs /\ legs'[l] = legs[l]
    <2>1. ASSUME NEW new \in LegIds, NEW leg \in Leg, NEW todo, InsertLeg(new, leg, todo)
          PROVE  l \in DOMAIN legs /\ legs'[l] = legs[l]
      BY <1>1, <2>1 DEF InsertLeg, WithRow
    <2>2. ASSUME NEW m \in LegIds, NEW from \in AccountIds, NEW to \in AccountIds,
                 NEW fromCurrency \in Currencies, NEW toCurrency \in Currencies,
                 EditTransaction(m, from, to, fromCurrency, toCurrency)
          PROVE  l \in DOMAIN legs /\ legs'[l] = legs[l]
      BY <1>1, <2>2 DEF EditTransaction, IInv, TypeOK
    <2>3. ASSUME NEW m \in LegIds, DeleteTransaction(m)
          PROVE  l \in DOMAIN legs /\ legs'[l] = legs[l]
      BY <1>1, <2>3 DEF DeleteTransaction, Without, Restrict
    <2>4. ASSUME NEW p \in PayoutIds, DeletePayout(p)
          PROVE  l \in DOMAIN legs /\ legs'[l] = legs[l]
      BY <1>1, <2>4 DEF DeletePayout, Without, Restrict
    <2>5. CASE UNCHANGED legs
      BY <1>1, <2>5
    <2>6. CASE NextLeg
      BY <2>1, <2>2, <2>3, <2>6 DEF NextLeg, RecordTransaction, RecordSale
    <2>7. CASE NextPayout
      BY <2>4, <2>5, <2>7 DEF NextPayout, RecordPayout
    <2>8. CASE NextAccount \/ RecordFee \/ RefuseFee \/ Crash
      BY <2>5, <2>8
      DEF NextAccount, RecordAccount, EditAccount, DeleteAccount, DeclareSchedule,
          RecordFee, RefuseFee, Crash
    <2>9. QED
      BY <2>5, <2>6, <2>7, <2>8 DEF Next, vars
  <1>3. QED
    BY <1>2 DEF Contradicting, Contradicts

(* What the data-quality check flags on a leg is the trace of an edit of an *)
(* account, for any accounts, currencies and trees of legs.                 *)
THEOREM FlagsAreTracesOfEdits == Spec => OnlyNarrowingContradicts
  <1>1. IInv /\ [Next]_vars =>
          [\A l \in Contradicting' :
             l \notin Contradicting \/ legs'[l] # legs[l] => accounts' # accounts]_vars
    BY AcceptedLegsAgree
  <1>2. QED
    BY <1>1, AlwaysIInv, PTL DEF Spec, OnlyNarrowingContradicts
-----------------------------------------------------------------------------
(* Ledger implements LegTree. *)

TreeOf(t) == [l \in DOMAIN t |-> [payout |-> t[l].payout, parent |-> t[l].parent]]

(* Only payout and parent matter to the operators of Forest.                *)
LEMMA TreeOfAgrees ==
  ASSUME NEW t
  PROVE  /\ DOMAIN TreeOf(t) = DOMAIN t
         /\ \A p : LegsOfPayout(TreeOf(t), p) = LegsOfPayout(t, p)
         /\ \A l : Subtree(TreeOf(t), l) = Subtree(t, l)
         /\ \A S : TreeOf(Without(t, S)) = Without(TreeOf(t), S)
         /\ \A l, row : TreeOf(WithRow(t, l, row))
                          = WithRow(TreeOf(t), l, [payout |-> row.payout, parent |-> row.parent])
  <1> DEFINE u == TreeOf(t)
  <1>1. /\ DOMAIN u = DOMAIN t
        /\ \A l \in DOMAIN t : u[l].payout = t[l].payout /\ u[l].parent = t[l].parent
        /\ \A l \in DOMAIN t : u[l] = [payout |-> t[l].payout, parent |-> t[l].parent]
    BY DEF TreeOf
  <1>2. \A p : LegsOfPayout(u, p) = LegsOfPayout(t, p)
    BY <1>1 DEF LegsOfPayout
  <1>3. \A S : IsClosed(u, S) <=> IsClosed(t, S)
    BY <1>1 DEF IsClosed
  <1>4. \A l : Subtree(u, l) = Subtree(t, l)
    BY <1>1, <1>3 DEF Subtree
  <1>5. ASSUME NEW S PROVE TreeOf(Without(t, S)) = Without(u, S)
    BY <1>1 DEF TreeOf, Without, Restrict
  <1>6. ASSUME NEW l, NEW row
        PROVE  TreeOf(WithRow(t, l, row))
               = WithRow(u, l, [payout |-> row.payout, parent |-> row.parent])
    BY <1>1 DEF TreeOf, WithRow
  <1>7. QED
    BY <1>1, <1>2, <1>4, <1>5, <1>6

LEMMA InsertIsGrow ==
  ASSUME IInv, NEW l \in LegIds, NEW leg \in Leg, NEW todo, InsertLeg(l, leg, todo)
  PROVE  Tree!TreeNext
  <1>1. /\ IsNextRowId(l, DOMAIN TreeOf(legs))
        /\ leg.payout \in payouts
        /\ leg.parent # NoLeg => leg.parent \in LegsOfPayout(TreeOf(legs), leg.payout)
        /\ UNCHANGED payouts
    BY TreeOfAgrees DEF InsertLeg, ParentAccepted, LegsOfPayout
  <1>2. TreeOf(legs') = WithRow(TreeOf(legs), l, [payout |-> leg.payout, parent |-> leg.parent])
    BY TreeOfAgrees DEF InsertLeg
  <1>3. Tree!Grow(l, leg.payout, leg.parent)
    BY <1>1, <1>2
    DEF Tree!Grow, TreeOf, Tree!IsNextRowId, IsNextRowId, Tree!WithRow, WithRow,
        Tree!LegsOfPayout, LegsOfPayout, Tree!NoLeg, NoLeg
  <1>4. leg.payout \in PayoutIds /\ leg.parent \in LegIds \cup {Tree!NoLeg}
    BY DEF Leg, NoLeg, Tree!NoLeg
  <1>5. QED
    BY <1>3, <1>4 DEF Tree!TreeNext

LEMMA DeleteLegIsPrune ==
  ASSUME IInv, NEW l \in LegIds, DeleteTransaction(l)
  PROVE  Tree!TreeNext
  <1>1. TreeOf(legs') = Without(TreeOf(legs), Subtree(TreeOf(legs), l))
    BY TreeOfAgrees DEF DeleteTransaction
  <1>2. Tree!Prune(l)
    BY <1>1, TreeOfAgrees
    DEF Tree!Prune, DeleteTransaction, TreeOf, Tree!Without, Without, Tree!Restrict, Restrict,
        Tree!Subtree, Subtree, Tree!IsClosed, IsClosed
  <1>3. QED
    BY <1>2 DEF Tree!TreeNext

LEMMA DeletePayoutIsFell ==
  ASSUME IInv, NEW p \in PayoutIds, DeletePayout(p)
  PROVE  Tree!TreeNext
  <1>1. TreeOf(legs') = Without(TreeOf(legs), LegsOfPayout(TreeOf(legs), p))
    BY TreeOfAgrees DEF DeletePayout
  <1>2. Tree!Fell(p)
    BY <1>1
    DEF Tree!Fell, DeletePayout, TreeOf, Tree!Without, Without, Tree!Restrict, Restrict,
        Tree!LegsOfPayout, LegsOfPayout
  <1>3. QED
    BY <1>2 DEF Tree!TreeNext

LEMMA StepFollowsTree ==
  ASSUME IInv, [Next]_vars
  PROVE  [Tree!TreeNext]_Tree!treeVars
  <1>1. CASE UNCHANGED <<payouts, legs>>
    BY <1>1 DEF Tree!treeVars
  <1>2. ASSUME NEW p \in PayoutIds, RecordPayout(p) PROVE Tree!TreeNext
    BY <1>2 DEF RecordPayout, Tree!TreeNext, Tree!Open, Tree!IsNextRowId, IsNextRowId
  <1>3. ASSUME NEW l \in LegIds, NEW from \in AccountIds, NEW to \in AccountIds,
               NEW fromCurrency \in Currencies, NEW toCurrency \in Currencies,
               EditTransaction(l, from, to, fromCurrency, toCurrency)
        PROVE  UNCHANGED Tree!treeVars
    <2>1. /\ DOMAIN legs' = DOMAIN legs
          /\ \A m \in DOMAIN legs : /\ legs'[m].payout = legs[m].payout
                                    /\ legs'[m].parent = legs[m].parent
      BY <1>3 DEF EditTransaction, IInv, TypeOK, Leg
    <2>2. UNCHANGED payouts
      BY <1>3 DEF EditTransaction
    <2>3. QED
      BY <2>1, <2>2 DEF Tree!treeVars
  <1>4. CASE NextLeg
    BY <1>3, <1>4, InsertIsGrow, DeleteLegIsPrune DEF NextLeg, RecordTransaction, RecordSale
  <1>5. CASE NextPayout
    BY <1>2, <1>5, DeletePayoutIsFell DEF NextPayout
  <1>6. CASE NextAccount \/ RecordFee \/ RefuseFee \/ Crash
    BY <1>1, <1>6
    DEF NextAccount, RecordAccount, EditAccount, DeleteAccount, DeclareSchedule,
        RecordFee, RefuseFee, Crash
  <1>7. QED
    BY <1>1, <1>4, <1>5, <1>6 DEF Next, vars

(* Among accounts, fees and interrupted recordings, every request is one    *)
(* step of the leg tree or none.                                            *)
THEOREM LedgerImplementsLegTree == Spec => LegsFollowTheTree
  <1>1. Init => Tree!TreeInit
    BY DEF Init, NoRows, Tree!TreeInit
  <1>2. IInv /\ [Next]_vars => [Tree!TreeNext]_Tree!treeVars
    BY StepFollowsTree
  <1>3. QED
    BY <1>1, <1>2, AlwaysIInv, PTL DEF Spec, LegsFollowTheTree, Tree!TreeSpec

-----------------------------------------------------------------------------
IsMap(f) == f = [x \in DOMAIN f |-> f[x]]
IsLegRow(l) ==
  l = [payout |-> l.payout, parent |-> l.parent, from |-> l.from, to |-> l.to,
       fromCurrency |-> l.fromCurrency, toCurrency |-> l.toCurrency, amount |-> l.amount]

LegsOk(rows) == \A l \in DOMAIN rows : IsLegRow(rows[l])
FeesOk(charges) ==
  \A k \in DOMAIN charges :
    /\ k[2] \in ToSet(FeeColumns)
    /\ charges[k] = [of |-> charges[k].of, currency |-> charges[k].currency]
TablesOk(d) ==
  /\ d = [companies |-> d.companies, accounts |-> d.accounts, payouts |-> d.payouts,
          legs |-> d.legs, fees |-> d.fees, documents |-> d.documents, links |-> d.links]
  /\ IsMap(d.accounts) /\ IsMap(d.payouts) /\ IsMap(d.legs) /\ IsMap(d.fees)
  /\ \A a \in DOMAIN d.accounts : d.accounts[a] # {}
  /\ LegsOk(d.legs) /\ FeesOk(d.fees)

Anchored(d) ==
  /\ \A l \in DOMAIN d.legs :
       /\ d.legs[l].payout \in DOMAIN d.payouts
       /\ {d.legs[l].from, d.legs[l].to} \subseteq DOMAIN d.accounts
       /\ d.legs[l].parent = NoParent \/ d.legs[l].parent \in DOMAIN d.legs
  /\ \A k \in DOMAIN d.fees : k[1] \in DOMAIN d.legs
  /\ \A k \in d.links : k[1] \in d.documents /\ k[2] \in DOMAIN d.legs

(* What a row has to write, in whatever order. *)
Tasks(r) ==
  {Task("company", r.company), Task("payout", r.payout), Task("account", "from"),
   Task("account", "to"), Task("leg", r.leg)}
  \cup {Task("fee", fee) : fee \in ToSet(FeeColumns)}
  \cup {Task("document", d) : d \in ToSet(r.documents)}
  \cup {Task("link", d) : d \in ToSet(r.documents)}

(* What is left of a row is of that row, and the leg is not after its fees. *)
Ordered(todo) ==
  \A i, j \in 1..Len(todo) : i < j /\ todo[i].do \in {"leg", "fee"} => todo[j].do # "leg"
RunOk(u) ==
  /\ u = [step |-> u.step, sheet |-> u.sheet, row |-> u.row, todo |-> u.todo,
          parents |-> u.parents, leg |-> u.leg]
  /\ u.step \in {"none", "running", "finished"}
  /\ u.step # "none" =>
       /\ u.sheet \in Sheets /\ u.row \in 1..Len(u.sheet)
       /\ u.todo \in Seq(Tasks(u.sheet[u.row])) /\ Ordered(u.todo)
       /\ DOMAIN u.parents \subseteq {u.sheet[j].leg : j \in 1..Len(u.sheet)}
  /\ u.step = "finished" => u.row = Len(u.sheet) /\ u.todo = <<>>

(* The row's leg, from the step that found or wrote it: it is as it was     *)
(* then, or the owner has written over it.                                  *)
LegFound(d, u) ==
  LET l == u.sheet[u.row].leg IN
  u.step = "running" /\ l \in DOMAIN d.legs /\ (\A i \in 1..Len(u.todo) : u.todo[i].do # "leg")
  => u.leg = d.legs[l] \/ d.legs[l].amount = "the owner's"

(* Nothing on file but what the sheet says. *)
Faithful(d) ==
  LET i == Imported(Whole) IN
  /\ d.companies \subseteq i.companies
  /\ \A a \in DOMAIN d.accounts : a \in DOMAIN i.accounts /\ d.accounts[a] \subseteq i.accounts[a]
  /\ \A p \in DOMAIN d.payouts : p \in DOMAIN i.payouts /\ d.payouts[p] = i.payouts[p]
  /\ \A l \in DOMAIN d.legs : l \in DOMAIN i.legs /\ d.legs[l] = i.legs[l]
  /\ \A k \in DOMAIN d.fees : k \in DOMAIN i.fees /\ d.fees[k].currency = i.fees[k].currency
  /\ d.documents \subseteq i.documents
  /\ d.links \subseteq i.links

(* All a task of the row has to put on file. *)
Written(d, s, r, t) ==
  /\ t.do = "company" => r.company \in d.companies
  /\ t.do = "payout" => r.payout \in DOMAIN d.payouts
  /\ t.do = "account" => /\ Account(r, t.what) \in DOMAIN d.accounts
                         /\ Currency(r, t.what) \in d.accounts[Account(r, t.what)]
  /\ t.do = "leg" => r.leg \in DOMAIN d.legs
  /\ t.do = "fee" /\ t.what \in CellRow(s, r, t.what).fees =>
       /\ <<r.leg, t.what>> \in DOMAIN d.fees
       /\ d.fees[<<r.leg, t.what>>].of = CellRow(s, r, t.what).leg
  /\ t.do = "document" => t.what \in d.documents
  /\ t.do = "link" => <<t.what, r.leg>> \in d.links

Progress(d, u) ==
  \A i \in 1..u.row : \A t \in Tasks(u.sheet[i]) :
    (i = u.row => t \notin ToSet(u.todo)) => Written(d, u.sheet, u.sheet[i], t)

(* Row ids tell the legs apart and grow from parent to child; what the run  *)
(* remembers of a code is the id of its leg, unless the owner has deleted   *)
(* that leg under it.                                                       *)
KeysOk(d, i, u, gone) ==
  /\ DOMAIN i = DOMAIN d.legs
  /\ \A l \in DOMAIN i : i[l] \in Nat \ {0}
  /\ \A l, k \in DOMAIN i : i[l] = i[k] => l = k
  /\ u.step = "running" =>
       \A c \in DOMAIN u.parents : c \in gone \/ (c \in DOMAIN i /\ i[c] = u.parents[c])
HungOk(d, i, gone) ==
  \A l \in DOMAIN d.legs :
    /\ \/ d.legs[l].parent = NoParent
       \/ d.legs[l].parent \in DOMAIN i /\ i[d.legs[l].parent] < i[l]
    /\ d.legs[l].parent = RowFor(Whole, l).parent \/ RowFor(Whole, l).parent \in gone
KeysInv ==
  /\ KeysOk(db, ids, run, deleted) /\ HungOk(db, ids, deleted)
  /\ touches = 0 => deleted = {}

ImportInv ==
  /\ TablesOk(db) /\ Anchored(db) /\ RunOk(run) /\ LegFound(db, run) /\ touches \in Nat
  /\ touches = 0 => Faithful(db) /\ (run.step # "none" => Progress(db, run))

-----------------------------------------------------------------------------
(* The plan of a row *)

LEMMA ColumnsOfFees == FeeColumns \in Seq(ToSet(FeeColumns)) /\ Len(FeeColumns) = 5
BY DEF FeeColumns, ToSet

LEMMA TaskFields == \A do, what : Task(do, what).do = do /\ Task(do, what).what = what
BY DEF Task

LEMMA PlanTasks ==
  ASSUME NEW r, r.documents \in Seq(ToSet(r.documents))
  PROVE  /\ Plan(r) \in Seq(Tasks(r)) /\ Plan(r) # <<>> /\ Ordered(Plan(r))
         /\ \A t \in Tasks(r) : t \in ToSet(Plan(r))
         /\ \E i \in 1..Len(Plan(r)) : Plan(r)[i].do = "leg"
<1> DEFINE n == Len(r.documents)
           head == <<Task("company", r.company), Task("payout", r.payout),
                     Task("account", "from"), Task("account", "to"), Task("leg", r.leg)>>
           middle == [i \in 1..Len(FeeColumns) |-> Task("fee", FeeColumns[i])]
           at(i) == Task(IF i % 2 = 1 THEN "document" ELSE "link",
                         r.documents[(i + 1) \div 2])
           tail == [i \in 1..2 * n |-> at(i)]
           plan == head \o middle \o tail
<1>1. n \in Nat /\ \A i \in 1..n : r.documents[i] \in ToSet(r.documents)
  BY DEF ToSet
<1>2. /\ head \in Seq(Tasks(r)) /\ Len(head) = 5
      /\ head[1] = Task("company", r.company) /\ head[2] = Task("payout", r.payout)
      /\ head[3] = Task("account", "from") /\ head[4] = Task("account", "to")
      /\ head[5] = Task("leg", r.leg)
  BY DEF Tasks
<1>3. middle \in Seq(Tasks(r)) /\ Len(middle) = 5
      /\ \A i \in 1..5 : middle[i] = Task("fee", FeeColumns[i])
  BY ColumnsOfFees DEF Tasks, ToSet
<1>4. \A i \in 1..2 * n : (i + 1) \div 2 \in 1..n
  BY <1>1
<1>5. /\ tail \in Seq(Tasks(r)) /\ Len(tail) = 2 * n
      /\ \A i \in 1..2 * n : tail[i] = at(i)
  <2>1. \A i \in 1..2 * n : at(i) \in Tasks(r)
    BY <1>1, <1>4 DEF Tasks
  <2> HIDE DEF at
  <2> QED
    BY <1>1, <2>1
<1> HIDE DEF head, middle, tail
<1>6. /\ plan \in Seq(Tasks(r)) /\ Len(plan) = 10 + 2 * n
      /\ \A i \in 1..5 : plan[i] = head[i]
      /\ \A i \in 1..5 : plan[5 + i] = middle[i]
      /\ \A i \in 1..2 * n : plan[10 + i] = tail[i]
  <2> DEFINE both == head \o middle
  <2>1. /\ both \in Seq(Tasks(r)) /\ Len(both) = 10
        /\ \A i \in 1..10 : both[i] = IF i <= 5 THEN head[i] ELSE middle[i - 5]
    <3>1. /\ both \in Seq(Tasks(r)) /\ Len(both) = Len(head) + Len(middle)
          /\ \A i \in 1..Len(head) + Len(middle) :
               both[i] = IF i <= Len(head) THEN head[i] ELSE middle[i - Len(head)]
      BY <1>2, <1>3, ConcatProperties, Zenon
    <3> HIDE DEF both
    <3> QED
      BY <1>2, <1>3, <3>1
  <2> HIDE DEF both
  <2>2. /\ both \o tail \in Seq(Tasks(r)) /\ Len(both \o tail) = 10 + 2 * n
        /\ \A i \in 1..10 + 2 * n :
             (both \o tail)[i] = IF i <= 10 THEN both[i] ELSE tail[i - 10]
    <3> DEFINE all == both \o tail
    <3>1. /\ all \in Seq(Tasks(r)) /\ Len(all) = Len(both) + Len(tail)
          /\ \A i \in 1..Len(both) + Len(tail) :
               all[i] = IF i <= Len(both) THEN both[i] ELSE tail[i - Len(both)]
      BY <1>5, <2>1, ConcatProperties, Zenon
    <3> HIDE DEF all
    <3>2. /\ all \in Seq(Tasks(r)) /\ Len(all) = 10 + 2 * n
          /\ \A i \in 1..10 + 2 * n : all[i] = IF i <= 10 THEN both[i] ELSE tail[i - 10]
      BY <1>1, <1>5, <2>1, <3>1
    <3> QED
      BY <3>2 DEF all
  <2>3. plan = both \o tail
    BY DEF both
  <2> HIDE DEF plan
  <2>4. \A i \in 1..5 : plan[i] = head[i] /\ plan[5 + i] = middle[i]
    <3> TAKE i \in 1..5
    <3>1. i \in 1..10 /\ 5 + i \in 1..10 /\ ~(5 + i <= 5) /\ (5 + i) - 5 = i
      OBVIOUS
    <3>2. both[i] = head[i] /\ both[5 + i] = middle[i]
      BY <2>1, <3>1
    <3>3. i \in 1..10 + 2 * n /\ 5 + i \in 1..10 + 2 * n
      BY <1>1
    <3>4. plan[i] = both[i] /\ plan[5 + i] = both[5 + i]
      <4>1. plan[i] = both[i]
        BY <2>2, <2>3, <3>1, <3>3
      <4>2. plan[5 + i] = both[5 + i]
        BY <2>2, <2>3, <3>1, <3>3
      <4> QED
        BY <4>1, <4>2
    <3> QED
      BY <3>2, <3>4
  <2>5. \A i \in 1..2 * n : plan[10 + i] = tail[i]
    <3> TAKE i \in 1..2 * n
    <3>1. 10 + i \in 1..10 + 2 * n /\ ~(10 + i <= 10) /\ (10 + i) - 10 = i
      BY <1>1
    <3> QED
      BY <2>2, <2>3, <3>1
  <2> QED
    BY <2>2, <2>3, <2>4, <2>5
<1>7. plan = Plan(r)
  BY DEF Plan, head, middle, tail
<1> HIDE DEF plan
<1>8. \A i \in 1..Len(plan) : plan[i].do \in {"leg", "fee"} => i >= 5
  <2>1. /\ plan[1].do = "company" /\ plan[2].do = "payout"
        /\ plan[3].do = "account" /\ plan[4].do = "account"
    BY <1>2, <1>6, TaskFields
  <2>2. \A i \in 1..Len(plan) : i >= 5 \/ i \in {1, 2, 3, 4}
    BY <1>1, <1>6
  <2> QED
    BY <2>1, <2>2
<1>9. \A i \in 1..Len(plan) : i > 5 => plan[i].do # "leg"
  <2> SUFFICES ASSUME NEW i \in 1..Len(plan), i > 5 PROVE plan[i].do # "leg"
    OBVIOUS
  <2>1. CASE i <= 10
    <3>1. i - 5 \in 1..5 /\ i = 5 + (i - 5)
      BY <2>1
    <3>2. plan[i] = Task("fee", FeeColumns[i - 5])
      BY <1>3, <1>6, <3>1
    <3> QED
      BY <3>2, TaskFields
  <2>2. CASE i > 10
    <3>1. i - 10 \in 1..2 * n /\ i = 10 + (i - 10)
      BY <1>1, <1>6, <2>2
    <3>2. \E d : plan[i] = Task("document", d) \/ plan[i] = Task("link", d)
      BY <1>5, <1>6, <3>1
    <3> QED
      BY <3>2, TaskFields
  <2> QED
    BY <1>1, <1>6, <2>1, <2>2
<1>10. Ordered(plan)
  BY <1>1, <1>6, <1>8, <1>9 DEF Ordered
<1>11. \A i \in 1..Len(plan) : plan[i] \in ToSet(plan)
  BY <1>6 DEF ToSet
<1>12. ASSUME NEW t \in Tasks(r) PROVE t \in ToSet(plan)
  <2>1. CASE t \in {head[1], head[2], head[3], head[4], head[5]}
    <3>1. PICK i \in 1..5 : t = head[i]
      BY <2>1
    <3>2. i \in 1..Len(plan) /\ t = plan[i]
      BY <1>1, <1>6, <3>1
    <3> QED
      BY <1>11, <3>2
  <2>2. CASE \E fee \in ToSet(FeeColumns) : t = Task("fee", fee)
    <3>1. PICK i \in 1..5 : t = Task("fee", FeeColumns[i])
      BY <2>2, ColumnsOfFees DEF ToSet
    <3>2. t = plan[5 + i] /\ 5 + i \in 1..Len(plan)
      BY <1>1, <1>3, <1>6, <3>1
    <3> QED
      BY <1>11, <3>2
  <2>3. CASE \E d \in ToSet(r.documents) : t = Task("document", d)
    <3>1. PICK i \in 1..n : t = Task("document", r.documents[i])
      BY <2>3 DEF ToSet
    <3>2. 2 * i - 1 \in 1..2 * n /\ (2 * i - 1) % 2 = 1 /\ ((2 * i - 1) + 1) \div 2 = i
      BY <1>1
    <3>3. 10 + (2 * i - 1) \in 1..Len(plan)
      BY <1>1, <1>6, <3>2
    <3>4. plan[10 + (2 * i - 1)] = at(2 * i - 1)
      BY <1>5, <1>6, <3>2
    <3>5. at(2 * i - 1) = t
      BY <3>1, <3>2
    <3> QED
      BY <1>11, <3>3, <3>4, <3>5
  <2>4. CASE \E d \in ToSet(r.documents) : t = Task("link", d)
    <3>1. PICK i \in 1..n : t = Task("link", r.documents[i])
      BY <2>4 DEF ToSet
    <3>2. 2 * i \in 1..2 * n /\ (2 * i) % 2 # 1 /\ (2 * i + 1) \div 2 = i
      BY <1>1
    <3>3. t = plan[10 + 2 * i] /\ 10 + 2 * i \in 1..Len(plan)
      BY <1>1, <1>5, <1>6, <3>1, <3>2
    <3> QED
      BY <1>11, <3>3
  <2> QED
    BY <1>2, <2>1, <2>2, <2>3, <2>4 DEF Tasks
<1>13. 5 \in 1..Len(plan) /\ plan[5].do = "leg"
  BY <1>1, <1>2, <1>6, TaskFields
<1>14. plan # <<>>
  BY <1>1, <1>6
<1> QED
  BY <1>6, <1>7, <1>10, <1>12, <1>13, <1>14

(* A task done leaves the others, in their order. *)
LEMMA TaskDone ==
  ASSUME NEW S, NEW todo \in Seq(S), todo # <<>>, Ordered(todo)
  PROVE  /\ Head(todo) \in S /\ Tail(todo) \in Seq(S) /\ Ordered(Tail(todo))
         /\ \A t \in ToSet(todo) : t = Head(todo) \/ t \in ToSet(Tail(todo))
         /\ Head(todo).do \in {"leg", "fee"} =>
              \A i \in 1..Len(Tail(todo)) : Tail(todo)[i].do # "leg"
         /\ Head(todo).do # "leg" =>
              ((\A i \in 1..Len(Tail(todo)) : Tail(todo)[i].do # "leg")
               => \A i \in 1..Len(todo) : todo[i].do # "leg")
<1> DEFINE rest == Tail(todo)
<1>1. /\ Len(todo) \in Nat /\ Len(todo) > 0 /\ rest \in Seq(S) /\ Len(rest) = Len(todo) - 1
      /\ \A i \in 1..Len(rest) : rest[i] = todo[i + 1]
      /\ Head(todo) = todo[1] /\ todo[1] \in S
  OBVIOUS
<1> HIDE DEF rest
<1>2. \A i \in 1..Len(todo) : i = 1 \/ (i - 1 \in 1..Len(rest) /\ todo[i] = rest[i - 1])
  <2> SUFFICES ASSUME NEW i \in 1..Len(todo), i # 1
               PROVE  i - 1 \in 1..Len(rest) /\ todo[i] = rest[i - 1]
    OBVIOUS
  <2>1. i - 1 \in 1..Len(rest) /\ (i - 1) + 1 = i
    BY <1>1
  <2> QED
    BY <1>1, <2>1
<1>3. Ordered(rest)
  BY <1>1 DEF Ordered
<1>4. \A t \in ToSet(todo) : t = todo[1] \/ t \in ToSet(rest)
  BY <1>1, <1>2 DEF ToSet
<1>5. todo[1].do \in {"leg", "fee"} => \A i \in 1..Len(rest) : rest[i].do # "leg"
  BY <1>1 DEF Ordered
<1> QED
  BY <1>1, <1>2, <1>3, <1>4, <1>5 DEF rest

-----------------------------------------------------------------------------
(* What the sheet says *)

Rows == 1..Len(Whole)

LEMMA SheetOfRows ==
  ASSUME NEW s \in Sheets
  PROVE  /\ Len(Whole) \in Nat /\ Len(s) \in Rows
         /\ \A i \in 1..Len(s) :
              /\ i \in Rows
              /\ s[i].leg = Whole[i].leg /\ s[i].payout = Whole[i].payout
              /\ s[i].company = Whole[i].company /\ s[i].kind = Whole[i].kind
              /\ s[i].from = Whole[i].from /\ s[i].fromCurrency = Whole[i].fromCurrency
              /\ s[i].to = Whole[i].to /\ s[i].toCurrency = Whole[i].toCurrency
              /\ s[i].fees = Whole[i].fees /\ s[i].documents = Whole[i].documents
              /\ s[i].documents \in Seq(ToSet(s[i].documents))
              /\ \/ s[i].parent = Whole[i].parent
                 \/ s[i].parent # NoParent /\ \A j \in 1..Len(s) : s[j].leg # s[i].parent
         /\ \A i, j \in 1..Len(s) : s[i].leg = s[j].leg => i = j
<1>1. Len(Whole) \in Nat /\ Len(s) \in Rows
  BY WholeAssumption, SheetsAssumption DEF Rows
<1>2. \A i \in 1..Len(s) : i \in Rows
  BY <1>1 DEF Rows
<1>3. \A i \in Rows : Whole[i].documents \in Seq(ToSet(Whole[i].documents))
  BY WholeAssumption DEF Rows
<1>4. \A i, j \in Rows : Whole[i].leg = Whole[j].leg => i = j
  BY WholeAssumption DEF Rows
<1> QED
  BY <1>1, <1>2, <1>3, <1>4, SheetsAssumption

LEMMA RowOfLeg ==
  /\ \A i \in Rows : RowFor(Whole, Whole[i].leg) = Whole[i]
  /\ \A s \in Sheets : \A i \in 1..Len(s) : RowFor(s, s[i].leg) = s[i]
<1>1. ASSUME NEW s, NEW i \in 1..Len(s), \A j \in 1..Len(s) : s[j].leg = s[i].leg => j = i
      PROVE  RowFor(s, s[i].leg) = s[i]
  <2>1. s[i] \in RowsOf(s)
    BY DEF RowsOf
  <2>2. \A r \in RowsOf(s) : r.leg = s[i].leg => r = s[i]
    BY <1>1 DEF RowsOf
  <2> QED
    BY <2>1, <2>2 DEF RowFor
<1>2. \A i \in Rows : RowFor(Whole, Whole[i].leg) = Whole[i]
  BY <1>1, WholeAssumption DEF Rows
<1> QED
  BY <1>1, <1>2, SheetOfRows

LEMMA OtherOfPair ==
  ASSUME NEW leg \in SwappedPair
  PROVE  /\ Other(leg) \in SwappedPair /\ Other(leg) # leg
         /\ \E i \in Rows : Whole[i].leg = leg /\ SwappedFees \subseteq Whole[i].fees
BY WholeAssumption DEF Other, Rows

(* Whose cell a fee is in, in the whole sheet. *)
CellLeg(leg, fee) ==
  IF leg \in SwappedPair /\ fee \in SwappedFees THEN Other(leg) ELSE leg

LEMMA CellOfWhole ==
  ASSUME NEW i \in Rows, NEW fee
  PROVE  /\ CellRow(Whole, Whole[i], fee).leg = CellLeg(Whole[i].leg, fee)
         /\ CellRow(Whole, Whole[i], fee) = RowFor(Whole, CellLeg(Whole[i].leg, fee))
         /\ Whole[i].leg \in SwappedPair /\ fee \in SwappedFees =>
              fee \in CellRow(Whole, Whole[i], fee).fees
<1>1. CASE ~(Whole[i].leg \in SwappedPair /\ fee \in SwappedFees)
  BY <1>1, RowOfLeg DEF CellRow, CellLeg
<1>2. CASE Whole[i].leg \in SwappedPair /\ fee \in SwappedFees
  <2>1. \A leg \in SwappedPair : \E q \in RowsOf(Whole) : q.leg = leg
    BY OtherOfPair DEF RowsOf, Rows
  <2>2. PICK j \in Rows : Whole[j].leg = Other(Whole[i].leg) /\ SwappedFees \subseteq Whole[j].fees
    BY <1>2, OtherOfPair
  <2>3. CellRow(Whole, Whole[i], fee) = RowFor(Whole, Other(Whole[i].leg))
    BY <1>2, <2>1 DEF CellRow, Other
  <2>4. RowFor(Whole, Other(Whole[i].leg)) = Whole[j]
    BY <2>2, RowOfLeg
  <2> QED
    BY <1>2, <2>2, <2>3, <2>4 DEF CellLeg
<1> QED
  BY <1>1, <1>2

LEMMA CellOfSheet ==
  ASSUME NEW s \in Sheets, NEW i \in 1..Len(s), NEW fee,
         fee \in CellRow(s, s[i], fee).fees
  PROVE  fee \in CellRow(Whole, Whole[i], fee).fees
<1>1. i \in Rows /\ s[i].leg = Whole[i].leg /\ s[i].fees = Whole[i].fees
  BY SheetOfRows
<1>2. CASE s[i].leg \in SwappedPair /\ fee \in SwappedFees
  BY <1>1, <1>2, CellOfWhole
<1>3. CASE ~(s[i].leg \in SwappedPair /\ fee \in SwappedFees)
  <2>1. CellRow(s, s[i], fee) = s[i]
    BY <1>3 DEF CellRow
  <2>2. CellRow(Whole, Whole[i], fee) = Whole[i]
    BY <1>1, <1>3 DEF CellRow
  <2> QED
    BY <1>1, <2>1, <2>2
<1> QED
  BY <1>2, <1>3

(* What is on file once every row is, and nothing else: table by table.    *)
LEMMA ImportedRecord ==
  LET o == Imported(Whole) IN
  /\ o = [companies |-> o.companies, accounts |-> o.accounts, payouts |-> o.payouts,
          legs |-> o.legs, fees |-> o.fees, documents |-> o.documents, links |-> o.links]
  /\ IsMap(o.accounts) /\ IsMap(o.payouts) /\ IsMap(o.legs) /\ IsMap(o.fees)
BY SMT DEF Imported, IsMap

LEMMA ImportedCompanies ==
  \A x : x \in Imported(Whole).companies <=> \E i \in Rows : x = Whole[i].company
<1>1. Imported(Whole).companies = {r.company : r \in RowsOf(Whole)}
  BY SMT DEF Imported
<1> QED
  BY <1>1 DEF RowsOf, Rows

LEMMA ImportedAccounts ==
  /\ \A a : a \in DOMAIN Imported(Whole).accounts
       <=> \E i \in Rows, side \in {"from", "to"} : a = Account(Whole[i], side)
  /\ \A a \in DOMAIN Imported(Whole).accounts : \A c :
       c \in Imported(Whole).accounts[a] <=>
         \E i \in Rows, side \in {"from", "to"} :
           a = Account(Whole[i], side) /\ c = Currency(Whole[i], side)
<1> DEFINE seen == {<<r.from, r.fromCurrency>> : r \in RowsOf(Whole)}
                   \cup {<<r.to, r.toCurrency>> : r \in RowsOf(Whole)}
<1>1. Imported(Whole).accounts =
        [a \in {x[1] : x \in seen} |-> {x[2] : x \in {y \in seen : y[1] = a}}]
  BY SMT DEF Imported
<1>2. \A x : x \in seen <=> \E i \in Rows, side \in {"from", "to"} :
                x = <<Account(Whole[i], side), Currency(Whole[i], side)>>
  BY DEF RowsOf, Rows, Account, Currency
<1> HIDE DEF seen
<1>3. \A a, c : <<a, c>>[1] = a /\ <<a, c>>[2] = c
  OBVIOUS
<1> DEFINE of(i, side) == <<Account(Whole[i], side), Currency(Whole[i], side)>>
<1>4. /\ \A i \in Rows, side \in {"from", "to"} : of(i, side) \in seen
      /\ \A x \in seen : \E i \in Rows, side \in {"from", "to"} : x = of(i, side)
      /\ \A i, side : of(i, side)[1] = Account(Whole[i], side)
                    /\ of(i, side)[2] = Currency(Whole[i], side)
  BY <1>2, <1>3
<1> HIDE DEF of
<1>5. \A a : a \in {x[1] : x \in seen}
        <=> \E i \in Rows, side \in {"from", "to"} : a = Account(Whole[i], side)
  BY <1>4
<1>6. \A a, c : c \in {x[2] : x \in {y \in seen : y[1] = a}} <=>
        \E i \in Rows, side \in {"from", "to"} :
          a = Account(Whole[i], side) /\ c = Currency(Whole[i], side)
  BY <1>4
<1> DEFINE names == {x[1] : x \in seen}
           held(a) == {x[2] : x \in {y \in seen : y[1] = a}}
<1>7. DOMAIN Imported(Whole).accounts = names
      /\ \A a \in names : Imported(Whole).accounts[a] = held(a)
  BY <1>1
<1> HIDE DEF names, held
<1>8. (\A a : a \in names
        <=> \E i \in Rows, side \in {"from", "to"} : a = Account(Whole[i], side))
      /\ \A a, c : c \in held(a) <=>
        \E i \in Rows, side \in {"from", "to"} :
          a = Account(Whole[i], side) /\ c = Currency(Whole[i], side)
  BY <1>5, <1>6 DEF names, held
<1> QED
  BY <1>7, <1>8

LEMMA ImportedPayouts ==
  /\ \A p : p \in DOMAIN Imported(Whole).payouts <=> \E i \in Rows : p = Whole[i].payout
  /\ \A i \in Rows : (\A j \in 1..i - 1 : Whole[j].payout # Whole[i].payout) =>
       Imported(Whole).payouts[Whole[i].payout] = Whole[i].company
<1> DEFINE first(p, i) == Whole[i].payout = p /\ \A j \in 1..i - 1 : Whole[j].payout # p
<1>1. Imported(Whole).payouts =
        [p \in {r.payout : r \in RowsOf(Whole)} |->
           Whole[CHOOSE i \in 1..Len(Whole) : first(p, i)].company]
  BY SMT DEF Imported
<1>2. \A p : p \in {r.payout : r \in RowsOf(Whole)} <=> \E i \in Rows : p = Whole[i].payout
  BY DEF RowsOf, Rows
<1>3. ASSUME NEW i \in Rows, first(Whole[i].payout, i)
      PROVE  (CHOOSE k \in Rows : first(Whole[i].payout, k)) = i
  <2>1. Len(Whole) \in Nat
    BY WholeAssumption
  <2>2. \A k \in Rows : first(Whole[i].payout, k) => k = i
    BY <1>3, <2>1 DEF Rows
  <2> QED
    BY <1>3, <2>2
<1> DEFINE named == {r.payout : r \in RowsOf(Whole)}
           row(p) == CHOOSE i \in Rows : first(p, i)
<1>4. /\ DOMAIN Imported(Whole).payouts = named
      /\ \A p \in named : Imported(Whole).payouts[p] = Whole[row(p)].company
  BY <1>1 DEF Rows
<1>5. \A p : p \in named <=> \E i \in Rows : p = Whole[i].payout
  BY <1>2
<1>6. \A i \in Rows : first(Whole[i].payout, i) => row(Whole[i].payout) = i
  BY <1>3
<1> HIDE DEF named, row
<1> QED
  BY <1>4, <1>5, <1>6

LEMMA ImportedLegs ==
  /\ \A l : l \in DOMAIN Imported(Whole).legs <=> \E i \in Rows : l = Whole[i].leg
  /\ \A i \in Rows : Imported(Whole).legs[Whole[i].leg] = NewLeg(Whole[i])
<1>1. Imported(Whole).legs = [l \in {r.leg : r \in RowsOf(Whole)} |-> NewLeg(RowFor(Whole, l))]
  BY SMT DEF Imported
<1>2. \A l : l \in {r.leg : r \in RowsOf(Whole)} <=> \E i \in Rows : l = Whole[i].leg
  BY DEF RowsOf, Rows
<1> QED
  BY <1>1, <1>2, RowOfLeg

LEMMA ImportedFees ==
  /\ \A k : k \in DOMAIN Imported(Whole).fees <=>
       \E i \in Rows, fee \in ToSet(FeeColumns) :
         k = <<Whole[i].leg, fee>> /\ fee \in CellRow(Whole, Whole[i], fee).fees
  /\ \A i \in Rows : \A fee : <<Whole[i].leg, fee>> \in DOMAIN Imported(Whole).fees =>
       Imported(Whole).fees[<<Whole[i].leg, fee>>] =
         [of |-> CellRow(Whole, Whole[i], fee).leg,
          currency |-> IF fee \in SourceCurrencyFees THEN Whole[i].fromCurrency
                       ELSE Whole[i].toCurrency]
<1> DEFINE charged == {<<r.leg, fee>> : r \in RowsOf(Whole), fee \in ToSet(FeeColumns)}
           filled == {x \in charged : x[2] \in RowFor(Whole, CellLeg(x[1], x[2])).fees}
           value(k) == [of |-> CellLeg(k[1], k[2]),
                        currency |-> IF k[2] \in SourceCurrencyFees
                                     THEN RowFor(Whole, k[1]).fromCurrency
                                     ELSE RowFor(Whole, k[1]).toCurrency]
<1>1. Imported(Whole).fees = [k \in filled |-> value(k)]
  BY SMT DEF Imported, CellLeg
<1>2. \A x : x \in charged <=> \E i \in Rows, fee \in ToSet(FeeColumns) : x = <<Whole[i].leg, fee>>
  BY DEF RowsOf, Rows
<1>3. \A a, c : <<a, c>>[1] = a /\ <<a, c>>[2] = c
  OBVIOUS
<1> HIDE DEF charged
<1>4. \A k : k \in filled <=>
        \E i \in Rows, fee \in ToSet(FeeColumns) :
          k = <<Whole[i].leg, fee>> /\ fee \in CellRow(Whole, Whole[i], fee).fees
  <2>1. \A i \in Rows : \A fee : fee \in RowFor(Whole, CellLeg(Whole[i].leg, fee)).fees
                               <=> fee \in CellRow(Whole, Whole[i], fee).fees
    BY CellOfWhole
  <2>2. \A i \in Rows : \A fee \in ToSet(FeeColumns) :
          <<Whole[i].leg, fee>> \in filled <=> fee \in CellRow(Whole, Whole[i], fee).fees
    BY <1>2, <1>3, <2>1
  <2>3. \A k \in filled : \E i \in Rows, fee \in ToSet(FeeColumns) : k = <<Whole[i].leg, fee>>
    BY <1>2
  <2> HIDE DEF filled
  <2> QED
    BY <2>2, <2>3
<1>5. \A i \in Rows : \A fee : value(<<Whole[i].leg, fee>>) =
        [of |-> CellRow(Whole, Whole[i], fee).leg,
         currency |-> IF fee \in SourceCurrencyFees THEN Whole[i].fromCurrency
                      ELSE Whole[i].toCurrency]
  BY <1>3, CellOfWhole, RowOfLeg
<1> HIDE DEF filled, value
<1> QED
  BY <1>1, <1>4, <1>5

LEMMA ImportedEvidence ==
  /\ \A x : x \in Imported(Whole).documents <=> \E i \in Rows : x \in ToSet(Whole[i].documents)
  /\ \A x : x \in Imported(Whole).links <=>
       \E i \in Rows : \E d \in ToSet(Whole[i].documents) : x = <<d, Whole[i].leg>>
<1>1. Imported(Whole).documents = UNION {ToSet(r.documents) : r \in RowsOf(Whole)}
  BY SMT DEF Imported
<1>2. Imported(Whole).links =
        UNION {{<<d, r.leg>> : d \in ToSet(r.documents)} : r \in RowsOf(Whole)}
  BY SMT DEF Imported
<1> QED
  BY <1>1, <1>2 DEF RowsOf, Rows

LEMMA WrittenFee ==
  ASSUME NEW d, NEW s, NEW r, NEW fee
  PROVE  Written(d, s, r, Task("fee", fee)) <=>
           (fee \in CellRow(s, r, fee).fees =>
              /\ <<r.leg, fee>> \in DOMAIN d.fees
              /\ d.fees[<<r.leg, fee>>].of = CellRow(s, r, fee).leg)
<1>1. PICK t : t = Task("fee", fee) /\ t.do = "fee" /\ t.what = fee
  BY TaskFields
<1> QED
  BY <1>1 DEF Written

LEMMA WrittenTask ==
  ASSUME NEW d, NEW s, NEW r, NEW x
  PROVE  /\ Written(d, s, r, Task("company", x)) <=> r.company \in d.companies
         /\ Written(d, s, r, Task("payout", x)) <=> r.payout \in DOMAIN d.payouts
         /\ Written(d, s, r, Task("account", x)) <=>
              Account(r, x) \in DOMAIN d.accounts /\ Currency(r, x) \in d.accounts[Account(r, x)]
         /\ Written(d, s, r, Task("leg", x)) <=> r.leg \in DOMAIN d.legs
         /\ Written(d, s, r, Task("document", x)) <=> x \in d.documents
         /\ Written(d, s, r, Task("link", x)) <=> <<x, r.leg>> \in d.links
<1>1. ASSUME NEW do, NEW t, t = Task(do, x) PROVE t.do = do /\ t.what = x
  BY <1>1, TaskFields
<1>2. Written(d, s, r, Task("company", x)) <=> r.company \in d.companies
  <2>1. PICK t : t = Task("company", x) /\ t.do = "company" /\ t.what = x
    BY <1>1
  <2> QED
    BY <2>1 DEF Written
<1>3. Written(d, s, r, Task("payout", x)) <=> r.payout \in DOMAIN d.payouts
  <2>1. PICK t : t = Task("payout", x) /\ t.do = "payout" /\ t.what = x
    BY <1>1
  <2> QED
    BY <2>1 DEF Written
<1>4. Written(d, s, r, Task("account", x)) <=>
        Account(r, x) \in DOMAIN d.accounts /\ Currency(r, x) \in d.accounts[Account(r, x)]
  <2>1. PICK t : t = Task("account", x) /\ t.do = "account" /\ t.what = x
    BY <1>1
  <2> QED
    BY <2>1 DEF Written
<1>5. Written(d, s, r, Task("leg", x)) <=> r.leg \in DOMAIN d.legs
  <2>1. PICK t : t = Task("leg", x) /\ t.do = "leg" /\ t.what = x
    BY <1>1
  <2> QED
    BY <2>1 DEF Written
<1>7. Written(d, s, r, Task("document", x)) <=> x \in d.documents
  <2>1. PICK t : t = Task("document", x) /\ t.do = "document" /\ t.what = x
    BY <1>1
  <2> QED
    BY <2>1 DEF Written
<1>8. Written(d, s, r, Task("link", x)) <=> <<x, r.leg>> \in d.links
  <2>1. PICK t : t = Task("link", x) /\ t.do = "link" /\ t.what = x
    BY <1>1
  <2> QED
    BY <2>1 DEF Written
<1> QED
  BY <1>2, <1>3, <1>4, <1>5, <1>7, <1>8

LEMMA AllWritten ==
  ASSUME NEW d, NEW s, NEW r, \A t \in Tasks(r) : Written(d, s, r, t)
  PROVE  /\ r.company \in d.companies /\ r.payout \in DOMAIN d.payouts
         /\ r.leg \in DOMAIN d.legs
         /\ \A side \in {"from", "to"} :
              Account(r, side) \in DOMAIN d.accounts
              /\ Currency(r, side) \in d.accounts[Account(r, side)]
         /\ \A fee \in ToSet(FeeColumns) : fee \in CellRow(s, r, fee).fees =>
              /\ <<r.leg, fee>> \in DOMAIN d.fees
              /\ d.fees[<<r.leg, fee>>].of = CellRow(s, r, fee).leg
         /\ \A doc \in ToSet(r.documents) : doc \in d.documents /\ <<doc, r.leg>> \in d.links
<1>1. /\ Task("company", r.company) \in Tasks(r) /\ Task("payout", r.payout) \in Tasks(r)
      /\ Task("leg", r.leg) \in Tasks(r)
      /\ Task("account", "from") \in Tasks(r) /\ Task("account", "to") \in Tasks(r)
  BY DEF Tasks
<1>2. \A fee \in ToSet(FeeColumns) : Task("fee", fee) \in Tasks(r)
  BY DEF Tasks
<1>3. \A doc \in ToSet(r.documents) :
        Task("document", doc) \in Tasks(r) /\ Task("link", doc) \in Tasks(r)
  BY DEF Tasks
<1>4. r.company \in d.companies /\ r.payout \in DOMAIN d.payouts /\ r.leg \in DOMAIN d.legs
  BY <1>1, WrittenTask
<1>5. \A side \in {"from", "to"} :
        Account(r, side) \in DOMAIN d.accounts
        /\ Currency(r, side) \in d.accounts[Account(r, side)]
  <2>1. \A side \in {"from", "to"} : Task("account", side) \in Tasks(r)
    BY <1>1
  <2> QED
    BY <2>1, WrittenTask
<1>6. \A fee \in ToSet(FeeColumns) : fee \in CellRow(s, r, fee).fees =>
        /\ <<r.leg, fee>> \in DOMAIN d.fees
        /\ d.fees[<<r.leg, fee>>].of = CellRow(s, r, fee).leg
  <2> TAKE fee \in ToSet(FeeColumns)
  <2>1. Written(d, s, r, Task("fee", fee))
    BY <1>2
  <2> QED
    BY <2>1, WrittenFee
<1>7. \A doc \in ToSet(r.documents) : doc \in d.documents /\ <<doc, r.leg>> \in d.links
  BY <1>3, WrittenTask
<1> QED
  BY <1>4, <1>5, <1>6, <1>7

(* Every row written, and nothing else on file, is the sheet as it reads.   *)
LEMMA AllRowsWritten ==
  ASSUME NEW d, TablesOk(d), Faithful(d),
         \A i \in Rows : \A t \in Tasks(Whole[i]) : Written(d, Whole, Whole[i], t)
  PROVE  d = Imported(Whole)
<1> DEFINE o == Imported(Whole)
<1>1. \A i \in Rows :
        /\ Whole[i].company \in d.companies /\ Whole[i].payout \in DOMAIN d.payouts
        /\ Whole[i].leg \in DOMAIN d.legs
        /\ \A side \in {"from", "to"} :
             Account(Whole[i], side) \in DOMAIN d.accounts
             /\ Currency(Whole[i], side) \in d.accounts[Account(Whole[i], side)]
        /\ \A fee \in ToSet(FeeColumns) : fee \in CellRow(Whole, Whole[i], fee).fees =>
             /\ <<Whole[i].leg, fee>> \in DOMAIN d.fees
             /\ d.fees[<<Whole[i].leg, fee>>].of = CellRow(Whole, Whole[i], fee).leg
        /\ \A doc \in ToSet(Whole[i].documents) :
             doc \in d.documents /\ <<doc, Whole[i].leg>> \in d.links
  BY AllWritten
<1> HIDE DEF o
<1>2. d.companies = o.companies
  <2>1. d.companies \subseteq o.companies
    BY DEF Faithful, o
  <2>2. \A x \in o.companies : x \in d.companies
    BY <1>1, ImportedCompanies DEF o
  <2> QED
    BY <2>1, <2>2
<1>3. d.accounts = o.accounts
  <2>1. \A a \in DOMAIN d.accounts : a \in DOMAIN o.accounts /\ d.accounts[a] \subseteq o.accounts[a]
    BY DEF Faithful, o
  <2>2. \A a \in DOMAIN o.accounts : a \in DOMAIN d.accounts
    BY <1>1, ImportedAccounts DEF o
  <2>3. \A a \in DOMAIN o.accounts : \A c \in o.accounts[a] : c \in d.accounts[a]
    BY <1>1, ImportedAccounts DEF o
  <2>4. DOMAIN d.accounts = DOMAIN o.accounts
    BY <2>1, <2>2
  <2>5. \A a \in DOMAIN d.accounts : d.accounts[a] = o.accounts[a]
    BY <2>1, <2>3, <2>4
  <2>6. IsMap(d.accounts) /\ IsMap(o.accounts)
    BY ImportedRecord DEF TablesOk, o
  <2> QED
    BY <2>4, <2>5, <2>6 DEF IsMap
<1>4. d.payouts = o.payouts
  <2>1. \A p \in DOMAIN d.payouts : p \in DOMAIN o.payouts /\ d.payouts[p] = o.payouts[p]
    BY DEF Faithful, o
  <2>2. \A p \in DOMAIN o.payouts : p \in DOMAIN d.payouts
    BY <1>1, ImportedPayouts DEF o
  <2>3. IsMap(d.payouts) /\ IsMap(o.payouts)
    BY ImportedRecord DEF TablesOk, o
  <2>4. DOMAIN d.payouts = DOMAIN o.payouts
    BY <2>1, <2>2
  <2> QED
    BY <2>1, <2>3, <2>4 DEF IsMap
<1>5. d.legs = o.legs
  <2>1. \A l \in DOMAIN d.legs : l \in DOMAIN o.legs /\ d.legs[l] = o.legs[l]
    BY DEF Faithful, o
  <2>2. \A l \in DOMAIN o.legs : l \in DOMAIN d.legs
    BY <1>1, ImportedLegs DEF o
  <2>3. IsMap(d.legs) /\ IsMap(o.legs)
    BY ImportedRecord DEF TablesOk, o
  <2>4. DOMAIN d.legs = DOMAIN o.legs
    BY <2>1, <2>2
  <2> QED
    BY <2>1, <2>3, <2>4 DEF IsMap
<1>6. d.fees = o.fees
  <2>1. \A k \in DOMAIN d.fees : k \in DOMAIN o.fees /\ d.fees[k].currency = o.fees[k].currency
    BY DEF Faithful, o
  <2>2. ASSUME NEW k \in DOMAIN o.fees
        PROVE  /\ k \in DOMAIN d.fees /\ d.fees[k].of = o.fees[k].of
               /\ o.fees[k] = [of |-> o.fees[k].of, currency |-> o.fees[k].currency]
    <3>1. PICK i \in Rows, fee \in ToSet(FeeColumns) :
            k = <<Whole[i].leg, fee>> /\ fee \in CellRow(Whole, Whole[i], fee).fees
      BY <2>2, ImportedFees DEF o
    <3>2. PICK c : o.fees[k] = [of |-> CellRow(Whole, Whole[i], fee).leg, currency |-> c]
      BY <2>2, <3>1, ImportedFees DEF o
    <3> QED
      BY <1>1, <3>1, <3>2
  <2>3. \A k \in DOMAIN d.fees : d.fees[k] = [of |-> d.fees[k].of, currency |-> d.fees[k].currency]
    BY DEF TablesOk, FeesOk
  <2>4. DOMAIN d.fees = DOMAIN o.fees
    BY <2>1, <2>2
  <2>5. \A k \in DOMAIN d.fees : d.fees[k] = o.fees[k]
    BY <2>1, <2>2, <2>3
  <2>6. IsMap(d.fees) /\ IsMap(o.fees)
    BY ImportedRecord DEF TablesOk, o
  <2> QED
    BY <2>4, <2>5, <2>6 DEF IsMap
<1>7. d.documents = o.documents /\ d.links = o.links
  <2>1. d.documents \subseteq o.documents /\ d.links \subseteq o.links
    BY DEF Faithful, o
  <2>2. \A x \in o.documents : x \in d.documents
    BY <1>1, ImportedEvidence DEF o
  <2>3. ASSUME NEW x \in o.links PROVE x \in d.links
    <3>1. PICK i \in Rows : \E doc \in ToSet(Whole[i].documents) : x = <<doc, Whole[i].leg>>
      BY ImportedEvidence DEF o
    <3> QED
      BY <1>1, <3>1
  <2> QED
    BY <2>1, <2>2, <2>3
<1>8. d = [companies |-> d.companies, accounts |-> d.accounts, payouts |-> d.payouts,
           legs |-> d.legs, fees |-> d.fees, documents |-> d.documents, links |-> d.links]
  BY DEF TablesOk
<1>9. o = [companies |-> o.companies, accounts |-> o.accounts, payouts |-> o.payouts,
           legs |-> o.legs, fees |-> o.fees, documents |-> o.documents, links |-> o.links]
  BY ImportedRecord DEF o
<1>10. d = o
  BY <1>2, <1>3, <1>4, <1>5, <1>6, <1>7, <1>8, <1>9
<1> QED
  BY <1>10 DEF o

-----------------------------------------------------------------------------
(* The process from one task to the next *)

(* A task done: what else the process holds stays, but for a leg it found.  *)
MovesOn(u, v) ==
  /\ v = [step |-> u.step, sheet |-> u.sheet, row |-> u.row, todo |-> Tail(u.todo),
          parents |-> v.parents, leg |-> v.leg]
  /\ DOMAIN v.parents \subseteq DOMAIN u.parents \cup {u.sheet[u.row].leg}

AtTask(u) == RunOk(u) /\ u.step = "running" /\ u.todo # <<>>

LEMMA TaskAtHead ==
  ASSUME NEW u, AtTask(u)
  PROVE  LET t == Head(u.todo)  r == u.sheet[u.row] IN
         /\ t \in Tasks(r) /\ t = Task(t.do, t.what)
         /\ t.do = "company" => t.what = r.company
         /\ t.do = "payout" => t.what = r.payout
         /\ t.do = "account" => t.what \in {"from", "to"}
         /\ t.do = "leg" => t.what = r.leg
         /\ t.do = "fee" => t.what \in ToSet(FeeColumns)
         /\ t.do \in {"document", "link"} => t.what \in ToSet(r.documents)
<1> DEFINE r == u.sheet[u.row]
<1>1. PICK t : t = Head(u.todo) /\ t \in Tasks(r)
  BY DEF AtTask, RunOk
<1>2. \/ t = Task("company", r.company) \/ t = Task("payout", r.payout)
      \/ t = Task("account", "from") \/ t = Task("account", "to") \/ t = Task("leg", r.leg)
      \/ \E fee \in ToSet(FeeColumns) : t = Task("fee", fee)
      \/ \E d \in ToSet(r.documents) : t = Task("document", d) \/ t = Task("link", d)
  BY <1>1 DEF Tasks
<1> DEFINE T == ToSet(FeeColumns)
           D == ToSet(r.documents)
           fits == /\ t = Task(t.do, t.what)
                   /\ t.do = "company" => t.what = r.company
                   /\ t.do = "payout" => t.what = r.payout
                   /\ t.do = "account" => t.what \in {"from", "to"}
                   /\ t.do = "leg" => t.what = r.leg
                   /\ t.do = "fee" => t.what \in T
                   /\ t.do \in {"document", "link"} => t.what \in D
<1>3. ASSUME NEW do, NEW what, t = Task(do, what) PROVE t.do = do /\ t.what = what
  BY <1>3, TaskFields
<1> HIDE DEF T, D, r
<1>4. fits
  <2>1. CASE t = Task("company", r.company)
    BY <1>3, <2>1
  <2>2. CASE t = Task("payout", r.payout)
    BY <1>3, <2>2
  <2>3. CASE t = Task("account", "from") \/ t = Task("account", "to")
    BY <1>3, <2>3
  <2>4. CASE t = Task("leg", r.leg)
    BY <1>3, <2>4
  <2>5. CASE \E fee \in T : t = Task("fee", fee)
    BY <1>3, <2>5
  <2>6. CASE \E d \in D : t = Task("document", d) \/ t = Task("link", d)
    BY <1>3, <2>6
  <2> QED
    BY <1>2, <2>1, <2>2, <2>3, <2>4, <2>5, <2>6 DEF T, D
<1> QED
  BY <1>1, <1>4 DEF T, D, r

LEMMA MovedOn ==
  ASSUME NEW u, NEW v, AtTask(u), MovesOn(u, v)
  PROVE  /\ RunOk(v) /\ v.step = "running" /\ v.sheet = u.sheet /\ v.row = u.row
         /\ v.todo = Tail(u.todo)
         /\ u.row \in 1..Len(u.sheet) /\ u.sheet \in Sheets
<1>1. /\ u.sheet \in Sheets /\ u.row \in 1..Len(u.sheet)
      /\ u.todo \in Seq(Tasks(u.sheet[u.row])) /\ Ordered(u.todo) /\ u.todo # <<>>
      /\ DOMAIN u.parents \subseteq {u.sheet[j].leg : j \in 1..Len(u.sheet)}
      /\ u.step = "running"
  BY DEF AtTask, RunOk
<1>2. Tail(u.todo) \in Seq(Tasks(u.sheet[u.row])) /\ Ordered(Tail(u.todo))
  BY <1>1, TaskDone
<1>3. /\ v.step = "running" /\ v.sheet = u.sheet /\ v.row = u.row /\ v.todo = Tail(u.todo)
      /\ v = [step |-> v.step, sheet |-> v.sheet, row |-> v.row, todo |-> v.todo,
              parents |-> v.parents, leg |-> v.leg]
      /\ DOMAIN v.parents \subseteq {u.sheet[j].leg : j \in 1..Len(u.sheet)}
  BY <1>1 DEF MovesOn
<1> QED
  BY <1>1, <1>2, <1>3 DEF RunOk

(* What is written stays written, and the task at hand is. *)
LEMMA ProgressMovesOn ==
  ASSUME NEW u, NEW v, NEW d, NEW e, AtTask(u), MovesOn(u, v), Progress(d, u),
         \A i \in 1..u.row : \A t \in Tasks(u.sheet[i]) :
           Written(d, u.sheet, u.sheet[i], t) => Written(e, u.sheet, u.sheet[i], t),
         Written(e, u.sheet, u.sheet[u.row], Head(u.todo))
  PROVE  Progress(e, v)
<1>1. v.sheet = u.sheet /\ v.row = u.row /\ v.todo = Tail(u.todo)
  BY MovedOn
<1>2. u.todo \in Seq(Tasks(u.sheet[u.row])) /\ Ordered(u.todo) /\ u.todo # <<>>
  BY DEF AtTask, RunOk
<1>3. \A t \in ToSet(u.todo) : t = Head(u.todo) \/ t \in ToSet(Tail(u.todo))
  BY <1>2, TaskDone
<1>4. ASSUME NEW i \in 1..u.row, NEW t \in Tasks(u.sheet[i]),
             i = u.row => t \notin ToSet(Tail(u.todo))
      PROVE  Written(e, u.sheet, u.sheet[i], t)
  <2>1. CASE i = u.row /\ t = Head(u.todo)
    BY <2>1
  <2>2. CASE i # u.row \/ t # Head(u.todo)
    <3>1. i = u.row => t \notin ToSet(u.todo)
      BY <1>3, <1>4, <2>2
    <3> QED
      BY <3>1 DEF Progress
  <2> QED
    BY <2>1, <2>2
<1> QED
  BY <1>1, <1>4 DEF Progress

LEMMA LegFoundMovesOn ==
  ASSUME NEW u, NEW v, NEW d, NEW e, AtTask(u), MovesOn(u, v), LegFound(d, u),
         Head(u.todo).do # "leg", v.leg = u.leg, e.legs = d.legs
  PROVE  LegFound(e, v)
<1>1. v.sheet = u.sheet /\ v.row = u.row /\ v.todo = Tail(u.todo) /\ v.step = u.step
  BY MovedOn DEF AtTask
<1>2. u.todo \in Seq(Tasks(u.sheet[u.row])) /\ Ordered(u.todo) /\ u.todo # <<>>
  BY DEF AtTask, RunOk
<1>3. (\A i \in 1..Len(Tail(u.todo)) : Tail(u.todo)[i].do # "leg")
      => \A i \in 1..Len(u.todo) : u.todo[i].do # "leg"
  BY <1>2, TaskDone
<1> QED
  BY <1>1, <1>3 DEF LegFound

(* The rows of the sheet are told apart by their legs. *)
LEMMA AtRow ==
  ASSUME NEW u, AtTask(u)
  PROVE  /\ u.row \in Rows /\ u.row \in 1..u.row /\ u.sheet \in Sheets
         /\ \A i \in 1..u.row : i \in Rows /\ i \in 1..Len(u.sheet)
         /\ \A i \in 1..u.row : u.sheet[i].leg = u.sheet[u.row].leg => i = u.row
<1>1. u.sheet \in Sheets /\ u.row \in 1..Len(u.sheet)
  BY DEF AtTask, RunOk
<1>2. Len(Whole) \in Nat /\ Len(u.sheet) \in 1..Len(Whole)
  BY <1>1, SheetOfRows DEF Rows
<1>3. \A i \in 1..u.row : i \in Rows /\ i \in 1..Len(u.sheet)
  BY <1>1, <1>2 DEF Rows
<1> QED
  BY <1>1, <1>2, <1>3, SheetOfRows

(* A table that only gains keeps what was written. *)
Grows(d, e) ==
  /\ d.companies \subseteq e.companies /\ d.documents \subseteq e.documents
  /\ d.links \subseteq e.links
  /\ \A a \in DOMAIN d.accounts : a \in DOMAIN e.accounts /\ d.accounts[a] \subseteq e.accounts[a]
  /\ DOMAIN d.payouts \subseteq DOMAIN e.payouts /\ DOMAIN d.legs \subseteq DOMAIN e.legs
  /\ d.fees = e.fees

LEMMA WrittenGrows ==
  ASSUME NEW d, NEW e, NEW s, NEW r, NEW t, Grows(d, e), Written(d, s, r, t)
  PROVE  Written(e, s, r, t)
BY DEF Grows, Written

-----------------------------------------------------------------------------
(* Each write of a row *)

LEMMA TableFields ==
  ASSUME NEW d, TablesOk(d), NEW c, NEW a, NEW p, NEW l, NEW f, NEW o, NEW k, NEW e,
         e = [companies |-> c, accounts |-> a, payouts |-> p, legs |-> l, fees |-> f,
              documents |-> o, links |-> k]
  PROVE  /\ e.companies = c /\ e.accounts = a /\ e.payouts = p /\ e.legs = l /\ e.fees = f
         /\ e.documents = o /\ e.links = k
         /\ e = [companies |-> e.companies, accounts |-> e.accounts, payouts |-> e.payouts,
                 legs |-> e.legs, fees |-> e.fees, documents |-> e.documents, links |-> e.links]
BY DEF TablesOk

LEMMA TaskWritten ==
  ASSUME ImportInv, AtTask(run), MovesOn(run, run'), touches' = touches,
         TablesOk(db'), Anchored(db'), LegFound(db', run'),
         touches = 0 => Faithful(db'),
         touches = 0 => \A i \in 1..run.row : \A t \in Tasks(run.sheet[i]) :
           Written(db, run.sheet, run.sheet[i], t) => Written(db', run.sheet, run.sheet[i], t),
         touches = 0 => Written(db', run.sheet, run.sheet[run.row], Head(run.todo))
  PROVE  ImportInv'
<1>1. PICK u, v, d, e : u = run /\ v = run' /\ d = db /\ e = db'
  OBVIOUS
<1>2. AtTask(u) /\ MovesOn(u, v)
  BY <1>1
<1>3. RunOk(run')
  BY <1>1, <1>2, MovedOn
<1>4. ASSUME touches = 0 PROVE Progress(db', run')
  <2>1. Progress(d, u)
    BY <1>1, <1>2, <1>4 DEF ImportInv, AtTask
  <2> QED
    BY <1>1, <1>2, <1>4, <2>1, ProgressMovesOn
<1> QED
  BY <1>3, <1>4 DEF ImportInv

(* What the process holds before a task and after it. *)
LEMMA DoingTask ==
  ASSUME ImportInv, NEW do, Doing(do)
  PROVE  /\ AtTask(run) /\ TablesOk(db) /\ Anchored(db) /\ RunOk(run) /\ LegFound(db, run)
         /\ touches \in Nat /\ Sheet = run.sheet /\ Row = run.sheet[run.row]
         /\ What = Head(run.todo).what /\ Head(run.todo).do = do
         /\ Head(run.todo) = Task(do, What)
         /\ touches = 0 => Faithful(db) /\ Progress(db, run)
<1>1. AtTask(run) /\ Head(run.todo).do = do
  BY DEF ImportInv, Doing, AtTask
<1>2. PICK u : u = run
  OBVIOUS
<1>3. Head(run.todo) = Task(do, What)
  BY <1>1, <1>2, TaskAtHead DEF What
<1> QED
  BY <1>1, <1>3 DEF ImportInv, Sheet, Row, What, AtTask

LEMMA DoneMovesOn ==
  ASSUME RunOk(run), run' = Done
  PROVE  MovesOn(run, run') /\ run'.leg = run.leg
BY DEF RunOk, Done, MovesOn

(* A step that adds to one table, and to nothing a leg or a fee hangs from. *)
LEMMA CompanyStep ==
  ASSUME ImportInv, Company
  PROVE  ImportInv'
<1>1. Doing("company") /\ db' = [db EXCEPT !.companies = @ \cup {What}] /\ run' = Done
      /\ touches' = touches
  BY DEF Company
<1>2. AtTask(run) /\ TablesOk(db) /\ Anchored(db) /\ RunOk(run) /\ LegFound(db, run)
      /\ Row = run.sheet[run.row] /\ Head(run.todo) = Task("company", What)
      /\ (touches = 0 => Faithful(db) /\ Progress(db, run)) /\ Head(run.todo).do = "company"
      /\ What = Head(run.todo).what
  BY <1>1, DoingTask
<1>3. MovesOn(run, run') /\ run'.leg = run.leg
  BY <1>1, <1>2, DoneMovesOn
<1>4. PICK u, v, d, e : u = run /\ v = run' /\ d = db /\ e = db'
  OBVIOUS
<1>5. AtTask(u) /\ MovesOn(u, v)
  BY <1>2, <1>3, <1>4
<1>6. What = u.sheet[u.row].company
  BY <1>2, <1>4, <1>5, TaskAtHead
<1>7. e = [companies |-> d.companies \cup {What}, accounts |-> d.accounts,
           payouts |-> d.payouts, legs |-> d.legs, fees |-> d.fees,
           documents |-> d.documents, links |-> d.links]
  BY <1>1, <1>2, <1>4 DEF TablesOk
<1>8. /\ e.companies = d.companies \cup {What} /\ e.accounts = d.accounts
      /\ e.payouts = d.payouts /\ e.legs = d.legs /\ e.fees = d.fees
      /\ e.documents = d.documents /\ e.links = d.links
      /\ e = [companies |-> e.companies, accounts |-> e.accounts, payouts |-> e.payouts,
              legs |-> e.legs, fees |-> e.fees, documents |-> e.documents, links |-> e.links]
  BY <1>7, <1>2, <1>4, TableFields
<1>9. TablesOk(e) /\ Anchored(e)
  BY <1>2, <1>4, <1>8 DEF TablesOk, Anchored
<1>10. LegFound(e, v)
  BY <1>2, <1>3, <1>4, <1>5, <1>8, LegFoundMovesOn
<1>11. ASSUME touches = 0 PROVE Faithful(e)
  <2>1. u.row \in Rows /\ u.sheet[u.row].company = Whole[u.row].company
    BY <1>5, AtRow, SheetOfRows DEF AtTask, RunOk
  <2>2. What \in Imported(Whole).companies
    BY <1>6, <2>1, ImportedCompanies
  <2> QED
    BY <1>2, <1>4, <1>8, <1>11, <2>2 DEF Faithful
<1>12. \A s, r, t : Written(d, s, r, t) => Written(e, s, r, t)
  BY <1>8, WrittenGrows DEF Grows
<1>13. Written(e, u.sheet, u.sheet[u.row], Head(u.todo))
  <2>1. u.sheet[u.row].company \in e.companies
    BY <1>6, <1>8
  <2> QED
    BY <1>2, <1>4, <2>1, WrittenTask
<1> QED
  BY <1>1, <1>2, <1>3, <1>4, <1>9, <1>10, <1>11, <1>12, <1>13, TaskWritten

LEMMA PayoutStep ==
  ASSUME ImportInv, Payout
  PROVE  ImportInv'
<1>1. Doing("payout") /\ run' = Done /\ touches' = touches
  BY DEF Payout
<1>2. AtTask(run) /\ TablesOk(db) /\ Anchored(db) /\ RunOk(run) /\ LegFound(db, run)
      /\ Row = run.sheet[run.row] /\ Head(run.todo) = Task("payout", What)
      /\ (touches = 0 => Faithful(db) /\ Progress(db, run)) /\ Head(run.todo).do = "payout"
      /\ What = Head(run.todo).what
  BY <1>1, DoingTask
<1>3. MovesOn(run, run') /\ run'.leg = run.leg
  BY <1>1, <1>2, DoneMovesOn
<1>4. PICK u, v, d, e : u = run /\ v = run' /\ d = db /\ e = db'
  OBVIOUS
<1>5. AtTask(u) /\ MovesOn(u, v)
  BY <1>2, <1>3, <1>4
<1> DEFINE r == u.sheet[u.row]
<1>6. What = r.payout
  BY <1>2, <1>4, <1>5, TaskAtHead
<1>7. CASE What \in DOMAIN d.payouts
  <2>1. e = d
    BY <1>4, <1>7 DEF Payout
  <2>2. LegFound(e, v)
    BY <1>2, <1>3, <1>4, <1>5, <2>1, LegFoundMovesOn
  <2>3. Written(e, u.sheet, r, Head(u.todo))
    BY <1>2, <1>4, <1>6, <1>7, <2>1, WrittenTask
  <2> QED
    BY <1>1, <1>2, <1>3, <1>4, <2>1, <2>2, <2>3, TaskWritten
<1>8. CASE What \notin DOMAIN d.payouts
  <2>1. db' = [db EXCEPT !.payouts = With(@, What, Row.company)]
    BY <1>4, <1>8 DEF Payout
  <2>2. e = [companies |-> d.companies, accounts |-> d.accounts,
             payouts |-> With(d.payouts, What, r.company), legs |-> d.legs, fees |-> d.fees,
             documents |-> d.documents, links |-> d.links]
    BY <1>2, <1>4, <2>1 DEF TablesOk
  <2>3. /\ e.companies = d.companies /\ e.accounts = d.accounts
        /\ e.payouts = With(d.payouts, What, r.company) /\ e.legs = d.legs /\ e.fees = d.fees
        /\ e.documents = d.documents /\ e.links = d.links
        /\ e = [companies |-> e.companies, accounts |-> e.accounts, payouts |-> e.payouts,
                legs |-> e.legs, fees |-> e.fees, documents |-> e.documents, links |-> e.links]
    BY <2>2, <1>2, <1>4, TableFields
  <2>4. /\ IsMap(e.payouts) /\ DOMAIN e.payouts = DOMAIN d.payouts \cup {What}
        /\ e.payouts[What] = r.company
        /\ \A p \in DOMAIN d.payouts : e.payouts[p] = d.payouts[p]
    BY <1>8, <2>3 DEF With, IsMap
  <2>5. TablesOk(e) /\ Anchored(e)
    BY <1>2, <1>4, <2>3, <2>4 DEF TablesOk, Anchored
  <2>6. LegFound(e, v)
    BY <1>2, <1>3, <1>4, <1>5, <2>3, LegFoundMovesOn
  <2>7. ASSUME touches = 0 PROVE Faithful(e)
    <3>1. /\ u.row \in Rows /\ r.company = Whole[u.row].company /\ r.payout = Whole[u.row].payout
          /\ u.row \in Nat /\ u.sheet \in Sheets
      BY <1>5, AtRow, SheetOfRows DEF AtTask, RunOk, Rows
    <3>2. ASSUME NEW j \in 1..u.row - 1 PROVE Whole[j].payout # Whole[u.row].payout
      <4>1. j \in 1..u.row /\ j # u.row
        BY <3>1
      <4>2. Task("payout", u.sheet[j].payout) \in Tasks(u.sheet[j])
        BY DEF Tasks
      <4>3. Written(d, u.sheet, u.sheet[j], Task("payout", u.sheet[j].payout))
        BY <1>2, <1>4, <2>7, <4>1, <4>2 DEF Progress
      <4>4. u.sheet[j].payout \in DOMAIN d.payouts
        BY <4>3, WrittenTask
      <4>5. u.sheet[j].payout = Whole[j].payout
        BY <1>5, <4>1, AtRow, SheetOfRows
      <4> QED
        BY <1>6, <1>8, <3>1, <4>4, <4>5
    <3>3. What \in DOMAIN Imported(Whole).payouts /\ Imported(Whole).payouts[What] = r.company
      BY <1>6, <3>1, <3>2, ImportedPayouts
    <3>4. Faithful(d)
      BY <1>2, <1>4, <2>7
    <3>5. \A p \in DOMAIN e.payouts : p \in DOMAIN Imported(Whole).payouts
                                      /\ e.payouts[p] = Imported(Whole).payouts[p]
      BY <2>4, <3>3, <3>4 DEF Faithful
    <3> QED
      BY <2>3, <3>4, <3>5 DEF Faithful
  <2>8. \A s, q, t : Written(d, s, q, t) => Written(e, s, q, t)
    BY <2>3, <2>4, WrittenGrows DEF Grows
  <2>9. Written(e, u.sheet, r, Head(u.todo))
    <3>1. r.payout \in DOMAIN e.payouts
      BY <1>6, <2>4
    <3> QED
      BY <1>2, <1>4, <3>1, WrittenTask
  <2> QED
    BY <1>1, <1>2, <1>3, <1>4, <2>5, <2>6, <2>7, <2>8, <2>9, TaskWritten
<1> QED
  BY <1>7, <1>8

LEMMA AccountStep ==
  ASSUME ImportInv, AccountMet
  PROVE  ImportInv'
<1>1. Doing("account") /\ run' = Done /\ touches' = touches
  BY DEF AccountMet
<1>2. AtTask(run) /\ TablesOk(db) /\ Anchored(db) /\ RunOk(run) /\ LegFound(db, run)
      /\ Row = run.sheet[run.row] /\ Head(run.todo) = Task("account", What)
      /\ (touches = 0 => Faithful(db) /\ Progress(db, run)) /\ Head(run.todo).do = "account"
      /\ What = Head(run.todo).what
  BY <1>1, DoingTask
<1>3. MovesOn(run, run') /\ run'.leg = run.leg
  BY <1>1, <1>2, DoneMovesOn
<1>4. PICK u, v, d, e : u = run /\ v = run' /\ d = db /\ e = db'
  OBVIOUS
<1>5. AtTask(u) /\ MovesOn(u, v)
  BY <1>2, <1>3, <1>4
<1> DEFINE r == u.sheet[u.row]
<1>6. PICK side \in {"from", "to"} : side = What
  BY <1>2, <1>4, <1>5, TaskAtHead
<1> DEFINE a == Account(r, side)
           c == Currency(r, side)
           held == IF a \in DOMAIN d.accounts THEN d.accounts[a] ELSE {}
<1>7. db' = [db EXCEPT !.accounts = With(@, a, held \cup {c})]
  BY <1>2, <1>4, <1>6 DEF AccountMet
<1> HIDE DEF a, c, held
<1>8. e = [companies |-> d.companies, accounts |-> With(d.accounts, a, held \cup {c}),
           payouts |-> d.payouts, legs |-> d.legs, fees |-> d.fees,
           documents |-> d.documents, links |-> d.links]
  BY <1>2, <1>4, <1>7 DEF TablesOk
<1>9. /\ e.companies = d.companies /\ e.accounts = With(d.accounts, a, held \cup {c})
      /\ e.payouts = d.payouts /\ e.legs = d.legs /\ e.fees = d.fees
      /\ e.documents = d.documents /\ e.links = d.links
      /\ e = [companies |-> e.companies, accounts |-> e.accounts, payouts |-> e.payouts,
              legs |-> e.legs, fees |-> e.fees, documents |-> e.documents, links |-> e.links]
  BY <1>8, <1>2, <1>4, TableFields
<1>10. /\ IsMap(e.accounts) /\ DOMAIN e.accounts = DOMAIN d.accounts \cup {a}
       /\ e.accounts[a] = held \cup {c}
       /\ \A b \in DOMAIN d.accounts : b # a => e.accounts[b] = d.accounts[b]
  BY <1>9 DEF With, IsMap
<1>11. \A b \in DOMAIN d.accounts : b \in DOMAIN e.accounts /\ d.accounts[b] \subseteq e.accounts[b]
  BY <1>10 DEF held
<1>12. TablesOk(e) /\ Anchored(e)
  <2>1. \A b \in DOMAIN e.accounts : e.accounts[b] # {}
    BY <1>2, <1>4, <1>10 DEF TablesOk
  <2> QED
    <3>1. TablesOk(e)
      <4>1. TablesOk(d)
        BY <1>2, <1>4
      <4> QED
        BY <1>9, <1>10, <2>1, <4>1 DEF TablesOk
    <3>2. Anchored(d) /\ DOMAIN d.accounts \subseteq DOMAIN e.accounts
      BY <1>2, <1>4, <1>11
    <3>3. Anchored(e)
      BY <1>9, <3>2 DEF Anchored
    <3> QED
      BY <3>1, <3>3
<1>13. LegFound(e, v)
  BY <1>2, <1>3, <1>4, <1>5, <1>9, LegFoundMovesOn
<1>14. ASSUME touches = 0 PROVE Faithful(e)
  <2>1. u.row \in Rows /\ a = Account(Whole[u.row], side) /\ c = Currency(Whole[u.row], side)
    BY <1>5, AtRow, SheetOfRows DEF AtTask, RunOk, Account, Currency, a, c
  <2>2. a \in DOMAIN Imported(Whole).accounts /\ c \in Imported(Whole).accounts[a]
    BY <2>1, ImportedAccounts
  <2>3. Faithful(d)
    BY <1>2, <1>4, <1>14
  <2>4. held \subseteq Imported(Whole).accounts[a]
    BY <2>3 DEF Faithful, held
  <2>5. \A b \in DOMAIN e.accounts : b \in DOMAIN Imported(Whole).accounts
                                     /\ e.accounts[b] \subseteq Imported(Whole).accounts[b]
    BY <1>10, <2>2, <2>3, <2>4 DEF Faithful
  <2> QED
    BY <1>9, <2>3, <2>5 DEF Faithful
<1>15. \A s, q, t : Written(d, s, q, t) => Written(e, s, q, t)
  BY <1>9, <1>11, WrittenGrows DEF Grows
<1>16. Written(e, u.sheet, r, Head(u.todo))
  <2>1. a \in DOMAIN e.accounts /\ c \in e.accounts[a]
    BY <1>10
  <2> QED
    BY <1>2, <1>4, <1>6, <2>1, WrittenTask DEF a, c
<1> QED
  BY <1>1, <1>2, <1>3, <1>4, <1>12, <1>13, <1>14, <1>15, <1>16, TaskWritten

(* The leg goes below whatever leg has the id remembered of its parent, the *)
(* parent itself if the owner has deleted nothing.                          *)
LEMMA LegStep ==
  ASSUME ImportInv, KeysInv, Transaction
  PROVE  ImportInv'
<1>1. Doing("leg") /\ touches' = touches
      /\ run' = [Done EXCEPT !.leg = db'.legs[What], !.parents = With(@, What, ids'[What])]
  BY DEF Transaction, LegKept
<1>2. AtTask(run) /\ TablesOk(db) /\ Anchored(db) /\ RunOk(run) /\ LegFound(db, run)
      /\ Sheet = run.sheet /\ Row = run.sheet[run.row] /\ Head(run.todo) = Task("leg", What)
      /\ (touches = 0 => Faithful(db) /\ Progress(db, run)) /\ Head(run.todo).do = "leg"
      /\ What = Head(run.todo).what
  BY <1>1, DoingTask
<1>3. PICK u, v, d, e : u = run /\ v = run' /\ d = db /\ e = db'
  OBVIOUS
<1> DEFINE r == u.sheet[u.row]
<1>4. PICK l : l = What /\ l = r.leg
  BY <1>2, <1>3, TaskAtHead
<1>4a. PICK parents : parents = With(u.parents, l, ids'[l])
  OBVIOUS
<1>4b. DOMAIN parents = DOMAIN u.parents \cup {l}
  BY <1>4a DEF With
<1>5. /\ v = [step |-> u.step, sheet |-> u.sheet, row |-> u.row, todo |-> Tail(u.todo),
              parents |-> parents, leg |-> e.legs[l]]
  <2>1. Done = [step |-> u.step, sheet |-> u.sheet, row |-> u.row, todo |-> Tail(u.todo),
                parents |-> u.parents, leg |-> u.leg]
    <3>1. Done = [u EXCEPT !.todo = Tail(@)]
      BY <1>3 DEF Done
    <3>2. u = [step |-> u.step, sheet |-> u.sheet, row |-> u.row, todo |-> u.todo,
               parents |-> u.parents, leg |-> u.leg]
      BY <1>2, <1>3 DEF RunOk
    <3> QED
      BY <3>1, <3>2
  <2> QED
    BY <1>1, <1>3, <1>4, <1>4a, <2>1
<1>6. AtTask(u) /\ MovesOn(u, v) /\ v.leg = e.legs[l]
  BY <1>2, <1>3, <1>4, <1>4b, <1>5 DEF MovesOn
<1>7. v.sheet = u.sheet /\ v.row = u.row
  BY <1>6, MovedOn
<1>8. LegFound(e, v)
  BY <1>4, <1>6, <1>7 DEF LegFound
<1>9. CASE l \in DOMAIN d.legs
  <2>1. e = d
    BY <1>3, <1>4, <1>9 DEF Transaction
  <2>2. Written(e, u.sheet, r, Head(u.todo))
    BY <1>2, <1>3, <1>4, <1>9, <2>1, WrittenTask
  <2> QED
    BY <1>1, <1>2, <1>3, <1>6, <1>8, <2>1, <2>2, TaskWritten
<1>10. CASE l \notin DOMAIN d.legs
  <2>1. /\ CanInsert(r)
        /\ db' = [db EXCEPT !.legs = With(@, l, LegUnder(r, HangsFrom(r)))]
    BY <1>2, <1>3, <1>4, <1>10 DEF Transaction, LegWritten
  <2>2. PICK new, above : above = HangsFrom(r) /\ new = LegUnder(r, above)
    OBVIOUS
  <2>3. e = [companies |-> d.companies, accounts |-> d.accounts, payouts |-> d.payouts,
             legs |-> With(d.legs, l, new), fees |-> d.fees,
             documents |-> d.documents, links |-> d.links]
    BY <1>2, <1>3, <2>1, <2>2 DEF TablesOk
  <2>4. /\ e.companies = d.companies /\ e.accounts = d.accounts /\ e.payouts = d.payouts
        /\ e.legs = With(d.legs, l, new) /\ e.fees = d.fees
        /\ e.documents = d.documents /\ e.links = d.links
        /\ e = [companies |-> e.companies, accounts |-> e.accounts, payouts |-> e.payouts,
                legs |-> e.legs, fees |-> e.fees, documents |-> e.documents, links |-> e.links]
    BY <2>3, <1>2, <1>3, TableFields
  <2>5. /\ IsMap(e.legs) /\ DOMAIN e.legs = DOMAIN d.legs \cup {l} /\ e.legs[l] = new
        /\ \A k \in DOMAIN d.legs : e.legs[k] = d.legs[k]
    BY <1>10, <2>4 DEF With, IsMap
  <2>6. /\ IsLegRow(new) /\ new.payout = r.payout /\ new.parent = above
        /\ new.from = r.from /\ new.to = r.to
    BY <2>2 DEF LegUnder, IsLegRow
  <2>7. /\ u.row \in Rows /\ u.sheet \in Sheets /\ u.row \in 1..Len(u.sheet)
        /\ DOMAIN u.parents \subseteq {u.sheet[j].leg : j \in 1..Len(u.sheet)}
        /\ r.leg = Whole[u.row].leg /\ r.payout = Whole[u.row].payout
    BY <1>6, AtRow, SheetOfRows DEF AtTask, RunOk
  <2>8. r.payout \in DOMAIN d.payouts /\ {r.from, r.to} \subseteq DOMAIN d.accounts
    BY <1>3, <2>1 DEF CanInsert
  <2>9. r.parent = Whole[u.row].parent
    <3>1. r.parent # NoParent => r.parent \in DOMAIN u.parents
      BY <1>3, <2>1 DEF CanInsert
    <3> QED
      BY <2>7, <3>1, SheetOfRows
  <2>9a. above = NoParent \/ above \in DOMAIN d.legs
    <3> SUFFICES ASSUME r.parent # NoParent PROVE above \in DOMAIN d.legs
      BY <2>2 DEF HangsFrom
    <3>1. \E k \in DOMAIN ids : ids[k] = u.parents[r.parent]
      BY <1>3, <2>1 DEF CanInsert
    <3>2. above = (CHOOSE k \in DOMAIN ids : ids[k] = u.parents[r.parent])
      BY <1>3, <2>2 DEF HangsFrom, Holder
    <3> QED
      BY <1>3, <3>1, <3>2 DEF KeysInv, KeysOk
  <2>9b. ASSUME touches = 0 PROVE above = r.parent
    <3> SUFFICES ASSUME r.parent # NoParent PROVE above = r.parent
      BY <2>2 DEF HangsFrom
    <3>1. r.parent \in DOMAIN u.parents
      BY <1>3, <2>1 DEF CanInsert
    <3>2. /\ \A l1, k \in DOMAIN ids : ids[l1] = ids[k] => l1 = k
          /\ r.parent \in DOMAIN ids /\ ids[r.parent] = u.parents[r.parent]
      BY <1>3, <1>6, <2>9b, <3>1 DEF KeysInv, KeysOk, AtTask
    <3>3. above = (CHOOSE k \in DOMAIN ids : ids[k] = u.parents[r.parent])
      BY <1>3, <2>2 DEF HangsFrom, Holder
    <3> QED
      BY <3>2, <3>3
  <2>10. TablesOk(e)
    <3>1. LegsOk(e.legs)
      <4>1. LegsOk(d.legs)
        BY <1>2, <1>3 DEF TablesOk
      <4> QED
        BY <2>5, <2>6, <4>1 DEF LegsOk
    <3> QED
      BY <1>2, <1>3, <2>4, <2>5, <3>1 DEF TablesOk
  <2>11. Anchored(e)
    <3>1. Anchored(d)
      BY <1>2, <1>3
    <3>2. ASSUME NEW k \in DOMAIN e.legs
          PROVE  /\ e.legs[k].payout \in DOMAIN e.payouts
                 /\ {e.legs[k].from, e.legs[k].to} \subseteq DOMAIN e.accounts
                 /\ e.legs[k].parent = NoParent \/ e.legs[k].parent \in DOMAIN e.legs
      <4>1. CASE k \in DOMAIN d.legs
        BY <2>4, <2>5, <3>1, <4>1 DEF Anchored
      <4>2. CASE k = l
        BY <2>4, <2>5, <2>6, <2>8, <2>9a, <4>2
      <4> QED
        BY <2>5, <4>1, <4>2
    <3> QED
      BY <2>4, <2>5, <3>1, <3>2 DEF Anchored
  <2>12. ASSUME touches = 0 PROVE Faithful(e)
    <3>1. new = NewLeg(Whole[u.row])
      BY <2>2, <2>7, <2>9, <2>9b, <2>12, SheetOfRows DEF NewLeg, LegUnder
    <3>2. l \in DOMAIN Imported(Whole).legs /\ Imported(Whole).legs[l] = new
      BY <1>4, <2>7, <3>1, ImportedLegs
    <3>3. Faithful(d)
      BY <1>2, <1>3, <2>12
    <3>4. \A k \in DOMAIN e.legs : k \in DOMAIN Imported(Whole).legs
                                   /\ e.legs[k] = Imported(Whole).legs[k]
      BY <2>5, <3>2, <3>3 DEF Faithful
    <3> QED
      BY <2>4, <3>3, <3>4 DEF Faithful
  <2>13. \A s, q, t : Written(d, s, q, t) => Written(e, s, q, t)
    BY <2>4, <2>5, WrittenGrows DEF Grows
  <2>14. Written(e, u.sheet, r, Head(u.todo))
    <3>1. r.leg \in DOMAIN e.legs
      BY <1>4, <2>5
    <3> QED
      BY <1>2, <1>3, <3>1, WrittenTask
  <2> QED
    BY <1>1, <1>2, <1>3, <1>6, <1>8, <2>10, <2>11, <2>12, <2>13, <2>14, TaskWritten
<1> QED
  BY <1>9, <1>10

(* A cell of the sheet's, in the currency of the leg that was found. *)
LEMMA FeeStep ==
  ASSUME ImportInv, Fee
  PROVE  ImportInv'
<1>1. Doing("fee") /\ run' = Done /\ touches' = touches
  BY DEF Fee
<1>2. AtTask(run) /\ TablesOk(db) /\ Anchored(db) /\ RunOk(run) /\ LegFound(db, run)
      /\ Sheet = run.sheet /\ Row = run.sheet[run.row] /\ Head(run.todo) = Task("fee", What)
      /\ (touches = 0 => Faithful(db) /\ Progress(db, run)) /\ Head(run.todo).do = "fee"
      /\ What = Head(run.todo).what
  BY <1>1, DoingTask
<1>3. MovesOn(run, run') /\ run'.leg = run.leg
  BY <1>1, <1>2, DoneMovesOn
<1>4. PICK u, v, d, e : u = run /\ v = run' /\ d = db /\ e = db'
  OBVIOUS
<1>5. AtTask(u) /\ MovesOn(u, v)
  BY <1>2, <1>3, <1>4
<1> DEFINE r == u.sheet[u.row]
           cell(x) == CellRow(u.sheet, r, x)
<1>6. PICK fee \in ToSet(FeeColumns) : fee = What
  BY <1>2, <1>4, <1>5, TaskAtHead
<1>7. CASE fee \notin cell(fee).fees
  <2>1. e = d
    BY <1>2, <1>4, <1>6, <1>7 DEF Fee
  <2>2. LegFound(e, v)
    BY <1>2, <1>3, <1>4, <1>5, <2>1, LegFoundMovesOn
  <2>3. Written(e, u.sheet, r, Task("fee", fee))
    BY <1>7, WrittenFee
  <2> QED
    BY <1>1, <1>2, <1>3, <1>4, <1>6, <2>1, <2>2, <2>3, TaskWritten
<1>8. CASE fee \in cell(fee).fees
  <2>1. PICK key : key = <<r.leg, fee>>
    OBVIOUS
  <2>2. PICK row : row = [of |-> cell(fee).leg,
                          currency |-> IF fee \in SourceCurrencyFees THEN u.leg.fromCurrency
                                       ELSE u.leg.toCurrency]
    OBVIOUS
  <2>3. r.leg \in DOMAIN d.legs /\ db' = [db EXCEPT !.fees = With(@, key, row)]
    BY <1>2, <1>4, <1>6, <1>8, <2>1, <2>2 DEF Fee, FeeRow
  <2>4. e = [companies |-> d.companies, accounts |-> d.accounts, payouts |-> d.payouts,
             legs |-> d.legs, fees |-> With(d.fees, key, row),
             documents |-> d.documents, links |-> d.links]
    BY <1>2, <1>4, <2>3 DEF TablesOk
  <2>5. /\ e.companies = d.companies /\ e.accounts = d.accounts /\ e.payouts = d.payouts
        /\ e.legs = d.legs /\ e.fees = With(d.fees, key, row)
        /\ e.documents = d.documents /\ e.links = d.links
        /\ e = [companies |-> e.companies, accounts |-> e.accounts, payouts |-> e.payouts,
                legs |-> e.legs, fees |-> e.fees, documents |-> e.documents, links |-> e.links]
    BY <2>4, <1>2, <1>4, TableFields
  <2>6. /\ IsMap(e.fees) /\ DOMAIN e.fees = DOMAIN d.fees \cup {key} /\ e.fees[key] = row
        /\ \A k \in DOMAIN d.fees : k # key => e.fees[k] = d.fees[k]
    BY <2>5 DEF With, IsMap
  <2>7. key[1] = r.leg /\ key[2] = fee
    BY <2>1
  <2>8. TablesOk(e)
    <3>1. FeesOk(d.fees)
      BY <1>2, <1>4 DEF TablesOk
    <3>2. row = [of |-> row.of, currency |-> row.currency]
      BY <2>2
    <3>3. FeesOk(e.fees)
      BY <2>6, <2>7, <3>1, <3>2 DEF FeesOk
    <3> QED
      BY <1>2, <1>4, <2>5, <2>6, <3>3 DEF TablesOk
  <2>9. Anchored(e)
    <3>1. Anchored(d)
      BY <1>2, <1>4
    <3> QED
      BY <2>3, <2>5, <2>6, <2>7, <3>1 DEF Anchored
  <2>10. LegFound(e, v)
    BY <1>2, <1>3, <1>4, <1>5, <2>5, LegFoundMovesOn
  <2>11. ASSUME touches = 0 PROVE Faithful(e)
    <3>1. Faithful(d)
      BY <1>2, <1>4, <2>11
    <3>2. /\ u.row \in Rows /\ u.sheet \in Sheets /\ u.row \in 1..Len(u.sheet)
          /\ r.leg = Whole[u.row].leg
      BY <1>5, AtRow, SheetOfRows DEF AtTask, RunOk
    <3>3. fee \in CellRow(Whole, Whole[u.row], fee).fees
      BY <1>8, <3>2, CellOfSheet
    <3>4. key \in DOMAIN Imported(Whole).fees
      BY <2>1, <3>2, <3>3, ImportedFees
    <3>5. u.leg = NewLeg(Whole[u.row])
      <4>1. \A i \in 1..Len(u.todo) : u.todo[i].do # "leg"
        <5>1. u.todo \in Seq(Tasks(r)) /\ Ordered(u.todo) /\ u.todo # <<>>
              /\ Head(u.todo).do = "fee"
          BY <1>2, <1>4, <1>5 DEF AtTask, RunOk
        <5> QED
          BY <5>1 DEF Ordered
      <4>2. Imported(Whole).legs[r.leg] = NewLeg(Whole[u.row])
        BY <3>2, ImportedLegs
      <4>3. d.legs[r.leg] = NewLeg(Whole[u.row])
        BY <2>3, <3>1, <4>2 DEF Faithful
      <4>4. NewLeg(Whole[u.row]).amount # "the owner's"
        BY DEF NewLeg, LegUnder
      <4>5. LegFound(d, u) /\ u.step = "running"
        BY <1>2, <1>4 DEF AtTask
      <4> QED
        BY <2>3, <4>1, <4>3, <4>4, <4>5 DEF LegFound
    <3>6. NewLeg(Whole[u.row]).fromCurrency = Whole[u.row].fromCurrency
          /\ NewLeg(Whole[u.row]).toCurrency = Whole[u.row].toCurrency
      BY DEF NewLeg, LegUnder
    <3>7. row.currency = Imported(Whole).fees[key].currency
      <4>1. Imported(Whole).fees[key] =
              [of |-> CellRow(Whole, Whole[u.row], fee).leg,
               currency |-> IF fee \in SourceCurrencyFees THEN Whole[u.row].fromCurrency
                            ELSE Whole[u.row].toCurrency]
        BY <2>1, <3>2, <3>4, ImportedFees
      <4> QED
        BY <2>2, <3>5, <3>6, <4>1
    <3>8. \A k \in DOMAIN e.fees : k \in DOMAIN Imported(Whole).fees
                                   /\ e.fees[k].currency = Imported(Whole).fees[k].currency
      BY <2>6, <3>1, <3>4, <3>7 DEF Faithful
    <3> QED
      BY <2>5, <3>1, <3>8 DEF Faithful
  <2>12. ASSUME NEW i \in 1..u.row, NEW t \in Tasks(u.sheet[i]), Written(d, u.sheet, u.sheet[i], t)
         PROVE  Written(e, u.sheet, u.sheet[i], t)
    <3> DEFINE q == u.sheet[i]
               k == <<q.leg, t.what>>
    <3>1. CASE t.do # "fee"
      BY <2>5, <2>12, <3>1 DEF Written
    <3>2. CASE t.do = "fee"
      <4>1. ASSUME t.what \in CellRow(u.sheet, q, t.what).fees
            PROVE  k \in DOMAIN e.fees /\ e.fees[k].of = CellRow(u.sheet, q, t.what).leg
        <5>1. k \in DOMAIN d.fees /\ d.fees[k].of = CellRow(u.sheet, q, t.what).leg
          BY <2>12, <3>2, <4>1 DEF Written
        <5>2. CASE k = key
          <6>1. q.leg = r.leg /\ t.what = fee
            BY <2>1, <5>2
          <6>2. i = u.row
            BY <1>5, <6>1, AtRow
          <6> QED
            BY <2>2, <2>6, <5>2, <6>1, <6>2
        <5>3. CASE k # key
          BY <2>6, <5>1, <5>3
        <5> QED
          BY <5>2, <5>3
      <4> HIDE DEF q, k
      <4> QED
        BY <3>2, <4>1 DEF Written, q, k
    <3> QED
      BY <3>1, <3>2
  <2>13. Written(e, u.sheet, r, Task("fee", fee))
    <3>1. key \in DOMAIN e.fees /\ e.fees[key].of = cell(fee).leg
      BY <2>2, <2>6
    <3> QED
      BY <2>1, <3>1, WrittenFee
  <2> QED
    BY <1>1, <1>2, <1>3, <1>4, <1>6, <2>8, <2>9, <2>10, <2>11, <2>12, <2>13, TaskWritten
<1> QED
  BY <1>7, <1>8

LEMMA DocumentStep ==
  ASSUME ImportInv, Document
  PROVE  ImportInv'
<1>1. Doing("document") /\ db' = [db EXCEPT !.documents = @ \cup {What}] /\ run' = Done
      /\ touches' = touches
  BY DEF Document
<1>2. AtTask(run) /\ TablesOk(db) /\ Anchored(db) /\ RunOk(run) /\ LegFound(db, run)
      /\ Row = run.sheet[run.row] /\ Head(run.todo) = Task("document", What)
      /\ (touches = 0 => Faithful(db) /\ Progress(db, run)) /\ Head(run.todo).do = "document"
      /\ What = Head(run.todo).what
  BY <1>1, DoingTask
<1>3. MovesOn(run, run') /\ run'.leg = run.leg
  BY <1>1, <1>2, DoneMovesOn
<1>4. PICK u, v, d, e : u = run /\ v = run' /\ d = db /\ e = db'
  OBVIOUS
<1>5. AtTask(u) /\ MovesOn(u, v)
  BY <1>2, <1>3, <1>4
<1>6. PICK doc : doc = What /\ doc \in ToSet(u.sheet[u.row].documents)
  BY <1>2, <1>4, <1>5, TaskAtHead
<1>7. e = [companies |-> d.companies, accounts |-> d.accounts, payouts |-> d.payouts,
           legs |-> d.legs, fees |-> d.fees, documents |-> d.documents \cup {doc},
           links |-> d.links]
  BY <1>1, <1>2, <1>4, <1>6 DEF TablesOk
<1>8. /\ e.companies = d.companies /\ e.accounts = d.accounts
      /\ e.payouts = d.payouts /\ e.legs = d.legs /\ e.fees = d.fees
      /\ e.documents = d.documents \cup {doc} /\ e.links = d.links
      /\ e = [companies |-> e.companies, accounts |-> e.accounts, payouts |-> e.payouts,
              legs |-> e.legs, fees |-> e.fees, documents |-> e.documents, links |-> e.links]
  BY <1>7, <1>2, <1>4, TableFields
<1>9. TablesOk(e) /\ Anchored(e)
  BY <1>2, <1>4, <1>8 DEF TablesOk, Anchored
<1>10. LegFound(e, v)
  BY <1>2, <1>3, <1>4, <1>5, <1>8, LegFoundMovesOn
<1>11. ASSUME touches = 0 PROVE Faithful(e)
  <2>1. u.row \in Rows /\ u.sheet[u.row].documents = Whole[u.row].documents
    BY <1>5, AtRow, SheetOfRows DEF AtTask, RunOk
  <2>2. doc \in Imported(Whole).documents
    BY <1>6, <2>1, ImportedEvidence
  <2> QED
    BY <1>2, <1>4, <1>8, <1>11, <2>2 DEF Faithful
<1>12. \A s, q, t : Written(d, s, q, t) => Written(e, s, q, t)
  BY <1>8, WrittenGrows DEF Grows
<1>13. Written(e, u.sheet, u.sheet[u.row], Task("document", doc))
  BY <1>8, WrittenTask
<1> QED
  BY <1>1, <1>2, <1>3, <1>4, <1>6, <1>9, <1>10, <1>11, <1>12, <1>13, TaskWritten

LEMMA LinkStep ==
  ASSUME ImportInv, Link
  PROVE  ImportInv'
<1>1. Doing("link") /\ What \in db.documents /\ Row.leg \in DOMAIN db.legs
      /\ db' = [db EXCEPT !.links = @ \cup {<<What, Row.leg>>}] /\ run' = Done
      /\ touches' = touches
  BY DEF Link
<1>2. AtTask(run) /\ TablesOk(db) /\ Anchored(db) /\ RunOk(run) /\ LegFound(db, run)
      /\ Row = run.sheet[run.row] /\ Head(run.todo) = Task("link", What)
      /\ (touches = 0 => Faithful(db) /\ Progress(db, run)) /\ Head(run.todo).do = "link"
      /\ What = Head(run.todo).what
  BY <1>1, DoingTask
<1>3. MovesOn(run, run') /\ run'.leg = run.leg
  BY <1>1, <1>2, DoneMovesOn
<1>4. PICK u, v, d, e : u = run /\ v = run' /\ d = db /\ e = db'
  OBVIOUS
<1>5. AtTask(u) /\ MovesOn(u, v)
  BY <1>2, <1>3, <1>4
<1> DEFINE r == u.sheet[u.row]
<1>6. PICK doc : doc = What /\ doc \in ToSet(r.documents)
  BY <1>2, <1>4, <1>5, TaskAtHead
<1>7. PICK link : link = <<doc, r.leg>>
  OBVIOUS
<1>8. e = [companies |-> d.companies, accounts |-> d.accounts, payouts |-> d.payouts,
           legs |-> d.legs, fees |-> d.fees, documents |-> d.documents,
           links |-> d.links \cup {link}]
  BY <1>1, <1>2, <1>4, <1>6, <1>7 DEF TablesOk
<1>9. /\ e.companies = d.companies /\ e.accounts = d.accounts
      /\ e.payouts = d.payouts /\ e.legs = d.legs /\ e.fees = d.fees
      /\ e.documents = d.documents /\ e.links = d.links \cup {link}
      /\ e = [companies |-> e.companies, accounts |-> e.accounts, payouts |-> e.payouts,
              legs |-> e.legs, fees |-> e.fees, documents |-> e.documents, links |-> e.links]
  BY <1>8, <1>2, <1>4, TableFields
<1>10. link[1] \in d.documents /\ link[2] \in DOMAIN d.legs
  BY <1>1, <1>2, <1>4, <1>6, <1>7
<1>11. TablesOk(e) /\ Anchored(e)
  <2>1. TablesOk(e)
    BY <1>2, <1>4, <1>9 DEF TablesOk
  <2>2. Anchored(d)
    BY <1>2, <1>4
  <2>3. Anchored(e)
    BY <1>9, <1>10, <2>2 DEF Anchored
  <2> QED
    BY <2>1, <2>3
<1>12. LegFound(e, v)
  BY <1>2, <1>3, <1>4, <1>5, <1>9, LegFoundMovesOn
<1>13. ASSUME touches = 0 PROVE Faithful(e)
  <2>1. u.row \in Rows /\ r.documents = Whole[u.row].documents /\ r.leg = Whole[u.row].leg
    BY <1>5, AtRow, SheetOfRows DEF AtTask, RunOk
  <2>2. link \in Imported(Whole).links
    BY <1>6, <1>7, <2>1, ImportedEvidence
  <2> QED
    BY <1>2, <1>4, <1>9, <1>13, <2>2 DEF Faithful
<1>14. \A s, q, t : Written(d, s, q, t) => Written(e, s, q, t)
  BY <1>9, WrittenGrows DEF Grows
<1>15. Written(e, u.sheet, r, Task("link", doc))
  BY <1>7, <1>9, WrittenTask
<1> QED
  BY <1>1, <1>2, <1>3, <1>4, <1>6, <1>11, <1>12, <1>13, <1>14, <1>15, TaskWritten

-----------------------------------------------------------------------------
(* A row begun, a run begun, a run stopped *)

LEMMA NextRowStep ==
  ASSUME ImportInv, NextRow
  PROVE  ImportInv'
<1>1. PICK u, v, d : u = run /\ v = run' /\ d = db /\ db' = d
  BY DEF NextRow
<1>2. /\ RunOk(u) /\ u.step = "running" /\ u.todo = <<>> /\ touches' = touches
      /\ TablesOk(d) /\ Anchored(d) /\ LegFound(d, u) /\ touches \in Nat
      /\ touches = 0 => Faithful(d) /\ Progress(d, u)
  BY <1>1 DEF ImportInv, NextRow
<1>3. /\ u.sheet \in Sheets /\ u.row \in 1..Len(u.sheet) /\ Len(u.sheet) \in Nat
      /\ DOMAIN u.parents \subseteq {u.sheet[j].leg : j \in 1..Len(u.sheet)}
      /\ u = [step |-> u.step, sheet |-> u.sheet, row |-> u.row, todo |-> u.todo,
              parents |-> u.parents, leg |-> u.leg]
  BY <1>2, SheetOfRows DEF RunOk, Rows
<1>4. CASE u.row = Len(u.sheet)
  <2>1. v = [u EXCEPT !.step = "finished"]
    BY <1>1, <1>4 DEF NextRow, Sheet
  <2>2. /\ v = [step |-> "finished", sheet |-> u.sheet, row |-> u.row, todo |-> u.todo,
                parents |-> u.parents, leg |-> u.leg]
    BY <1>3, <2>1
  <2>3. /\ v.step = "finished" /\ v.sheet = u.sheet /\ v.row = u.row /\ v.todo = u.todo
        /\ v.parents = u.parents /\ v.leg = u.leg
    BY <2>2
  <2>4. RunOk(v)
    <3>1. v = [step |-> v.step, sheet |-> v.sheet, row |-> v.row, todo |-> v.todo,
               parents |-> v.parents, leg |-> v.leg]
      BY <2>2, <2>3
    <3> QED
      BY <1>2, <1>4, <2>3, <3>1 DEF RunOk
  <2>5. LegFound(d, v)
    BY <2>3 DEF LegFound
  <2>6. Progress(d, u) => Progress(d, v)
    BY <2>3 DEF Progress
  <2> QED
    BY <1>1, <1>2, <2>4, <2>5, <2>6 DEF ImportInv
<1>5. CASE u.row # Len(u.sheet)
  <2> DEFINE r == u.sheet[u.row + 1]
  <2>1. v = [u EXCEPT !.row = u.row + 1, !.todo = Plan(r)]
    BY <1>1, <1>5 DEF NextRow, Sheet
  <2>2. v = [step |-> u.step, sheet |-> u.sheet, row |-> u.row + 1, todo |-> Plan(r),
             parents |-> u.parents, leg |-> u.leg]
    BY <1>3, <2>1
  <2>3. /\ v.step = "running" /\ v.sheet = u.sheet /\ v.row = u.row + 1 /\ v.todo = Plan(r)
        /\ v.parents = u.parents /\ v.leg = u.leg
    BY <1>2, <2>2
  <2>4. u.row + 1 \in 1..Len(u.sheet) /\ u.row \in Nat
    BY <1>3, <1>5
  <2>5. /\ Plan(r) \in Seq(Tasks(r)) /\ Plan(r) # <<>> /\ Ordered(Plan(r))
        /\ \A t \in Tasks(r) : t \in ToSet(Plan(r))
        /\ \E i \in 1..Len(Plan(r)) : Plan(r)[i].do = "leg"
    <3>1. PICK q : q = r
      OBVIOUS
    <3>2. q.documents \in Seq(ToSet(q.documents))
      BY <1>3, <2>4, <3>1, SheetOfRows
    <3> QED
      BY <3>1, <3>2, PlanTasks
  <2>6. RunOk(v)
    <3>1. v = [step |-> v.step, sheet |-> v.sheet, row |-> v.row, todo |-> v.todo,
               parents |-> v.parents, leg |-> v.leg]
      BY <2>2, <2>3
    <3> QED
      BY <1>3, <2>3, <2>4, <2>5, <3>1 DEF RunOk
  <2>7. LegFound(d, v)
    BY <2>3, <2>5 DEF LegFound
  <2>8. ASSUME Progress(d, u) PROVE Progress(d, v)
    <3>1. ASSUME NEW i \in 1..v.row, NEW t \in Tasks(v.sheet[i]), i = v.row => t \notin ToSet(v.todo)
          PROVE  Written(d, v.sheet, v.sheet[i], t)
      <4>1. i \in 1..u.row
        BY <2>3, <2>4, <2>5, <3>1
      <4>2. t \notin ToSet(u.todo)
        BY <1>2 DEF ToSet
      <4> QED
        BY <2>3, <2>8, <3>1, <4>1, <4>2 DEF Progress
    <3> QED
      BY <3>1 DEF Progress
  <2> QED
    BY <1>1, <1>2, <2>6, <2>7, <2>8 DEF ImportInv
<1> QED
  BY <1>4, <1>5

LEMMA StartStep ==
  ASSUME ImportInv, NEW s \in Sheets, Start(s)
  PROVE  ImportInv'
<1>1. PICK v, d : v = run' /\ d = db /\ db' = d
  BY DEF Start
<1>2. /\ touches' = touches /\ TablesOk(d) /\ Anchored(d) /\ touches \in Nat
      /\ touches = 0 => Faithful(d)
  BY <1>1 DEF ImportInv, Start
<1> DEFINE r == s[1]
<1>3. v = [step |-> "running", sheet |-> s, row |-> 1, todo |-> Plan(r), parents |-> <<>>,
           leg |-> <<>>]
  BY <1>1 DEF Start, NotRunning
<1>4. /\ v.step = "running" /\ v.sheet = s /\ v.row = 1 /\ v.todo = Plan(r)
      /\ v.parents = <<>> /\ v.leg = <<>> /\ DOMAIN v.parents = {}
  BY <1>3
<1>5. 1 \in 1..Len(s)
  BY SheetOfRows DEF Rows
<1>6. /\ Plan(r) \in Seq(Tasks(r)) /\ Plan(r) # <<>> /\ Ordered(Plan(r))
      /\ \A t \in Tasks(r) : t \in ToSet(Plan(r))
      /\ \E i \in 1..Len(Plan(r)) : Plan(r)[i].do = "leg"
  BY <1>5, PlanTasks, SheetOfRows
<1>7. RunOk(v)
  <2>1. v = [step |-> v.step, sheet |-> v.sheet, row |-> v.row, todo |-> v.todo,
             parents |-> v.parents, leg |-> v.leg]
    BY <1>3, <1>4
  <2> QED
    BY <1>4, <1>5, <1>6, <2>1 DEF RunOk
<1>8. LegFound(d, v)
  BY <1>4, <1>6 DEF LegFound
<1>9. Progress(d, v)
  BY <1>4, <1>6 DEF Progress
<1> QED
  BY <1>1, <1>2, <1>7, <1>8, <1>9 DEF ImportInv

LEMMA StopStep ==
  ASSUME ImportInv, Stop
  PROVE  ImportInv'
<1>1. PICK v, d : v = run' /\ d = db /\ db' = d /\ v = NotRunning
  BY DEF Stop
<1>2. RunOk(v) /\ LegFound(d, v) /\ v.step = "none"
  BY <1>1 DEF RunOk, LegFound, NotRunning
<1> QED
  BY <1>1, <1>2 DEF ImportInv, Stop

-----------------------------------------------------------------------------
(* The owner, meanwhile *)

(* A leg is as it was, or edited, or gone. *)
LEMMA OwnerStep ==
  ASSUME ImportInv, touches' \in Nat, touches' # 0, run' = run, TablesOk(db'), Anchored(db'),
         \A l \in DOMAIN db'.legs :
           l \in DOMAIN db.legs
           /\ (db'.legs[l] = db.legs[l] \/ db'.legs[l].amount = "the owner's")
  PROVE  ImportInv'
<1>1. PICK u, d, e : u = run /\ run' = u /\ d = db /\ e = db'
  OBVIOUS
<1>2. RunOk(u) /\ LegFound(d, u) /\ touches \in Nat
  BY <1>1 DEF ImportInv
<1>3. LegFound(e, u)
  BY <1>1, <1>2 DEF LegFound
<1>4. RunOk(run') /\ LegFound(db', run')
  BY <1>1, <1>2, <1>3
<1> QED
  BY <1>4 DEF ImportInv

LEMMA TouchSteps ==
  ASSUME ImportInv, Touch PROVE touches' \in Nat /\ touches' # 0 /\ run' = run
BY DEF Touch, ImportInv

LEMMA OwnerEditsStep ==
  ASSUME ImportInv, OwnerEditsLeg
  PROVE  ImportInv'
<1>1. PICK d, e : d = db /\ e = db'
  OBVIOUS
<1>2. TablesOk(d) /\ Anchored(d)
  BY <1>1 DEF ImportInv
<1>3. PICK l \in DOMAIN d.legs : \E c :
        e = [d EXCEPT !.legs[l].toCurrency = c, !.legs[l].amount = "the owner's"]
  BY <1>1 DEF OwnerEditsLeg
<1>4. PICK c : e = [d EXCEPT !.legs[l].toCurrency = c, !.legs[l].amount = "the owner's"]
  BY <1>3
<1>0. PICK old : old = d.legs[l]
  OBVIOUS
<1> DEFINE new == [payout |-> old.payout, parent |-> old.parent, from |-> old.from,
                   to |-> old.to, fromCurrency |-> old.fromCurrency, toCurrency |-> c,
                   amount |-> "the owner's"]
           rows == [k \in DOMAIN d.legs |-> IF k = l THEN new ELSE d.legs[k]]
<1>5. old = [payout |-> old.payout, parent |-> old.parent, from |-> old.from,
             to |-> old.to, fromCurrency |-> old.fromCurrency, toCurrency |-> old.toCurrency,
             amount |-> old.amount]
  BY <1>0, <1>2 DEF TablesOk, LegsOk, IsLegRow
<1>6. [[old EXCEPT !.toCurrency = c] EXCEPT !.amount = "the owner's"] = new
  <2>1. PICK mid : mid = [old EXCEPT !.toCurrency = c]
    OBVIOUS
  <2>2. mid = [payout |-> old.payout, parent |-> old.parent, from |-> old.from,
               to |-> old.to, fromCurrency |-> old.fromCurrency, toCurrency |-> c,
               amount |-> old.amount]
    BY <1>5, <2>1
  <2>3. \A own : [mid EXCEPT !.amount = own] =
          [payout |-> old.payout, parent |-> old.parent, from |-> old.from,
           to |-> old.to, fromCurrency |-> old.fromCurrency, toCurrency |-> c,
           amount |-> own]
    BY <2>2
  <2> HIDE DEF new
  <2>4. [mid EXCEPT !.amount = "the owner's"] = new
    BY <2>3 DEF new
  <2> QED
    BY <2>1, <2>4
<1>7. e = [companies |-> d.companies, accounts |-> d.accounts, payouts |-> d.payouts,
           legs |-> rows, fees |-> d.fees, documents |-> d.documents, links |-> d.links]
  <2>1. e = [d EXCEPT !.legs = [[d.legs EXCEPT ![l].toCurrency = c] EXCEPT ![l].amount = "the owner's"]]
    BY <1>2, <1>4 DEF TablesOk
  <2>2. [[d.legs EXCEPT ![l].toCurrency = c] EXCEPT ![l].amount = "the owner's"] = rows
    BY <1>0, <1>5, <1>6
  <2> QED
    BY <1>2, <2>1, <2>2 DEF TablesOk
<1>8. /\ new.payout = old.payout /\ new.parent = old.parent /\ new.from = old.from
      /\ new.to = old.to /\ new.amount = "the owner's" /\ IsLegRow(new)
  BY DEF IsLegRow
<1>9. /\ IsMap(rows) /\ DOMAIN rows = DOMAIN d.legs /\ rows[l] = new
      /\ \A k \in DOMAIN d.legs : k # l => rows[k] = d.legs[k]
  BY DEF IsMap
<1> HIDE DEF new, rows
<1>10. /\ e.companies = d.companies /\ e.accounts = d.accounts /\ e.payouts = d.payouts
       /\ e.legs = rows /\ e.fees = d.fees /\ e.documents = d.documents /\ e.links = d.links
       /\ e = [companies |-> e.companies, accounts |-> e.accounts, payouts |-> e.payouts,
               legs |-> e.legs, fees |-> e.fees, documents |-> e.documents, links |-> e.links]
  BY <1>7, <1>2, TableFields
<1>11. LegsOk(e.legs)
  <2>1. LegsOk(d.legs)
    BY <1>2 DEF TablesOk
  <2> QED
    BY <1>8, <1>9, <1>10, <2>1 DEF LegsOk
<1>12. TablesOk(e)
  BY <1>2, <1>9, <1>10, <1>11 DEF TablesOk
<1>13. Anchored(e)
  <2>1. \A k \in DOMAIN rows :
          /\ rows[k].payout = d.legs[k].payout /\ rows[k].parent = d.legs[k].parent
          /\ rows[k].from = d.legs[k].from /\ rows[k].to = d.legs[k].to
    BY <1>0, <1>8, <1>9
  <2> QED
    BY <1>2, <1>9, <1>10, <2>1 DEF Anchored
<1>14. \A k \in DOMAIN e.legs :
         k \in DOMAIN d.legs /\ (e.legs[k] = d.legs[k] \/ e.legs[k].amount = "the owner's")
  BY <1>8, <1>9, <1>10
<1> QED
  BY <1>1, <1>12, <1>13, <1>14, OwnerStep, TouchSteps DEF OwnerEditsLeg

(* Rows that are kept keep what they hang from. *)
KeptRows(d, e) ==
  /\ e = [companies |-> e.companies, accounts |-> e.accounts, payouts |-> e.payouts,
          legs |-> e.legs, fees |-> e.fees, documents |-> e.documents, links |-> e.links]
  /\ IsMap(e.accounts) /\ IsMap(e.payouts) /\ IsMap(e.legs) /\ IsMap(e.fees)
  /\ \A a \in DOMAIN e.accounts : e.accounts[a] # {}
  /\ \A l \in DOMAIN e.legs : l \in DOMAIN d.legs /\ e.legs[l] = d.legs[l]
  /\ \A k \in DOMAIN e.fees : k \in DOMAIN d.fees /\ e.fees[k] = d.fees[k]

LEMMA KeptTables ==
  ASSUME NEW d, NEW e, TablesOk(d), KeptRows(d, e)
  PROVE  TablesOk(e)
<1>1. LegsOk(e.legs)
  BY DEF TablesOk, KeptRows, LegsOk
<1>2. FeesOk(e.fees)
  BY DEF TablesOk, KeptRows, FeesOk
<1> QED
  BY <1>1, <1>2 DEF TablesOk, KeptRows

LEMMA OwnerDrops ==
  ASSUME ImportInv, Touch, KeptRows(db, db'), Anchored(db')
  PROVE  ImportInv'
<1>1. PICK d, e : d = db /\ e = db'
  OBVIOUS
<1>2. TablesOk(e)
  BY <1>1, KeptTables DEF ImportInv
<1>3. \A l \in DOMAIN e.legs : l \in DOMAIN d.legs /\ e.legs[l] = d.legs[l]
  BY <1>1 DEF KeptRows
<1> QED
  BY <1>1, <1>2, <1>3, OwnerStep, TouchSteps

(* What stays of the tables when only these legs do. *)
LEMMA KeptFields ==
  ASSUME ImportInv, NEW rows, NEW e, rows \subseteq DOMAIN db.legs, e = Kept(rows)
  PROVE  /\ e.companies = db.companies /\ e.accounts = db.accounts /\ e.payouts = db.payouts
         /\ DOMAIN e.legs = rows /\ IsMap(e.legs)
         /\ \A l \in DOMAIN e.legs : e.legs[l] = db.legs[l]
         /\ DOMAIN e.fees = {k \in DOMAIN db.fees : k[1] \in rows} /\ IsMap(e.fees)
         /\ \A k \in DOMAIN e.fees : e.fees[k] = db.fees[k]
         /\ e.documents = db.documents /\ e.links = {k \in db.links : k[2] \in rows}
         /\ e = [companies |-> e.companies, accounts |-> e.accounts, payouts |-> e.payouts,
                 legs |-> e.legs, fees |-> e.fees, documents |-> e.documents, links |-> e.links]
         /\ KeptRows(db, e)
<1>1. PICK d : d = db
  OBVIOUS
<1>2. TablesOk(d)
  BY <1>1 DEF ImportInv
<1> DEFINE ls == Restrict(d.legs, rows)
           fs == Restrict(d.fees, {k \in DOMAIN d.fees : k[1] \in rows})
           ks == {k \in d.links : k[2] \in rows}
<1>3. e = [companies |-> d.companies, accounts |-> d.accounts, payouts |-> d.payouts,
           legs |-> ls, fees |-> fs, documents |-> d.documents, links |-> ks]
  BY <1>1, <1>2 DEF Kept, TablesOk
<1>4. /\ DOMAIN ls = rows /\ IsMap(ls)
      /\ \A l \in DOMAIN ls : ls[l] = d.legs[l]
      /\ DOMAIN fs = {k \in DOMAIN d.fees : k[1] \in rows} /\ IsMap(fs)
      /\ \A k \in DOMAIN fs : fs[k] = d.fees[k]
  BY DEF Restrict, IsMap
<1> HIDE DEF ls, fs, ks
<1>5. /\ e.companies = d.companies /\ e.accounts = d.accounts /\ e.payouts = d.payouts
      /\ e.legs = ls /\ e.fees = fs /\ e.documents = d.documents /\ e.links = ks
      /\ e = [companies |-> e.companies, accounts |-> e.accounts, payouts |-> e.payouts,
              legs |-> e.legs, fees |-> e.fees, documents |-> e.documents, links |-> e.links]
  BY <1>3, <1>2, TableFields
<1>6. KeptRows(d, e)
  BY <1>1, <1>2, <1>4, <1>5 DEF KeptRows, TablesOk
<1> QED
  BY <1>1, <1>4, <1>5, <1>6 DEF ks

LEMMA OwnerDeletesLegStep ==
  ASSUME ImportInv, OwnerDeletesLeg
  PROVE  ImportInv'
<1>1. PICK d, e : d = db /\ e = db'
  OBVIOUS
<1>2. TablesOk(d) /\ Anchored(d)
  BY <1>1 DEF ImportInv
<1>3. PICK l \in DOMAIN d.legs, doomed \in SUBSET DOMAIN d.legs :
        /\ \A k \in DOMAIN d.legs : k \in doomed <=> k = l \/ d.legs[k].parent \in doomed
        /\ e = Kept(DOMAIN d.legs \ doomed)
  BY <1>1 DEF OwnerDeletesLeg
<1>4. PICK rows : rows = DOMAIN d.legs \ doomed
  OBVIOUS
<1>5. /\ e.companies = d.companies /\ e.accounts = d.accounts /\ e.payouts = d.payouts
      /\ DOMAIN e.legs = rows /\ \A k \in DOMAIN e.legs : e.legs[k] = d.legs[k]
      /\ DOMAIN e.fees = {k \in DOMAIN d.fees : k[1] \in rows}
      /\ e.documents = d.documents /\ e.links = {k \in d.links : k[2] \in rows}
      /\ KeptRows(d, e)
  BY <1>1, <1>3, <1>4, KeptFields
<1>6. \A k \in rows : d.legs[k].parent \in DOMAIN d.legs => d.legs[k].parent \in rows
  BY <1>3, <1>4
<1>7. Anchored(e)
  <2>1. ASSUME NEW k \in DOMAIN e.legs
        PROVE  /\ e.legs[k].payout \in DOMAIN e.payouts
               /\ {e.legs[k].from, e.legs[k].to} \subseteq DOMAIN e.accounts
               /\ e.legs[k].parent = NoParent \/ e.legs[k].parent \in DOMAIN e.legs
    BY <1>2, <1>4, <1>5, <1>6 DEF Anchored
  <2> QED
    BY <1>2, <1>5, <2>1 DEF Anchored
<1> QED
  BY <1>1, <1>5, <1>7, OwnerDrops DEF OwnerDeletesLeg

LEMMA OwnerDeletesPayoutStep ==
  ASSUME ImportInv, OwnerDeletesPayout
  PROVE  ImportInv'
<1>1. PICK d, e : d = db /\ e = db'
  OBVIOUS
<1>2. TablesOk(d) /\ Anchored(d)
  BY <1>1 DEF ImportInv
<1> DEFINE of(p) == {l \in DOMAIN d.legs : d.legs[l].payout = p}
<1>3. PICK p \in DOMAIN d.payouts :
        /\ \A l \in DOMAIN d.legs : d.legs[l].parent \in of(p) => l \in of(p)
        /\ e = [Kept(DOMAIN d.legs \ of(p)) EXCEPT !.payouts = Restrict(@, DOMAIN @ \ {p})]
  BY <1>1 DEF OwnerDeletesPayout
<1>4. PICK rows, k : rows = DOMAIN d.legs \ of(p) /\ k = Kept(rows)
  OBVIOUS
<1>5. /\ k.companies = d.companies /\ k.accounts = d.accounts /\ k.payouts = d.payouts
      /\ DOMAIN k.legs = rows /\ \A l \in DOMAIN k.legs : k.legs[l] = d.legs[l]
      /\ DOMAIN k.fees = {x \in DOMAIN d.fees : x[1] \in rows}
      /\ k.documents = d.documents /\ k.links = {x \in d.links : x[2] \in rows}
      /\ k = [companies |-> k.companies, accounts |-> k.accounts, payouts |-> k.payouts,
              legs |-> k.legs, fees |-> k.fees, documents |-> k.documents, links |-> k.links]
      /\ KeptRows(d, k)
  BY <1>1, <1>4, KeptFields
<1>6. PICK others : others = Restrict(k.payouts, DOMAIN k.payouts \ {p})
  OBVIOUS
<1>7. IsMap(others) /\ DOMAIN others = DOMAIN d.payouts \ {p}
  BY <1>5, <1>6 DEF Restrict, IsMap
<1>8. e = [companies |-> k.companies, accounts |-> k.accounts, payouts |-> others,
           legs |-> k.legs, fees |-> k.fees, documents |-> k.documents, links |-> k.links]
  BY <1>3, <1>4, <1>5, <1>6
<1>9. /\ e.companies = k.companies /\ e.accounts = k.accounts /\ e.payouts = others
      /\ e.legs = k.legs /\ e.fees = k.fees /\ e.documents = k.documents /\ e.links = k.links
      /\ e = [companies |-> e.companies, accounts |-> e.accounts, payouts |-> e.payouts,
              legs |-> e.legs, fees |-> e.fees, documents |-> e.documents, links |-> e.links]
  BY <1>8, <1>2, TableFields
<1>10. KeptRows(d, e)
  BY <1>5, <1>7, <1>9 DEF KeptRows
<1>11. Anchored(e)
  <2>1. ASSUME NEW l \in DOMAIN e.legs
        PROVE  /\ e.legs[l].payout \in DOMAIN e.payouts
               /\ {e.legs[l].from, e.legs[l].to} \subseteq DOMAIN e.accounts
               /\ e.legs[l].parent = NoParent \/ e.legs[l].parent \in DOMAIN e.legs
    <3>1. l \in rows /\ e.legs[l] = d.legs[l] /\ l \in DOMAIN d.legs /\ d.legs[l].payout # p
      BY <1>4, <1>5, <1>9
    <3>2. ASSUME d.legs[l].parent # NoParent
          PROVE  d.legs[l].parent \in DOMAIN e.legs
      <4>1. d.legs[l].parent \in DOMAIN d.legs
        BY <1>2, <3>1, <3>2 DEF Anchored
      <4>2. d.legs[l].parent \in rows
        BY <1>3, <1>4, <3>1, <4>1
      <4> QED
        BY <1>5, <1>9, <4>2
    <3> QED
      BY <1>2, <1>5, <1>7, <1>9, <3>1, <3>2 DEF Anchored
  <2> QED
    BY <1>2, <1>5, <1>9, <2>1 DEF Anchored
<1> QED
  BY <1>1, <1>10, <1>11, OwnerDrops DEF OwnerDeletesPayout

LEMMA OwnerNarrowsAccountStep ==
  ASSUME ImportInv, OwnerNarrowsAccount
  PROVE  ImportInv'
<1>1. PICK d, e : d = db /\ e = db'
  OBVIOUS
<1>2. TablesOk(d) /\ Anchored(d)
  BY <1>1 DEF ImportInv
<1>2a. PICK a \in DOMAIN d.accounts : \E c \in d.accounts[a] :
        d.accounts[a] # {c} /\ e = [d EXCEPT !.accounts[a] = @ \ {c}]
  BY <1>1 DEF OwnerNarrowsAccount
<1>3. PICK c \in d.accounts[a] :
        d.accounts[a] # {c} /\ e = [d EXCEPT !.accounts[a] = @ \ {c}]
  BY <1>2a
<1>4. PICK held : held = [d.accounts EXCEPT ![a] = @ \ {c}]
  OBVIOUS
<1>5. /\ IsMap(held) /\ DOMAIN held = DOMAIN d.accounts
      /\ \A b \in DOMAIN held : held[b] # {}
  BY <1>2, <1>3, <1>4 DEF TablesOk, IsMap
<1>6. e = [companies |-> d.companies, accounts |-> held, payouts |-> d.payouts,
           legs |-> d.legs, fees |-> d.fees, documents |-> d.documents, links |-> d.links]
  BY <1>2, <1>3, <1>4 DEF TablesOk
<1>7. /\ e.companies = d.companies /\ e.accounts = held /\ e.payouts = d.payouts
      /\ e.legs = d.legs /\ e.fees = d.fees /\ e.documents = d.documents /\ e.links = d.links
      /\ e = [companies |-> e.companies, accounts |-> e.accounts, payouts |-> e.payouts,
              legs |-> e.legs, fees |-> e.fees, documents |-> e.documents, links |-> e.links]
  BY <1>6, <1>2, TableFields
<1>8. KeptRows(d, e)
  BY <1>2, <1>5, <1>7 DEF KeptRows, TablesOk
<1>9. Anchored(e)
  BY <1>2, <1>5, <1>7 DEF Anchored
<1> QED
  BY <1>1, <1>8, <1>9, OwnerDrops DEF OwnerNarrowsAccount

LEMMA OwnerDeletesAccountStep ==
  ASSUME ImportInv, OwnerDeletesAccount
  PROVE  ImportInv'
<1>1. PICK d, e : d = db /\ e = db'
  OBVIOUS
<1>2. TablesOk(d) /\ Anchored(d)
  BY <1>1 DEF ImportInv
<1>3. PICK a \in DOMAIN d.accounts :
        /\ \A l \in DOMAIN d.legs : a \notin {d.legs[l].from, d.legs[l].to}
        /\ e = [d EXCEPT !.accounts = Restrict(@, DOMAIN @ \ {a})]
  BY <1>1 DEF OwnerDeletesAccount
<1>4. PICK held : held = Restrict(d.accounts, DOMAIN d.accounts \ {a})
  OBVIOUS
<1>5. /\ IsMap(held) /\ DOMAIN held = DOMAIN d.accounts \ {a}
      /\ \A b \in DOMAIN held : held[b] # {}
  BY <1>2, <1>4 DEF TablesOk, IsMap, Restrict
<1>6. e = [companies |-> d.companies, accounts |-> held, payouts |-> d.payouts,
           legs |-> d.legs, fees |-> d.fees, documents |-> d.documents, links |-> d.links]
  BY <1>2, <1>3, <1>4 DEF TablesOk
<1>7. /\ e.companies = d.companies /\ e.accounts = held /\ e.payouts = d.payouts
      /\ e.legs = d.legs /\ e.fees = d.fees /\ e.documents = d.documents /\ e.links = d.links
      /\ e = [companies |-> e.companies, accounts |-> e.accounts, payouts |-> e.payouts,
              legs |-> e.legs, fees |-> e.fees, documents |-> e.documents, links |-> e.links]
  BY <1>6, <1>2, TableFields
<1>8. KeptRows(d, e)
  BY <1>2, <1>5, <1>7 DEF KeptRows, TablesOk
<1>9. Anchored(e)
  BY <1>2, <1>3, <1>5, <1>7 DEF Anchored
<1> QED
  BY <1>1, <1>8, <1>9, OwnerDrops DEF OwnerDeletesAccount

LEMMA OwnerDeletesDocumentStep ==
  ASSUME ImportInv, OwnerDeletesDocument
  PROVE  ImportInv'
<1>1. PICK d, e : d = db /\ e = db'
  OBVIOUS
<1>2. TablesOk(d) /\ Anchored(d)
  BY <1>1 DEF ImportInv
<1>3. PICK doc \in d.documents :
        e = [d EXCEPT !.documents = @ \ {doc}, !.links = {k \in @ : k[1] # doc}]
  BY <1>1 DEF OwnerDeletesDocument
<1>4. PICK documents, links :
        documents = d.documents \ {doc} /\ links = {k \in d.links : k[1] # doc}
  OBVIOUS
<1>5. e = [companies |-> d.companies, accounts |-> d.accounts, payouts |-> d.payouts,
           legs |-> d.legs, fees |-> d.fees, documents |-> documents, links |-> links]
  BY <1>2, <1>3, <1>4 DEF TablesOk
<1>6. /\ e.companies = d.companies /\ e.accounts = d.accounts /\ e.payouts = d.payouts
      /\ e.legs = d.legs /\ e.fees = d.fees /\ e.documents = documents /\ e.links = links
      /\ e = [companies |-> e.companies, accounts |-> e.accounts, payouts |-> e.payouts,
              legs |-> e.legs, fees |-> e.fees, documents |-> e.documents, links |-> e.links]
  BY <1>5, <1>2, TableFields
<1>7. KeptRows(d, e)
  BY <1>2, <1>6 DEF KeptRows, TablesOk
<1>8. Anchored(e)
  BY <1>2, <1>4, <1>6 DEF Anchored
<1> QED
  BY <1>1, <1>7, <1>8, OwnerDrops DEF OwnerDeletesDocument

-----------------------------------------------------------------------------
(* Row ids, remembered and handed out again *)

(* No leg written or taken away, and nothing remembered. *)
LEMMA KeysAlone ==
  ASSUME KeysInv, ids' = ids, deleted' = deleted, touches' = 0 => touches = 0,
         DOMAIN db'.legs = DOMAIN db.legs,
         \A l \in DOMAIN db.legs : db'.legs[l].parent = db.legs[l].parent,
         run'.step = "running" =>
           \/ DOMAIN run'.parents = {}
           \/ run.step = "running" /\ run'.parents = run.parents
  PROVE  KeysInv'
<1>1. KeysOk(db', ids', run', deleted')
  BY DEF KeysInv, KeysOk
<1>2. HungOk(db', ids', deleted')
  BY DEF KeysInv, HungOk
<1> QED
  BY <1>1, <1>2 DEF KeysInv

LEMMA KeysTask ==
  ASSUME ImportInv, KeysInv, Importing, ~Transaction
  PROVE  KeysInv'
<1>1. PICK d, e, u, v : d = db /\ e = db' /\ u = run /\ v = run'
  OBVIOUS
<1>2. TablesOk(d) /\ RunOk(u)
  BY <1>1 DEF ImportInv
<1>3. ids' = ids /\ deleted' = deleted /\ touches' = touches
  BY DEF Importing, Company, Payout, AccountMet, Fee, Document, Link, NextRow
<1>4. e.legs = d.legs
  <2>1. CASE e = d
    BY <2>1
  <2>2. CASE Company \/ Payout \/ AccountMet
    BY <1>1, <1>2, <2>2 DEF Company, Payout, AccountMet, TablesOk
  <2>3. CASE Fee \/ Document \/ Link
    BY <1>1, <1>2, <2>3 DEF Fee, Document, Link, TablesOk
  <2> QED
    BY <1>1, <2>1, <2>2, <2>3 DEF Importing, NextRow
<1>5. v.parents = u.parents /\ u.step = "running"
  <2>1. CASE NextRow
    BY <1>1, <1>2, <2>1 DEF NextRow, RunOk
  <2>2. CASE ~NextRow
    <3>1. v = [u EXCEPT !.todo = Tail(@)] /\ u.step = "running"
      BY <1>1, <2>2 DEF Importing, Company, Payout, AccountMet, Fee, Document, Link, Done, Doing
    <3> QED
      BY <1>2, <3>1 DEF RunOk
  <2> QED
    BY <2>1, <2>2
<1> QED
  BY <1>1, <1>3, <1>4, <1>5, KeysAlone

LEMMA KeysStartStop ==
  ASSUME KeysInv, Stop \/ \E s \in Sheets : Start(s)
  PROVE  KeysInv'
<1>1. db' = db /\ ids' = ids /\ deleted' = deleted /\ touches' = touches
  BY DEF Stop, Start
<1>2. run'.step = "running" => DOMAIN run'.parents = {}
  <2>1. CASE Stop
    BY <2>1 DEF Stop, NotRunning
  <2>2. CASE \E s \in Sheets : Start(s)
    <3>1. PICK s \in Sheets : Start(s)
      BY <2>2
    <3>2. PICK v : v = run' /\ v = [step |-> "running", sheet |-> s, row |-> 1,
                                   todo |-> Plan(s[1]), parents |-> <<>>, leg |-> <<>>]
      BY <3>1 DEF Start, NotRunning
    <3>3. v.parents = <<>>
      BY <3>2
    <3>4. DOMAIN v.parents = {}
      BY <3>3
    <3> QED
      BY <3>2, <3>4
  <2> QED
    BY <2>1, <2>2
<1>3. KeysOk(db', ids', run', deleted')
  BY <1>1, <1>2 DEF KeysInv, KeysOk
<1>4. HungOk(db', ids', deleted')
  BY <1>1 DEF KeysInv, HungOk
<1> QED
  BY <1>1, <1>3, <1>4 DEF KeysInv

LEMMA KeysLeg ==
  ASSUME ImportInv, KeysInv, Transaction
  PROVE  KeysInv'
<1>1. Doing("leg") /\ touches' = touches /\ deleted' = deleted
      /\ run' = [Done EXCEPT !.leg = db'.legs[What], !.parents = With(@, What, ids'[What])]
  BY DEF Transaction, LegKept
<1>2. AtTask(run) /\ TablesOk(db) /\ RunOk(run) /\ Row = run.sheet[run.row]
      /\ Head(run.todo).do = "leg" /\ What = Head(run.todo).what
  BY <1>1, DoingTask
<1>3. PICK u, v, d, e, i, j, gone : u = run /\ v = run' /\ d = db /\ e = db'
                                  /\ i = ids /\ j = ids' /\ gone = deleted
  OBVIOUS
<1> DEFINE r == u.sheet[u.row]
<1>4. PICK l : l = What /\ l = r.leg
  BY <1>2, <1>3, TaskAtHead
<1>5. KeysOk(d, i, u, gone) /\ HungOk(d, i, gone) /\ u.step = "running"
  BY <1>2, <1>3 DEF KeysInv, AtTask
<1>6. PICK parents : parents = With(u.parents, l, j[l])
  OBVIOUS
<1>7. v.parents = parents
  <2>1. Done = [step |-> u.step, sheet |-> u.sheet, row |-> u.row, todo |-> Tail(u.todo),
                parents |-> u.parents, leg |-> u.leg]
    <3>1. Done = [u EXCEPT !.todo = Tail(@)]
      BY <1>3 DEF Done
    <3>2. u = [step |-> u.step, sheet |-> u.sheet, row |-> u.row, todo |-> u.todo,
               parents |-> u.parents, leg |-> u.leg]
      BY <1>2, <1>3 DEF RunOk
    <3> QED
      BY <3>1, <3>2
  <2> QED
    BY <1>1, <1>3, <1>4, <1>6, <2>1
<1>8. CASE l \in DOMAIN d.legs
  <2>1. e = d /\ j = i
    BY <1>3, <1>4, <1>8 DEF Transaction
  <2>2. \A c \in DOMAIN parents : c \in gone \/ (c \in DOMAIN i /\ i[c] = parents[c])
    BY <1>5, <1>6, <1>8, <2>1 DEF KeysOk, With
  <2>3. KeysOk(e, j, v, gone) /\ HungOk(e, j, gone)
    BY <1>5, <1>7, <2>1, <2>2 DEF KeysOk
  <2> QED
    BY <1>1, <1>3, <2>3 DEF KeysInv
<1>9. CASE l \notin DOMAIN d.legs
  <2>1. /\ CanInsert(r) /\ \E id \in IdsFree : j = With(i, l, id)
        /\ db' = [db EXCEPT !.legs = With(@, l, LegUnder(r, HangsFrom(r)))]
    BY <1>2, <1>3, <1>4, <1>9 DEF Transaction, LegWritten
  <2>2. PICK id \in IdsFree : j = With(i, l, id)
    BY <2>1
  <2>3. id \in Nat \ {0} /\ \A k \in DOMAIN i : i[k] < id
    <3>1. \A k \in DOMAIN i : i[k] \in Nat
      BY <1>5 DEF KeysOk
    <3>2. id \in {1} \cup {i[k] + 1 : k \in DOMAIN i} /\ \A k \in DOMAIN i : i[k] < id
      BY <1>3, <2>2 DEF IdsFree
    <3> QED
      BY <3>1, <3>2
  <2>4. PICK new, above : above = HangsFrom(r) /\ new = LegUnder(r, above) /\ new.parent = above
    <3>1. \A above : LegUnder(r, above).parent = above
      BY DEF LegUnder
    <3> QED
      BY <3>1
  <2>5. e.legs = With(d.legs, l, new)
    BY <1>2, <1>3, <2>1, <2>4 DEF TablesOk
  <2>6. /\ DOMAIN e.legs = DOMAIN d.legs \cup {l} /\ e.legs[l] = new
        /\ \A k \in DOMAIN d.legs : e.legs[k] = d.legs[k]
    BY <1>9, <2>5 DEF With
  <2>7. /\ DOMAIN j = DOMAIN i \cup {l} /\ j[l] = id /\ l \notin DOMAIN i
        /\ \A k \in DOMAIN i : j[k] = i[k]
    BY <1>5, <1>9, <2>2 DEF With, KeysOk
  <2>8. \A c \in DOMAIN parents : c \in gone \/ (c \in DOMAIN j /\ j[c] = parents[c])
    BY <1>5, <1>6, <2>7 DEF KeysOk, With
  <2>9. KeysOk(e, j, v, gone)
    <3>1. DOMAIN j = DOMAIN e.legs /\ \A k \in DOMAIN j : j[k] \in Nat \ {0}
      BY <1>5, <2>3, <2>6, <2>7 DEF KeysOk
    <3>2. ASSUME NEW k \in DOMAIN j, NEW m \in DOMAIN j, j[k] = j[m] PROVE k = m
      <4>1. \A x, y \in DOMAIN i : i[x] = i[y] => x = y
        BY <1>5 DEF KeysOk
      <4>2. \A x \in DOMAIN i : i[x] \in Nat /\ i[x] # id
        BY <1>5, <2>3 DEF KeysOk
      <4> QED
        BY <2>7, <3>2, <4>1, <4>2
    <3> QED
      BY <1>7, <2>8, <3>1, <3>2 DEF KeysOk
  <2>10. \/ above = NoParent
         \/ above \in DOMAIN i /\ i[above] < id
    <3> SUFFICES ASSUME r.parent # NoParent PROVE above \in DOMAIN i
      BY <2>3, <2>4 DEF HangsFrom
    <3>1. \E k \in DOMAIN i : i[k] = u.parents[r.parent]
      BY <1>3, <2>1 DEF CanInsert
    <3>2. above = (CHOOSE k \in DOMAIN i : i[k] = u.parents[r.parent])
      BY <1>3, <2>4 DEF HangsFrom, Holder
    <3> QED
      BY <3>1, <3>2
  <2>11. r.parent # NoParent => r.parent \in DOMAIN u.parents
    BY <1>3, <2>1 DEF CanInsert
  <2>12. r.parent = RowFor(Whole, l).parent
    <3>1. /\ u.row \in Rows /\ u.sheet \in Sheets /\ u.row \in 1..Len(u.sheet)
          /\ DOMAIN u.parents \subseteq {u.sheet[k].leg : k \in 1..Len(u.sheet)}
          /\ r.leg = Whole[u.row].leg
      BY <1>2, <1>3, AtRow, SheetOfRows DEF AtTask, RunOk
    <3>2. r.parent = Whole[u.row].parent
      BY <2>11, <3>1, SheetOfRows
    <3>3. RowFor(Whole, l) = Whole[u.row]
      BY <1>4, <3>1, RowOfLeg
    <3> QED
      BY <3>2, <3>3
  <2>13. above = r.parent \/ r.parent \in gone
    <3> SUFFICES ASSUME r.parent # NoParent, r.parent \notin gone PROVE above = r.parent
      BY <2>4 DEF HangsFrom
    <3>1. /\ \A x, k \in DOMAIN i : i[x] = i[k] => x = k
          /\ r.parent \in DOMAIN i /\ i[r.parent] = u.parents[r.parent]
      BY <1>5, <2>11 DEF KeysOk
    <3>2. above = (CHOOSE k \in DOMAIN i : i[k] = u.parents[r.parent])
      BY <1>3, <2>4 DEF HangsFrom, Holder
    <3> QED
      BY <3>1, <3>2
  <2>14. HungOk(e, j, gone)
    <3>1. ASSUME NEW k \in DOMAIN e.legs
          PROVE  /\ \/ e.legs[k].parent = NoParent
                    \/ e.legs[k].parent \in DOMAIN j /\ j[e.legs[k].parent] < j[k]
                 /\ e.legs[k].parent = RowFor(Whole, k).parent \/ RowFor(Whole, k).parent \in gone
      <4>1. CASE k = l
        BY <2>4, <2>6, <2>7, <2>10, <2>12, <2>13, <4>1
      <4>2. CASE k \in DOMAIN d.legs
        <5>1. DOMAIN i = DOMAIN d.legs
          BY <1>5 DEF KeysOk
        <5> QED
          BY <1>5, <2>6, <2>7, <4>2, <5>1 DEF HungOk
      <4> QED
        BY <2>6, <4>1, <4>2
    <3> QED
      BY <3>1 DEF HungOk
  <2> QED
    BY <1>1, <1>3, <1>5, <2>9, <2>14 DEF KeysInv
<1> QED
  BY <1>8, <1>9

LEMMA KeysEdited ==
  ASSUME ImportInv, KeysInv, OwnerEditsLeg
  PROVE  KeysInv'
<1>1. PICK d, e : d = db /\ e = db'
  OBVIOUS
<1>2. PICK l, c :
        /\ l \in DOMAIN d.legs
        /\ e = [d EXCEPT !.legs[l].toCurrency = c, !.legs[l].amount = "the owner's"]
  BY <1>1 DEF OwnerEditsLeg
<1>3. TablesOk(d)
  BY <1>1 DEF ImportInv
<1>4. e.legs = [[d.legs EXCEPT ![l].toCurrency = c] EXCEPT ![l].amount = "the owner's"]
  BY <1>2, <1>3 DEF TablesOk
<1>5. DOMAIN e.legs = DOMAIN d.legs
  BY <1>4
<1>6. \A k \in DOMAIN d.legs : e.legs[k].parent = d.legs[k].parent
  <2>1. PICK old : old = d.legs[l] /\ IsLegRow(old)
    BY <1>2, <1>3 DEF TablesOk, LegsOk
  <2>2. PICK mid : mid = [old EXCEPT !.toCurrency = c]
    OBVIOUS
  <2>3. \A own : [mid EXCEPT !.amount = own].parent = old.parent
    BY <2>1, <2>2 DEF IsLegRow
  <2>4. e.legs[l] = [mid EXCEPT !.amount = "the owner's"]
    BY <1>2, <1>4, <2>1, <2>2
  <2>5. \A k \in DOMAIN d.legs : k # l => e.legs[k] = d.legs[k]
    BY <1>4
  <2>6. e.legs[l].parent = d.legs[l].parent
    BY <2>1, <2>3, <2>4
  <2> QED
    BY <2>5, <2>6
<1>7. ids' = ids /\ deleted' = deleted /\ run' = run /\ touches' # 0
  BY TouchSteps DEF OwnerEditsLeg
<1> QED
  BY <1>1, <1>5, <1>6, <1>7, KeysAlone

LEMMA KeysOfOthers ==
  ASSUME ImportInv, KeysInv, OwnerNarrowsAccount \/ OwnerDeletesAccount \/ OwnerDeletesDocument
  PROVE  KeysInv'
<1>1. PICK d, e : d = db /\ e = db'
  OBVIOUS
<1>2. TablesOk(d)
  BY <1>1 DEF ImportInv
<1>3. \/ \E f : e = [d EXCEPT !.accounts = f]
      \/ \E f, g : e = [d EXCEPT !.documents = f, !.links = g]
  <2>1. CASE OwnerNarrowsAccount
    <3>1. PICK a, c : e = [d EXCEPT !.accounts[a] = @ \ {c}]
      BY <1>1, <2>1 DEF OwnerNarrowsAccount
    <3>2. e = [d EXCEPT !.accounts = [d.accounts EXCEPT ![a] = @ \ {c}]]
      BY <1>2, <3>1 DEF TablesOk
    <3> QED
      BY <3>2
  <2>2. CASE OwnerDeletesAccount
    BY <1>1, <2>2 DEF OwnerDeletesAccount
  <2>3. CASE OwnerDeletesDocument
    BY <1>1, <2>3 DEF OwnerDeletesDocument
  <2> QED
    BY <2>1, <2>2, <2>3
<1>4. e.legs = d.legs
  BY <1>2, <1>3 DEF TablesOk
<1>5. ids' = ids /\ deleted' = deleted /\ run' = run /\ touches' # 0
  BY TouchSteps DEF OwnerNarrowsAccount, OwnerDeletesAccount, OwnerDeletesDocument
<1> QED
  BY <1>1, <1>4, <1>5, KeysAlone

(* Legs go with all that hangs below them, and are forgotten no sooner.     *)
LEMMA KeysDropped ==
  ASSUME ImportInv, KeysInv, Touch, NEW doomed \in SUBSET DOMAIN db.legs, Gone(doomed),
         DOMAIN db'.legs = DOMAIN db.legs \ doomed,
         \A l \in DOMAIN db'.legs : db'.legs[l] = db.legs[l],
         \A l \in DOMAIN db.legs : db.legs[l].parent \in doomed => l \in doomed
  PROVE  KeysInv'
<1>1. PICK i, j, gone, more : i = ids /\ j = ids' /\ gone = deleted /\ more = deleted'
  OBVIOUS
<1>2. KeysOk(db, i, run, gone) /\ HungOk(db, i, gone) /\ run' = run /\ touches' # 0
  BY <1>1, TouchSteps DEF KeysInv
<1>3. /\ DOMAIN j = DOMAIN i \ doomed /\ \A l \in DOMAIN j : j[l] = i[l]
      /\ gone \subseteq more /\ (run.step = "running" => doomed \subseteq more)
  BY <1>1 DEF Gone, Restrict
<1>4. KeysOk(db', j, run', more)
  <2>1. ASSUME run.step = "running", NEW c \in DOMAIN run.parents
        PROVE  c \in more \/ (c \in DOMAIN j /\ j[c] = run.parents[c])
    BY <1>2, <1>3, <2>1 DEF KeysOk
  <2>2. /\ DOMAIN j = DOMAIN db'.legs
        /\ \A l \in DOMAIN j : j[l] \in Nat \ {0}
        /\ \A l, k \in DOMAIN j : j[l] = j[k] => l = k
    BY <1>2, <1>3 DEF KeysOk
  <2> QED
    BY <1>2, <2>1, <2>2 DEF KeysOk
<1>5. HungOk(db', j, more)
  <2>1. ASSUME NEW l \in DOMAIN db'.legs
        PROVE  /\ \/ db'.legs[l].parent = NoParent
                  \/ db'.legs[l].parent \in DOMAIN j /\ j[db'.legs[l].parent] < j[l]
               /\ \/ db'.legs[l].parent = RowFor(Whole, l).parent
                  \/ RowFor(Whole, l).parent \in more
    <3>1. l \in DOMAIN db.legs /\ db'.legs[l] = db.legs[l] /\ db.legs[l].parent \notin doomed
      BY <2>1
    <3>2. l \in DOMAIN j
      BY <1>2, <1>3, <2>1, <3>1 DEF KeysOk
    <3> QED
      BY <1>2, <1>3, <3>1, <3>2 DEF HungOk
  <2> QED
    BY <2>1 DEF HungOk
<1> QED
  BY <1>1, <1>2, <1>4, <1>5 DEF KeysInv

LEMMA KeysOfDeleted ==
  ASSUME ImportInv, KeysInv, OwnerDeletesLeg \/ OwnerDeletesPayout
  PROVE  KeysInv'
<1>1. PICK d, e : d = db /\ e = db'
  OBVIOUS
<1>2. CASE OwnerDeletesLeg
  <2>1. PICK l \in DOMAIN d.legs, doomed \in SUBSET DOMAIN d.legs :
          /\ \A k \in DOMAIN d.legs : k \in doomed <=> k = l \/ d.legs[k].parent \in doomed
          /\ e = Kept(DOMAIN d.legs \ doomed) /\ Gone(doomed)
    BY <1>1, <1>2 DEF OwnerDeletesLeg
  <2>2. DOMAIN e.legs = DOMAIN d.legs \ doomed /\ \A k \in DOMAIN e.legs : e.legs[k] = d.legs[k]
    BY <1>1, <2>1, KeptFields
  <2> QED
    BY <1>1, <1>2, <2>1, <2>2, KeysDropped DEF OwnerDeletesLeg
<1>3. CASE OwnerDeletesPayout
  <2> DEFINE of(p) == {l \in DOMAIN d.legs : d.legs[l].payout = p}
  <2>1. PICK p \in DOMAIN d.payouts :
          /\ \A l \in DOMAIN d.legs : d.legs[l].parent \in of(p) => l \in of(p)
          /\ e = [Kept(DOMAIN d.legs \ of(p)) EXCEPT !.payouts = Restrict(@, DOMAIN @ \ {p})]
          /\ Gone(of(p))
    BY <1>1, <1>3 DEF OwnerDeletesPayout
  <2>2. PICK k, doomed, rows :
          doomed = of(p) /\ rows = DOMAIN d.legs \ doomed /\ k = Kept(rows)
    OBVIOUS
  <2>3. /\ DOMAIN k.legs = rows /\ \A l \in DOMAIN k.legs : k.legs[l] = d.legs[l]
        /\ k = [companies |-> k.companies, accounts |-> k.accounts, payouts |-> k.payouts,
                legs |-> k.legs, fees |-> k.fees, documents |-> k.documents, links |-> k.links]
    BY <1>1, <2>2, KeptFields
  <2>4. e.legs = k.legs
    BY <2>1, <2>2, <2>3
  <2>5. doomed \in SUBSET DOMAIN d.legs
    BY <2>2
  <2>6. DOMAIN e.legs = DOMAIN d.legs \ doomed /\ \A l \in DOMAIN e.legs : e.legs[l] = d.legs[l]
    BY <2>2, <2>3, <2>4
  <2>7. Gone(doomed) /\ \A l \in DOMAIN d.legs : d.legs[l].parent \in doomed => l \in doomed
    BY <2>1, <2>2
  <2> HIDE DEF of
  <2> QED
    BY <1>1, <1>3, <2>5, <2>6, <2>7, KeysDropped DEF OwnerDeletesPayout
<1> QED
  BY <1>2, <1>3

-----------------------------------------------------------------------------
(* The theorems *)

LEMMA ImportInvInit == ImportInit => ImportInv
<1> SUFFICES ASSUME ImportInit PROVE ImportInv
  OBVIOUS
<1>1. PICK d, u : d = db /\ u = run /\ d = EmptyDb /\ u = NotRunning
  BY DEF ImportInit
<1>2. /\ d.companies = {} /\ d.accounts = <<>> /\ d.payouts = <<>> /\ d.legs = <<>>
      /\ d.fees = <<>> /\ d.documents = {} /\ d.links = {}
      /\ d = [companies |-> d.companies, accounts |-> d.accounts, payouts |-> d.payouts,
              legs |-> d.legs, fees |-> d.fees, documents |-> d.documents, links |-> d.links]
  BY <1>1 DEF EmptyDb
<1>3. DOMAIN <<>> = {} /\ IsMap(<<>>)
  BY DEF IsMap
<1>4. TablesOk(d) /\ Anchored(d) /\ Faithful(d)
  BY <1>2, <1>3 DEF TablesOk, LegsOk, FeesOk, Anchored, Faithful
<1>5. RunOk(u) /\ LegFound(d, u) /\ u.step = "none"
  BY <1>1 DEF RunOk, LegFound, NotRunning
<1> QED
  BY <1>1, <1>4, <1>5 DEF ImportInv, ImportInit

LEMMA ImportInvNext == ImportInv /\ KeysInv /\ [ImportNext]_importVars => ImportInv'
<1> SUFFICES ASSUME ImportInv, KeysInv, [ImportNext]_importVars PROVE ImportInv'
  OBVIOUS
<1>1. CASE \E s \in Sheets : Start(s)
  BY <1>1, StartStep
<1>2. CASE Importing
  BY <1>2, CompanyStep, PayoutStep, AccountStep, LegStep, FeeStep, DocumentStep, LinkStep,
     NextRowStep DEF Importing
<1>3. CASE Stop
  BY <1>3, StopStep
<1>4. CASE OwnerEditsLeg \/ OwnerDeletesLeg \/ OwnerDeletesPayout
  BY <1>4, OwnerEditsStep, OwnerDeletesLegStep, OwnerDeletesPayoutStep
<1>5. CASE OwnerNarrowsAccount \/ OwnerDeletesAccount \/ OwnerDeletesDocument
  BY <1>5, OwnerNarrowsAccountStep, OwnerDeletesAccountStep, OwnerDeletesDocumentStep
<1>6. CASE UNCHANGED importVars
  BY <1>6 DEF importVars, ImportInv
<1> QED
  BY <1>1, <1>2, <1>3, <1>4, <1>5, <1>6 DEF ImportNext

LEMMA KeysInvNext == ImportInv /\ KeysInv /\ [ImportNext]_importVars => KeysInv'
<1> SUFFICES ASSUME ImportInv, KeysInv, [ImportNext]_importVars PROVE KeysInv'
  OBVIOUS
<1>1. CASE Stop \/ \E s \in Sheets : Start(s)
  BY <1>1, KeysStartStop
<1>2. CASE Importing
  BY <1>2, KeysTask, KeysLeg
<1>3. CASE OwnerEditsLeg \/ OwnerDeletesLeg \/ OwnerDeletesPayout
  BY <1>3, KeysEdited, KeysOfDeleted
<1>4. CASE OwnerNarrowsAccount \/ OwnerDeletesAccount \/ OwnerDeletesDocument
  BY <1>4, KeysOfOthers
<1>5. CASE UNCHANGED importVars
  BY <1>5, KeysAlone DEF importVars
<1> QED
  BY <1>1, <1>2, <1>3, <1>4, <1>5 DEF ImportNext

LEMMA KeysInvInit == ImportInit => KeysInv
<1> SUFFICES ASSUME ImportInit PROVE KeysInv
  OBVIOUS
<1>1. PICK d, u, i : d = db /\ u = run /\ i = ids /\ d = EmptyDb /\ u = NotRunning /\ i = <<>>
  BY DEF ImportInit
<1>2. d.legs = <<>> /\ DOMAIN <<>> = {} /\ u.step = "none"
  BY <1>1 DEF EmptyDb, NotRunning
<1>3. DOMAIN i = {} /\ DOMAIN d.legs = {}
  BY <1>1, <1>2
<1>4. KeysOk(d, i, u, {}) /\ HungOk(d, i, {})
  BY <1>2, <1>3 DEF KeysOk, HungOk
<1> QED
  BY <1>1, <1>4 DEF KeysInv, ImportInit

LEMMA ImportInvariant == ImportSpec => [](ImportInv /\ KeysInv)
BY ImportInvInit, ImportInvNext, KeysInvInit, KeysInvNext, PTL DEF ImportSpec

(* However a run is stopped, begun again on the same sheet or on one put    *)
(* right, and whatever the owner edits or deletes meanwhile: a run over the *)
(* whole sheet that gets to its end leaves what the sheet says, if the      *)
(* owner has changed nothing; no leg, fee or link ever hangs from what is   *)
(* not there; and a leg hangs from the leg its row names, unless the owner  *)
(* deleted that one under a run, whose row id the next leg may have been    *)
(* given (ImportLegacyCsv.execute, parentsByCode).                          *)
THEOREM ImportedWhole == ImportSpec => []ImportIsWhole
<1>1. ImportInv /\ KeysInv => ImportIsWhole
  <2> SUFFICES ASSUME ImportInv, KeysInv PROVE ImportIsWhole
    OBVIOUS
  <2>1. PICK d, u : d = db /\ u = run
    OBVIOUS
  <2>2. TablesOk(d) /\ Anchored(d) /\ RunOk(u)
    BY <2>1 DEF ImportInv
  <2>3. ImportTypeOK
    BY <2>1, <2>2 DEF ImportTypeOK, TablesOk, FeesOk, RunOk
  <2>4. NothingDangles
    BY <2>1, <2>2 DEF NothingDangles, Anchored, KeysInv, KeysOk, HungOk
  <2>4a. OnlyTheOrphanedMove
    BY DEF OnlyTheOrphanedMove, KeysInv, HungOk
  <2>5. ASSUME u.step = "finished", u.sheet = Whole, touches = 0 PROVE d = Imported(Whole)
    <3>1. Faithful(d) /\ Progress(d, u)
      BY <2>1, <2>5 DEF ImportInv
    <3>2. u.row = Len(Whole) /\ u.todo = <<>>
      BY <2>2, <2>5 DEF RunOk
    <3>3. \A t : t \notin ToSet(u.todo)
      BY <3>2 DEF ToSet
    <3>4. \A i \in Rows : \A t \in Tasks(Whole[i]) : Written(d, Whole, Whole[i], t)
      BY <2>5, <3>1, <3>2, <3>3 DEF Progress, Rows
    <3> QED
      BY <2>2, <3>1, <3>4, AllRowsWritten
  <2> QED
    BY <2>1, <2>3, <2>4, <2>4a, <2>5 DEF ImportIsWhole, WholeSheetIsImported
<1> QED
  BY <1>1, ImportInvariant, PTL

(* Every change of the owner's is counted. *)
LEMMA OwnerCounted ==
  ASSUME ImportInv, touches' = touches, ImportNext
  PROVE  Importing \/ UNCHANGED db
<1>1. touches' # touches + 1
  BY DEF ImportInv
<1>2. ~(OwnerEditsLeg \/ OwnerDeletesLeg \/ OwnerDeletesPayout
        \/ OwnerNarrowsAccount \/ OwnerDeletesAccount \/ OwnerDeletesDocument)
  BY <1>1 DEF Touch, OwnerEditsLeg, OwnerDeletesLeg, OwnerDeletesPayout, OwnerNarrowsAccount,
     OwnerDeletesAccount, OwnerDeletesDocument
<1> QED
  BY <1>2 DEF ImportNext, Start, Stop

(* A leg that is there is the owner's: no run of the importer changes it or *)
(* takes it away, whatever the sheet says of it by now (upsertTransaction   *)
(* of ImportLegacyCsv, which returns the leg it finds).                     *)
THEOREM ImportLeavesLegsAlone == ImportSpec => LegsAreLeftAlone
<1>1. ASSUME ImportInv, [ImportNext]_importVars, touches' = touches
      PROVE  \A l \in DOMAIN db.legs : l \in DOMAIN db'.legs /\ db'.legs[l] = db.legs[l]
  <2>1. PICK d, e : d = db /\ e = db'
    OBVIOUS
  <2>2. TablesOk(d)
    BY <1>1, <2>1 DEF ImportInv
  <2>3. CASE Transaction
    <3>1. CASE e = d
      BY <2>1, <3>1
    <3>2. CASE e # d
      <4>1. PICK what, new : what \notin DOMAIN d.legs
                             /\ e = [d EXCEPT !.legs = With(@, what, new)]
        BY <2>1, <2>3, <3>2 DEF Transaction, LegWritten
      <4>2. e.legs = With(d.legs, what, new)
        BY <2>2, <4>1 DEF TablesOk
      <4> QED
        BY <2>1, <4>1, <4>2 DEF With
    <3> QED
      BY <3>1, <3>2
  <2>4. CASE Company
    BY <2>1, <2>2, <2>4 DEF Company, TablesOk
  <2>5. CASE Payout
    BY <2>1, <2>2, <2>5 DEF Payout, TablesOk
  <2>6. CASE AccountMet
    BY <2>1, <2>2, <2>6 DEF AccountMet, TablesOk
  <2>7. CASE Fee
    BY <2>1, <2>2, <2>7 DEF Fee, TablesOk
  <2>8. CASE Document
    BY <2>1, <2>2, <2>8 DEF Document, TablesOk
  <2>9. CASE Link
    BY <2>1, <2>2, <2>9 DEF Link, TablesOk
  <2>10. CASE UNCHANGED db
    BY <2>10
  <2>11. Importing \/ UNCHANGED db
    BY <1>1, OwnerCounted DEF importVars
  <2> QED
    BY <2>3, <2>4, <2>5, <2>6, <2>7, <2>8, <2>9, <2>10, <2>11 DEF Importing, NextRow
<1>2. ImportInv /\ [ImportNext]_importVars
      => [touches' = touches =>
            \A l \in DOMAIN db.legs : l \in DOMAIN db'.legs /\ db'.legs[l] = db.legs[l]]_importVars
  BY <1>1
<1> QED
  BY <1>2, ImportInvariant, PTL DEF ImportSpec, LegsAreLeftAlone

(* Of the fee written a second time: the leg is the sheet's, unless the     *)
(* owner has edited it, and then the tables are not as the sheet says.      *)
LEMMA FeeAgain ==
  ASSUME ImportInv, Doing("fee"), run.sheet = Whole, db = Imported(Whole),
         What \in CellRow(Sheet, Row, What).fees
  PROVE  /\ <<Row.leg, What>> \in DOMAIN db.fees
         /\ db.fees[<<Row.leg, What>>] = FeeRow(Sheet, Row, What)
<1>1. AtTask(run) /\ RunOk(run) /\ LegFound(db, run) /\ Sheet = Whole
      /\ Row = run.sheet[run.row] /\ What = Head(run.todo).what /\ Head(run.todo).do = "fee"
      /\ Head(run.todo) = Task("fee", What)
  BY DoingTask
<1>2. PICK u, d : u = run /\ d = db
  OBVIOUS
<1>3. PICK i : i = u.row /\ i \in Rows
  BY <1>1, <1>2 DEF RunOk, AtTask, Rows
<1>4. Row = Whole[i]
  BY <1>1, <1>2, <1>3
<1>5. PICK fee : fee = What /\ fee \in ToSet(FeeColumns)
  BY <1>1, <1>2, TaskAtHead
<1>6. fee \in CellRow(Whole, Whole[i], fee).fees
  BY <1>1, <1>4, <1>5
<1>7. /\ <<Whole[i].leg, fee>> \in DOMAIN Imported(Whole).fees
      /\ Imported(Whole).fees[<<Whole[i].leg, fee>>] =
           [of |-> CellRow(Whole, Whole[i], fee).leg,
            currency |-> IF fee \in SourceCurrencyFees THEN Whole[i].fromCurrency
                         ELSE Whole[i].toCurrency]
  BY <1>3, <1>5, <1>6, ImportedFees
<1>8. Whole[i].leg \in DOMAIN d.legs /\ d.legs[Whole[i].leg] = NewLeg(Whole[i])
  BY <1>2, <1>3, ImportedLegs
<1>9. \A j \in 1..Len(u.todo) : u.todo[j].do # "leg"
  BY <1>1, <1>2 DEF RunOk, AtTask, Ordered
<1>10. u.leg = NewLeg(Whole[i])
  <2>1. NewLeg(Whole[i]).amount # "the owner's"
    BY DEF NewLeg, LegUnder
  <2>2. u.leg = d.legs[Whole[i].leg] \/ d.legs[Whole[i].leg].amount = "the owner's"
    BY <1>1, <1>2, <1>3, <1>4, <1>8, <1>9 DEF LegFound, AtTask
  <2> QED
    BY <1>8, <2>1, <2>2
<1>11. u.leg.fromCurrency = Whole[i].fromCurrency /\ u.leg.toCurrency = Whole[i].toCurrency
  <2>1. \A r : NewLeg(r).fromCurrency = r.fromCurrency /\ NewLeg(r).toCurrency = r.toCurrency
    BY DEF NewLeg, LegUnder
  <2> QED
    BY <1>10, <2>1
<1>12. FeeRow(Whole, Whole[i], fee) =
         [of |-> CellRow(Whole, Whole[i], fee).leg,
          currency |-> IF fee \in SourceCurrencyFees THEN Whole[i].fromCurrency
                       ELSE Whole[i].toCurrency]
  BY <1>2, <1>11 DEF FeeRow
<1> QED
  BY <1>1, <1>2, <1>4, <1>5, <1>7, <1>12

(* A run of the importer over all it has already imported changes nothing:  *)
(* what it would write is on file, the fees and links it writes again       *)
(* included (ImportLegacyCsv.execute).                                      *)
THEOREM ImportedTwiceIsImportedOnce == ImportSpec => SecondRunChangesNothing
<1>1. ASSUME ImportInv, [ImportNext]_importVars, run.step = "running", run.sheet = Whole,
             db = Imported(Whole), touches' = touches
      PROVE  db' = db
  <2>1. PICK u, d, e : u = run /\ d = db /\ e = db'
    OBVIOUS
  <2>2. TablesOk(d) /\ RunOk(u) /\ d = Imported(Whole)
    BY <1>1, <2>1 DEF ImportInv
  <2>3. d = [companies |-> d.companies, accounts |-> d.accounts, payouts |-> d.payouts,
             legs |-> d.legs, fees |-> d.fees, documents |-> d.documents, links |-> d.links]
        /\ IsMap(d.accounts) /\ IsMap(d.fees)
    BY <2>2 DEF TablesOk
  <2>4. PICK i \in Rows : i = u.row
    BY <1>1, <2>1, <2>2 DEF RunOk, Rows
  <2>5. ASSUME NEW do, Doing(do)
        PROVE  AtTask(u) /\ Row = Whole[i] /\ Head(u.todo) = Task(do, What)
               /\ Head(u.todo).do = do /\ What = Head(u.todo).what /\ u.sheet[u.row] = Whole[i]
    BY <1>1, <2>1, <2>4, <2>5, DoingTask
  <2>6. CASE Company
    <3>1. What = Whole[i].company
      BY <2>5, <2>6, TaskAtHead DEF Company
    <3>2. What \in d.companies
      BY <2>2, <3>1, ImportedCompanies
    <3>3. d.companies \cup {What} = d.companies
      BY <3>2
    <3>4. e = [d EXCEPT !.companies = d.companies \cup {What}]
      BY <2>1, <2>6 DEF Company
    <3> QED
      BY <2>1, <2>3, <3>3, <3>4
  <2>7. CASE Payout
    <3>1. What = Whole[i].payout
      BY <2>5, <2>7, TaskAtHead DEF Payout
    <3>2. What \in DOMAIN d.payouts
      BY <2>2, <3>1, ImportedPayouts
    <3> QED
      BY <2>1, <2>7, <3>2 DEF Payout
  <2>8. CASE AccountMet
    <3>1. PICK side \in {"from", "to"} : side = What
      BY <2>5, <2>8, TaskAtHead DEF AccountMet
    <3>2. PICK a, c : a = Account(Whole[i], side) /\ c = Currency(Whole[i], side)
      OBVIOUS
    <3>3. a \in DOMAIN d.accounts /\ c \in d.accounts[a]
      BY <2>2, <2>4, <3>1, <3>2, ImportedAccounts
    <3>4. d.accounts[a] \cup {c} = d.accounts[a]
      BY <3>3
    <3>5. e = [d EXCEPT !.accounts = With(d.accounts, a, d.accounts[a] \cup {c})]
      BY <2>1, <2>5, <2>8, <3>1, <3>2, <3>3 DEF AccountMet
    <3>6. With(d.accounts, a, d.accounts[a]) = d.accounts
      BY <2>3, <3>3 DEF With, IsMap
    <3> QED
      BY <2>1, <2>3, <3>4, <3>5, <3>6
  <2>9. CASE Transaction
    <3>1. What = Whole[i].leg
      BY <2>5, <2>9, TaskAtHead DEF Transaction
    <3>2. What \in DOMAIN d.legs
      BY <2>2, <3>1, ImportedLegs
    <3> QED
      BY <2>1, <2>9, <3>2 DEF Transaction
  <2>10. CASE Fee
    <3>1. CASE What \notin CellRow(Sheet, Row, What).fees
      BY <2>10, <3>1 DEF Fee
    <3>2. CASE What \in CellRow(Sheet, Row, What).fees
      <4>1. PICK k, v : k = <<Row.leg, What>> /\ v = FeeRow(Sheet, Row, What)
        OBVIOUS
      <4>2. k \in DOMAIN d.fees /\ d.fees[k] = v
        BY <1>1, <2>1, <2>10, <3>2, <4>1, FeeAgain DEF Fee
      <4>3. e = [d EXCEPT !.fees = With(d.fees, k, v)]
        BY <2>1, <2>10, <3>2, <4>1 DEF Fee
      <4>4. With(d.fees, k, v) = d.fees
        BY <2>3, <4>2 DEF With, IsMap
      <4> QED
        BY <2>1, <2>3, <4>3, <4>4
    <3> QED
      BY <3>1, <3>2
  <2>11. CASE Document
    <3>1. What \in ToSet(Whole[i].documents)
      BY <2>5, <2>11, TaskAtHead DEF Document
    <3>2. What \in d.documents
      BY <2>2, <3>1, ImportedEvidence
    <3>3. d.documents \cup {What} = d.documents
      BY <3>2
    <3>4. e = [d EXCEPT !.documents = d.documents \cup {What}]
      BY <2>1, <2>11 DEF Document
    <3> QED
      BY <2>1, <2>3, <3>3, <3>4
  <2>12. CASE Link
    <3>1. What \in ToSet(Whole[i].documents)
      BY <2>5, <2>12, TaskAtHead DEF Link
    <3>2. PICK k : k = <<What, Whole[i].leg>>
      OBVIOUS
    <3>3. k \in d.links
      BY <2>2, <3>1, <3>2, ImportedEvidence
    <3>4. d.links \cup {k} = d.links
      BY <3>3
    <3>5. e = [d EXCEPT !.links = d.links \cup {k}]
      BY <2>1, <2>5, <2>12, <3>2 DEF Link
    <3> QED
      BY <2>1, <2>3, <3>4, <3>5
  <2>13. Importing \/ UNCHANGED db
    BY <1>1, OwnerCounted DEF importVars
  <2> QED
    BY <2>6, <2>7, <2>8, <2>9, <2>10, <2>11, <2>12, <2>13 DEF Importing, NextRow
<1>2. ImportInv /\ [ImportNext]_importVars
      => [run.step = "running" /\ run.sheet = Whole /\ db = Imported(Whole)
          /\ touches' = touches => db' = db]_importVars
  BY <1>1
<1> QED
  BY <1>2, ImportInvariant, PTL DEF ImportSpec, SecondRunChangesNothing

=============================================================================

------------------------------- MODULE Ledger -------------------------------
(***************************************************************************)
(* Payouts, the legs that move their money, the fees on those legs and the *)
(* accounts they move between: the write use cases of packages/core on top *)
(* of the SQLite repositories of apps/api.                                 *)
(*                                                                         *)
(* better-sqlite3 is synchronous, so the awaits of one use case form one   *)
(* microtask chain: no other request runs between two of its statements.   *)
(* But each statement commits on its own, and a use case that throws after *)
(* its first write does not undo it.  RecordTransaction and RecordSale are *)
(* the two that write in several statements: `writing' is the recording in *)
(* progress, every other request waits until it is over, and the process   *)
(* may be killed in the middle of it.                                      *)
(*                                                                         *)
(* Codes, dates, notes, addresses, amounts and rates are abstracted: they  *)
(* only decide refusals, and a refused request changes nothing.            *)
(***************************************************************************)
EXTENDS Forest, Sequences

CONSTANTS
  MaxPayout, MaxLeg, MaxAccount,  \* bounds on the row ids explored
  Currencies,
  AllowLists,      \* the currencies an account may be limited to; {} is all
  ChargeLists,     \* the fees a movement may carry: <<>> or one of them
  SchedulePlans,   \* what expectedFees may answer for a scheduled account
  TdsLists,        \* the tds a sale may carry: <<>> or one of it
  MayCrash         \* whether the process can be killed mid-recording

FeeTypes == {"tds", "exchange_fee", "gst", "network_fee", "platform_charge"}

(***************************************************************************)
(* A fee still to be written.  `lands' is FALSE when recordFee is never    *)
(* reached or refuses: an amount with more decimals than the currency      *)
(* keeps, a negative one, a schedule that is ambiguous or has no base.     *)
(***************************************************************************)
PendingFee == [type : FeeTypes, lands : BOOLEAN]
FeeLists == Seq(PendingFee)

ASSUME LedgerConstants ==
  /\ MaxPayout \in Nat /\ MaxLeg \in Nat /\ MaxAccount \in Nat
  /\ AllowLists \subseteq SUBSET Currencies
  /\ ChargeLists \subseteq FeeLists
  /\ SchedulePlans \subseteq FeeLists
  /\ TdsLists \subseteq FeeLists
  /\ MayCrash \in BOOLEAN

PayoutIds == 1..MaxPayout
LegIds == 1..MaxLeg
AccountIds == 1..MaxAccount
Kinds == {"movement", "sale"}   \* the four MOVEMENT_KINDS behave alike

Leg == [payout : PayoutIds, parent : LegIds \cup {NoLeg}, kind : Kinds,
        from : AccountIds, to : AccountIds,
        fromCurrency : Currencies, toCurrency : Currencies]

VARIABLES
  payouts,    \* payouts: the ids present
  legs,       \* transactions: row id -> Leg
  fees,       \* transaction_fees: pairs of leg and fee type
  accounts,   \* accounts: row id -> its account_currencies rows
  scheduled,  \* accounts that own fee_schedules rows
  writing     \* the recording whose fees are still being written

vars == <<payouts, legs, fees, accounts, scheduled, writing>>

Idle == [leg |-> NoLeg, todo |-> <<>>]
NoRows == [i \in {} |-> i]
IsIdle == writing = Idle

-----------------------------------------------------------------------------
(* What the handlers compute *)

Allows(allowed, currency) == allowed = {} \/ currency \in allowed

(* Faulty: only the sending side is checked. *)
CanSend(leg) ==
  /\ leg.from \in DOMAIN accounts /\ leg.to \in DOMAIN accounts
  /\ Allows(accounts[leg.from], leg.fromCurrency)

CanMove(leg) ==
  /\ leg.from \in DOMAIN accounts /\ leg.to \in DOMAIN accounts
  /\ Allows(accounts[leg.from], leg.fromCurrency)
  /\ Allows(accounts[leg.to], leg.toCurrency)

UsesAccount(leg, a) == leg.from = a \/ leg.to = a

(* Faulty: foreign keys are off, nothing cascades. *)
FeesKept(S) == fees

(* Rows that go with their leg by ON DELETE CASCADE. *)
FeesWithout(S) == {f \in fees : f[1] \notin S}

(* The legs DeleteTransaction counts: `descendants' walks only the legs of *)
(* the payout, while the repository peels the subtree wherever it reaches. *)
CountedLegs(l) ==
  Subtree(Restrict(legs, LegsOfPayout(legs, legs[l].payout)), l)

(* `currency_not_allowed' of RunDataQualityChecks. *)
Contradicts(leg) ==
  \/ ~Allows(accounts[leg.from], leg.fromCurrency)
  \/ ~Allows(accounts[leg.to], leg.toCurrency)

-----------------------------------------------------------------------------
(* Payouts and accounts *)

RecordPayout(p) ==
  /\ IsIdle
  /\ IsNextRowId(p, payouts)
  /\ payouts' = payouts \cup {p}
  /\ UNCHANGED <<legs, fees, accounts, scheduled, writing>>

(* deleteLeafTransactions until it changes nothing, then the payout, in one *)
(* transaction.  A leg of another payout hanging below one of these would   *)
(* stop the peel, and the foreign key the delete: everything rolls back.    *)
DeletePayout(p) ==
  LET own == LegsOfPayout(legs, p) IN
  /\ IsIdle
  /\ p \in payouts
  /\ \A l \in DOMAIN legs \ own : legs[l].parent \notin own
  /\ payouts' = payouts \ {p}
  /\ legs' = Without(legs, own)
  /\ fees' = FeesWithout(own)
  /\ UNCHANGED <<accounts, scheduled, writing>>

RecordAccount(a, allowed) ==
  /\ IsIdle
  /\ IsNextRowId(a, DOMAIN accounts)
  /\ accounts' = WithRow(accounts, a, allowed)
  /\ UNCHANGED <<payouts, legs, fees, scheduled, writing>>

(* A replacement, even when legs already contradict the new allow-list. *)
EditAccount(a, allowed) ==
  /\ IsIdle
  /\ a \in DOMAIN accounts
  /\ accounts' = [accounts EXCEPT ![a] = allowed]
  /\ UNCHANGED <<payouts, legs, fees, scheduled, writing>>

DeleteAccount(a) ==
  /\ IsIdle
  /\ a \in DOMAIN accounts
  /\ \A l \in DOMAIN legs : ~UsesAccount(legs[l], a)
  /\ accounts' = Without(accounts, {a})
  /\ scheduled' = scheduled \ {a}
  /\ UNCHANGED <<payouts, legs, fees, writing>>

(* fee_schedules has no use case of its own: rows arrive through the        *)
(* repository, from a fixture or an imported archive.                       *)
DeclareSchedule(a) ==
  /\ IsIdle
  /\ a \in DOMAIN accounts \ scheduled
  /\ scheduled' = scheduled \cup {a}
  /\ UNCHANGED <<payouts, legs, fees, accounts, writing>>

-----------------------------------------------------------------------------
(* Legs *)

(* Faulty: the parent need only exist. *)
ParentExists(leg) == leg.parent # NoLeg => leg.parent \in DOMAIN legs

ParentAccepted(leg) ==
  leg.parent # NoLeg =>
    leg.parent \in DOMAIN legs /\ legs[leg.parent].payout = leg.payout

(* transactions.insert commits here; the fees follow, one statement each. *)
InsertLeg(l, leg, todo) ==
  /\ IsIdle
  /\ IsNextRowId(l, DOMAIN legs)
  /\ leg.payout \in payouts
  /\ CanMove(leg)
  /\ ParentAccepted(leg)
  /\ leg.from # leg.to
  /\ legs' = WithRow(legs, l, leg)
  /\ writing' = IF todo = <<>> THEN Idle ELSE [leg |-> l, todo |-> todo]
  /\ UNCHANGED <<payouts, fees, accounts, scheduled>>

RecordTransaction(l, leg, charge) ==
  /\ leg.kind = "movement"
  /\ InsertLeg(l, leg, charge)

(* The schedules are the paying side's; tds comes after them. *)
RecordSale(l, leg, plan, tds) ==
  /\ leg.kind = "sale"
  /\ leg.from \notin scheduled => plan = <<>>
  /\ InsertLeg(l, leg, plan \o tds)

(* upsertFee: a second fee of a type replaces the first. *)
RecordFee ==
  LET fee == Head(writing.todo) rest == Tail(writing.todo) IN
  /\ ~IsIdle
  /\ fee.lands
  /\ fees' = fees \cup {<<writing.leg, fee.type>>}
  /\ writing' = IF rest = <<>> THEN Idle ELSE [writing EXCEPT !.todo = rest]
  /\ UNCHANGED <<payouts, legs, accounts, scheduled>>

(* The throw answers the request with an error; what is committed stays. *)
RefuseFee ==
  /\ ~IsIdle
  /\ ~Head(writing.todo).lands
  /\ writing' = Idle
  /\ UNCHANGED <<payouts, legs, fees, accounts, scheduled>>

Crash ==
  /\ MayCrash
  /\ ~IsIdle
  /\ writing' = Idle
  /\ UNCHANGED <<payouts, legs, fees, accounts, scheduled>>

(* The payout, the parent and the kind are carried, not accepted. *)
EditTransaction(l, from, to, fromCurrency, toCurrency) ==
  LET edited == [legs[l] EXCEPT !.from = from, !.to = to,
                                !.fromCurrency = fromCurrency,
                                !.toCurrency = toCurrency] IN
  /\ IsIdle
  /\ l \in DOMAIN legs
  /\ CanMove(edited)
  /\ from # to
  /\ legs' = [legs EXCEPT ![l] = edited]
  /\ UNCHANGED <<payouts, fees, accounts, scheduled, writing>>

DeleteTransaction(l) ==
  LET doomed == Subtree(legs, l) IN
  /\ IsIdle
  /\ l \in DOMAIN legs
  /\ legs' = Without(legs, doomed)
  /\ fees' = FeesWithout(doomed)
  /\ UNCHANGED <<payouts, accounts, scheduled, writing>>

-----------------------------------------------------------------------------
Init ==
  /\ payouts = {}
  /\ legs = NoRows
  /\ fees = {}
  /\ accounts = NoRows
  /\ scheduled = {}
  /\ writing = Idle

NextPayout == \E p \in PayoutIds : RecordPayout(p) \/ DeletePayout(p)

NextAccount ==
  \E a \in AccountIds :
    \/ \E allowed \in AllowLists : RecordAccount(a, allowed) \/ EditAccount(a, allowed)
    \/ DeleteAccount(a)
    \/ DeclareSchedule(a)

NextLeg ==
  \E l \in LegIds :
    \/ \E leg \in Leg :
         \/ \E charge \in ChargeLists : RecordTransaction(l, leg, charge)
         \/ \E plan \in SchedulePlans, tds \in TdsLists : RecordSale(l, leg, plan, tds)
    \/ \E from, to \in AccountIds, fromCurrency, toCurrency \in Currencies :
         EditTransaction(l, from, to, fromCurrency, toCurrency)
    \/ DeleteTransaction(l)

Next == NextPayout \/ NextAccount \/ NextLeg \/ RecordFee \/ RefuseFee \/ Crash

Spec == Init /\ [][Next]_vars
-----------------------------------------------------------------------------
(* Properties *)

(* Rows keep the shape of their tables.                                     *)
TypeOK ==
  /\ payouts \subseteq PayoutIds
  /\ DOMAIN legs \subseteq LegIds /\ legs \in [DOMAIN legs -> Leg]
  /\ fees \subseteq LegIds \X FeeTypes
  /\ DOMAIN accounts \subseteq AccountIds
  /\ accounts \in [DOMAIN accounts -> SUBSET Currencies]
  /\ scheduled \subseteq AccountIds
  /\ writing \in [leg : LegIds \cup {NoLeg}, todo : FeeLists]

(* The legs of the ledger form a forest of trees, each inside one payout:   *)
(* what the check in RecordTransaction, the carried fields of               *)
(* EditTransaction and the subtree deletes keep together, and no constraint *)
(* of the schema states.                                                    *)
LegsFormAForest == IsForest(legs)

(* No row outlives what it refers to: legs stand on a payout and two        *)
(* accounts that exist, fees on a leg, schedules on an account; and a       *)
(* recording writes its remaining fees onto a leg that is there.            *)
NoDanglingRows ==
  /\ \A l \in DOMAIN legs : /\ legs[l].payout \in payouts
                            /\ legs[l].from \in DOMAIN accounts
                            /\ legs[l].to \in DOMAIN accounts
  /\ \A f \in fees : f[1] \in DOMAIN legs
  /\ scheduled \subseteq DOMAIN accounts
  /\ IsIdle \/ (writing.leg \in DOMAIN legs /\ writing.todo # <<>>)

(* DeleteTransaction counts the legs of the payout and lets the repository  *)
(* peel the subtree wherever it reaches: the number shown to the reader is  *)
(* the number of rows that go.                                              *)
CountIsWhatGoes == \A l \in DOMAIN legs : CountedLegs(l) = Subtree(legs, l)

(* Row ids are handed out again.  A leg, when it is inserted, has no fee    *)
(* and no child: it inherits nothing from a deleted leg of the same id.     *)
ReusedIdIsClean ==
  [][\A l \in DOMAIN legs' \ DOMAIN legs :
       /\ \A f \in fees' : f[1] # l
       /\ \A m \in DOMAIN legs' : legs'[m].parent # l]_vars

(* One request never takes legs away from two payouts, and a payout that    *)
(* lost none keeps every fee.                                               *)
LossStaysInOnePayout ==
  [][\A l \in DOMAIN legs \ DOMAIN legs', m \in DOMAIN legs :
       (m \notin DOMAIN legs' \/ \E t \in FeeTypes : <<m, t>> \in fees \ fees')
         => legs[m].payout = legs[l].payout]_vars

Contradicting == {l \in DOMAIN legs : Contradicts(legs[l])}

(* Only narrowing an account's allow-list makes a leg contradict it:        *)
(* recording and editing a leg check both sides, so what the data-quality   *)
(* check flags is always the trace of an account edit.                      *)
OnlyNarrowingContradicts ==
  [][\A l \in Contradicting' :
       l \notin Contradicting \/ legs'[l] # legs[l] => accounts' # accounts]_vars

(* Among accounts, fees and half-written recordings the legs still behave   *)
(* as LegTree says: each request is one insert, one pruned subtree, one     *)
(* felled payout, or nothing at all to the tree.                            *)
Tree == INSTANCE LegTree
          WITH tree <- [l \in DOMAIN legs |->
                          [payout |-> legs[l].payout, parent |-> legs[l].parent]]

LegsFollowTheTree == Tree!TreeSpec

(* DECISIONS.md F32: the charge is "Written with the leg, in UC2, not       *)
(* through a second call: a fee that can fail on its own is a fee the       *)
(* ledger cannot explain" -- so a recording ends only with every fee it     *)
(* carried on the leg.                                                      *)
FeesLandWithTheirLeg ==
  [][~IsIdle /\ IsIdle' =>
       \A i \in DOMAIN writing.todo : <<writing.leg, writing.todo[i].type>> \in fees']_vars

(* The tables hang together after every commit: rows of their shape, legs   *)
(* in trees inside their payouts, and no reference to a row that is gone.   *)
RowsHoldTogether == TypeOK /\ LegsFormAForest /\ NoDanglingRows
=============================================================================

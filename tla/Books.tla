------------------------------- MODULE Books --------------------------------
(***************************************************************************)
(* The money of one payout: its legs with their amounts, rates and fees,   *)
(* the use cases that write them, and the three reports that read them:    *)
(* the settlement (Payout.netCredited), the balances (GetAccountBalances)  *)
(* and the sweep (RunDataQualityChecks).                                   *)
(*                                                                         *)
(* Where Ledger keeps the shape of the rows and abstracts the amounts,     *)
(* this module keeps the amounts and abstracts the shape: trees, payouts,  *)
(* allow-lists and kills between two statements are Ledger's, so here a    *)
(* recording is one step.  fee_schedules is written by no use case: the    *)
(* rows in force are chosen once.                                          *)
(***************************************************************************)
EXTENDS Fees, Forest, FiniteSets

CONSTANTS
  MaxLeg,
  Settlement,      \* the currency of the settlement report, INR
  Entries,         \* what somebody may type into the form of a leg
  TypedCharges,    \* what somebody may type over the charge it fills in
  TdsAmounts,      \* tds read off a statement, in minor units
  SchedulePlans    \* the sets of fee_schedules rows explored

NoRate == 0
NoTds == -1

Entry == [date : Dates, from : Accounts, to : Accounts,
          sent : Typed, fromCurrency : Currencies,
          received : Typed, toCurrency : Currencies, rate : Nat]

ASSUME BooksConstants ==
  /\ MaxLeg \in Nat
  /\ IsFiniteSet(Accounts)
  /\ Settlement \in Currencies
  /\ Entries \subseteq Entry
  /\ TypedCharges \subseteq Typed
  /\ TdsAmounts \subseteq Nat
  /\ SchedulePlans \subseteq SUBSET Schedule

LegIds == 1..MaxLeg
Kinds == {"movement", "sale"}

Leg == [kind : Kinds, date : Dates, from : Accounts, to : Accounts,
        sent : Money, received : Money, rate : Nat]

VARIABLES
  legs,       \* transactions of the payout: row id -> Leg
  fees,       \* transaction_fees: row id of the leg -> its fees by type
  schedules,  \* fee_schedules
  answer      \* the SaleRecorded last answered, or NoAnswer

vars == <<legs, fees, schedules, answer>>

NoAnswer == [leg |-> 0, net |-> 0]

-----------------------------------------------------------------------------
(* Recording *)

(* The invariants Transaction.record holds its row to. *)
IsValid(leg) ==
  /\ leg.from # leg.to
  /\ leg.sent.minor > 0 /\ leg.received.minor > 0
  /\ leg.rate # NoRate => leg.sent.currency # leg.received.currency

EnteredLeg(kind, e, received) ==
  [kind |-> kind, date |-> e.date, from |-> e.from, to |-> e.to,
   sent |-> FromDecimal(e.sent, e.fromCurrency), received |-> received,
   rate |-> e.rate]

(* The amounts of a movement are typed, both of them. *)
MovementLeg(kind, e) ==
  EnteredLeg(kind, e, FromDecimal(e.received, e.toCurrency))

(* Faulty: the proceeds of a sale are accepted from the form. *)
TypedProceeds(e) == FromDecimal(e.received, e.toCurrency)

(* The proceeds of a sale follow from the rate; no amount is accepted. *)
Proceeds(e) ==
  MultiplyByRate(FromDecimal(e.sent, e.fromCurrency), e.rate, e.toCurrency, "half-up")

SaleLeg(e) == EnteredLeg("sale", e, Proceeds(e))

(* The charge the form shows until somebody types over it. *)
FilledCharge(e) ==
  ImpliedCharge(e.sent, e.received, e.fromCurrency = e.toCurrency, e.rate)

(* Faulty: the charge is filed in the currency that arrived. *)
ChargeInTarget(e, type, charge) ==
  IF charge # NoCharge /\ Fits(charge, e.toCurrency)
  THEN [NoFees EXCEPT ![type] = FromDecimal(charge, e.toCurrency)]
  ELSE NoFees

(* A charge with more decimals than the currency holds is refused after the *)
(* leg has been inserted: the leg stays without it.                         *)
ChargeFees(e, type, charge) ==
  IF charge # NoCharge /\ Fits(charge, e.fromCurrency)
  THEN [NoFees EXCEPT ![type] = FromDecimal(charge, e.fromCurrency)]
  ELSE NoFees

RecordTransaction(l, e, type, charge) ==
  LET leg == MovementLeg("movement", e) IN
  /\ IsNextRowId(l, DOMAIN legs)
  /\ Fits(e.sent, e.fromCurrency) /\ Fits(e.received, e.toCurrency)
  /\ IsValid(leg)
  /\ legs' = WithRow(legs, l, leg)
  /\ fees' = WithRow(fees, l, ChargeFees(e, type, charge))
  /\ answer' = NoAnswer
  /\ UNCHANGED schedules

(* What the schedules say, then the tds of the statement over it.  A tds    *)
(* that does not parse is Ledger's: here it is an amount.                   *)
SaleFees(e, expected, tds) ==
  IF tds = NoTds THEN expected
  ELSE [expected EXCEPT !["tds"] = Amount(tds, e.toCurrency)]

(* Faulty: the answer forgets the tds. *)
AnswerBeforeTds(l, e, leg, expected, tds) ==
  [leg |-> l, net |-> leg.received.minor - TotalFees(expected, e.toCurrency)]

(* The fees answered are listed as they were written, the tds last. *)
SaleRecorded(l, e, leg, expected, tds) ==
  [leg |-> l,
   net |-> leg.received.minor - TotalFees(expected, e.toCurrency)
             - (IF tds = NoTds THEN 0 ELSE tds)]

(* The schema of a sale requires a rate.  expectedFees may throw after the  *)
(* leg has been inserted: the leg stays, without a fee.                     *)
RecordSale(l, e, tds) ==
  LET leg == SaleLeg(e)
      S == Applicable(leg, schedules)
      expected == ExpectedFees(leg, S, "half-up")
      filed == IF Resolvable(S) THEN SaleFees(e, expected, tds) ELSE NoFees IN
  /\ IsNextRowId(l, DOMAIN legs)
  /\ e.rate # NoRate
  /\ Fits(e.sent, e.fromCurrency)
  /\ IsValid(leg)
  /\ legs' = WithRow(legs, l, leg)
  /\ fees' = WithRow(fees, l, filed)
  /\ answer' = IF Resolvable(S) THEN SaleRecorded(l, e, leg, expected, tds)
                                ELSE NoAnswer
  /\ UNCHANGED schedules

(* Both amounts and the rate are replaced, whatever the kind; the kind and  *)
(* the fees are carried.                                                    *)
EditTransaction(l, e) ==
  /\ l \in DOMAIN legs
  /\ Fits(e.sent, e.fromCurrency) /\ Fits(e.received, e.toCurrency)
  /\ IsValid(MovementLeg(legs[l].kind, e))
  /\ legs' = [legs EXCEPT ![l] = MovementLeg(legs[l].kind, e)]
  /\ answer' = NoAnswer
  /\ UNCHANGED <<fees, schedules>>

(* Faulty: foreign keys are off, nothing cascades. *)
FeesKept(doomed) == fees

(* The fee rows go with their leg, by ON DELETE CASCADE. *)
FeesWithout(doomed) == Without(fees, doomed)

(* A leg and what hangs below it; which legs those are is Ledger's, here it *)
(* may be any.  DeletePayout takes all of them.                             *)
DeleteTransaction(doomed) ==
  /\ doomed # {}
  /\ legs' = Without(legs, doomed)
  /\ fees' = FeesWithout(doomed)
  /\ answer' = NoAnswer
  /\ UNCHANGED schedules

-----------------------------------------------------------------------------
(* Reports *)

(* What a sale is worth before fees, recomputed when there is a rate. *)
GrossProceeds(leg) ==
  IF leg.rate = NoRate THEN leg.received
  ELSE MultiplyByRate(leg.sent, leg.rate, leg.received.currency, "half-up")

Sales == {l \in DOMAIN legs : legs[l].kind = "sale"}

SettledSales == {l \in Sales : legs[l].received.currency = Settlement}

NetCredited ==
  SumFunction([l \in SettledSales |-> GrossProceeds(legs[l]).minor])
    - SumFunction([l \in DOMAIN legs |-> TotalFees(fees[l], Settlement)])

(* Faulty: a fee in neither money is debited from nobody. *)
ReceiverDebit(leg, fee, a) ==
  IF fee.currency = leg.received.currency /\ a = leg.to THEN fee.minor ELSE 0

(* The side a fee is debited from: the receiver when it holds that money,   *)
(* nobody when the payer does, for the sent amount includes it, and the     *)
(* payer when neither does.                                                 *)
FeeDebit(leg, fee, a) ==
  IF \/ fee.currency = leg.received.currency /\ a = leg.to
     \/ fee.currency \notin {leg.received.currency, leg.sent.currency} /\ a = leg.from
  THEN fee.minor ELSE 0

Debited(leg, rows, a) ==
  [type \in FeeTypes |->
     Amount(FeeDebit(leg, rows[type], a), rows[type].currency)]

LegDelta(l, a, c) ==
  LET leg == legs[l] IN
    (IF leg.to = a /\ leg.received.currency = c THEN leg.received.minor ELSE 0)
      - (IF leg.from = a /\ leg.sent.currency = c THEN leg.sent.minor ELSE 0)
      - TotalFees(Debited(leg, fees[l], a), c)

Balance(a, c) == SumFunction([l \in DOMAIN legs |-> LegDelta(l, a, c)])

(* A hundredth of a major unit, and never less than a minor one. *)
Tolerance(c) == IF Unit[c] < 100 THEN 1 ELSE Unit[c] \div 100

(* How far the received amount is from what rate and source fees imply. *)
Drift(l) ==
  LET leg == legs[l]
      sourceFees == TotalFees(fees[l], leg.sent.currency)
      kept == Amount(leg.sent.minor - sourceFees, leg.sent.currency) IN
  Magnitude(leg.received.minor
              - MultiplyByRate(kept, leg.rate, leg.received.currency, "half-up").minor)

MissingRate(l) ==
  legs[l].sent.currency # legs[l].received.currency /\ legs[l].rate = NoRate

Unreconciled(l) ==
  legs[l].rate # NoRate /\ Drift(l) > Tolerance(legs[l].received.currency)

FeeOffSchedule(l) ==
  LET expected == ExpectedFees(legs[l], Applicable(legs[l], schedules), "half-up")
  IN \E type \in FeeTypes : OffSchedule(expected[type], fees[l][type])

Flagged(l) == MissingRate(l) \/ Unreconciled(l) \/ FeeOffSchedule(l)

-----------------------------------------------------------------------------
NoRows == [l \in {} |-> l]

Init ==
  /\ legs = NoRows
  /\ fees = NoRows
  /\ schedules \in SchedulePlans
  /\ answer = NoAnswer

Charges(e) == TypedCharges \cup {FilledCharge(e), NoCharge}

NextRecord ==
  \E l \in LegIds, e \in Entries :
    \/ \E type \in SourceCurrencyFeeTypes, charge \in Charges(e) :
         RecordTransaction(l, e, type, charge)
    \/ \E tds \in TdsAmounts \cup {NoTds} : RecordSale(l, e, tds)

NextChange ==
  \/ \E l \in LegIds, e \in Entries : EditTransaction(l, e)
  \/ \E doomed \in SUBSET DOMAIN legs : DeleteTransaction(doomed)

Next == NextRecord \/ NextChange

Spec == Init /\ [][Next]_vars
-----------------------------------------------------------------------------
(* Properties *)

(* Amounts are whole minor units of a known currency, positive on a leg and *)
(* never negative on a fee; every leg has its fees and no other has.        *)
TypeOK ==
  /\ DOMAIN legs \subseteq LegIds /\ legs \in [DOMAIN legs -> Leg]
  /\ \A l \in DOMAIN legs : IsValid(legs[l])
  /\ fees \in [DOMAIN legs -> [FeeTypes -> Fee]]
  /\ schedules \in SchedulePlans
  /\ answer \in [leg : Nat, net : Int]

(* The schedules the application was built for: shares of the proceeds or   *)
(* of the exchange fee, flat fees not taken from what was sent, no tds.     *)
OnReceivingSide(S, leg) ==
  \A s \in S : /\ s.type # "tds"
               /\ s.basis \in {"to_amount", "exchange_fee", "flat"}
               /\ s.basis = "flat" => s.flat.currency # leg.sent.currency

(* A sale that was just recorded raises no issue about its rate, amounts or *)
(* fees: the fee engine and the conversion that wrote it agree with the     *)
(* sweep, although one works on the command and the other on what is filed. *)
FreshSaleIsClean ==
  [][\A l \in LegIds, e \in Entries, tds \in TdsAmounts \cup {NoTds} :
       LET S == Applicable(SaleLeg(e), schedules) IN
       RecordSale(l, e, tds) /\ Resolvable(S) /\ OnReceivingSide(S, SaleLeg(e))
         => ~Flagged(l)']_vars

(* What the answer to a sale into the settlement currency says was credited *)
(* is what the settlement of the payout moves by, while, as fee-engine.ts   *)
(* has it, tds follows no schedule.                                         *)
AnswerIsOnFile ==
  [][/\ answer' \notin {answer, NoAnswer}
     /\ legs'[answer'.leg].received.currency = Settlement
     /\ \A s \in schedules : s.type # "tds"
     => NetCredited' - NetCredited = answer'.net]_vars

(* With schedules of tds too, whose expected row the typed one replaces.    *)
AnswerIsAlwaysOnFile ==
  [][/\ answer' \notin {answer, NoAnswer}
     /\ legs'[answer'.leg].received.currency = Settlement
     => NetCredited' - NetCredited = answer'.net]_vars

(* The digits somebody typed are all the currency keeps. *)
InFull(typed, c) == typed.unit = Unit[c]

(* A minor unit of `from' is worth no more at the rate than the tolerance.  *)
FineEnough(e) ==
  e.rate * Unit[e.toCurrency] <= Tolerance(e.toCurrency) * Unit[e.fromCurrency] * RateUnit

(* A movement recorded with the charge the form filled in reconciles: what  *)
(* impliedCharge takes off is what the sweep adds back.  It does where the  *)
(* sent amount was typed to its last digit and the rate is fine enough.     *)
FilledChargeReconciles ==
  [][\A l \in LegIds, e \in Entries, type \in SourceCurrencyFeeTypes :
       /\ RecordTransaction(l, e, type, FilledCharge(e))
       /\ FilledCharge(e) # NoCharge
       /\ InFull(e.sent, e.fromCurrency) /\ FineEnough(e)
       => ~Unreconciled(l)']_vars

(* The settlement and the balances are two sums over the same rows: where   *)
(* only sales bring in the settlement currency and the sweep reconciles     *)
(* them, they agree to within its tolerance for each sale.                  *)
OnlySalesSettle ==
  \A l \in DOMAIN legs :
    /\ legs[l].sent.currency # Settlement
    /\ IF l \in Sales THEN TotalFees(fees[l], legs[l].sent.currency) = 0
                      ELSE legs[l].received.currency # Settlement

SettlementIsHeld ==
  OnlySalesSettle /\ (\A l \in Sales : ~Unreconciled(l)) =>
    Magnitude(NetCredited - SumFunction([a \in Accounts |-> Balance(a, Settlement)]))
      <= Cardinality(Sales) * Tolerance(Settlement)

(* get-account-balances.ts says of a fee in the source currency that it is  *)
(* already inside the sent amount: recording a leg with the charge that the *)
(* two amounts imply moves each account by its amount and nothing else.     *)
ChargeIsCountedOnce ==
  [][\A l \in LegIds, e \in Entries, type \in SourceCurrencyFeeTypes :
       RecordTransaction(l, e, type, FilledCharge(e)) =>
         /\ Balance(e.to, e.toCurrency)' - Balance(e.to, e.toCurrency)
              = FromDecimal(e.received, e.toCurrency).minor
         /\ Balance(e.from, e.fromCurrency) - Balance(e.from, e.fromCurrency)'
              = FromDecimal(e.sent, e.fromCurrency).minor]_vars
=============================================================================

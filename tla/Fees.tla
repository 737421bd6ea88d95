-------------------------------- MODULE Fees --------------------------------
(***************************************************************************)
(* Fee schedules and the fee engine: domain/fee-schedule.ts, fee-engine.ts *)
(* and the fees a leg has on file.                                         *)
(*                                                                         *)
(* A leg has at most one fee of a type (a UNIQUE constraint and an upsert) *)
(* so the fees of a leg are a function of the type, NoFee where no row is. *)
(* The schedules of an account are a set: neither the code nor the SQL     *)
(* gives their order a meaning.                                            *)
(***************************************************************************)
EXTENDS Money

CONSTANTS Accounts, Dates, ToleranceBps

ASSUME FeeConstants ==
  /\ "none" \notin Currencies
  /\ Dates \subseteq Nat /\ ToleranceBps \in Nat

FeeTypes == {"tds", "exchange_fee", "gst", "network_fee", "platform_charge"}
SourceCurrencyFeeTypes == {"network_fee", "platform_charge"}
Bases == {"to_amount", "from_amount", "exchange_fee", "flat"}

NoFee == Amount(0, "none")
Fee == {fee \in Money : fee.minor >= 0} \cup {NoFee}
NoFees == [type \in FeeTypes |-> NoFee]
Forever == -1

(* `bps' is 0 on a flat basis, `flat' is NoFee on every other. *)
Schedule ==
  {s \in [id : Nat, account : Accounts, type : FeeTypes, basis : Bases,
          bps : Nat, flat : Fee, since : Dates, until : Dates \cup {Forever}] :
     /\ (s.basis = "flat") = (s.flat # NoFee)
     /\ s.basis = "flat" => s.bps = 0
     /\ s.until = Forever \/ s.since <= s.until}

AppliesOn(s, date) == s.since <= date /\ (s.until = Forever \/ date <= s.until)

(* The paying side's schedules in force on the day. *)
Applicable(leg, schedules) ==
  {s \in schedules : s.account = leg.from /\ AppliesOn(s, leg.date)}

IsDerived(s) == s.basis = "exchange_fee"

ExchangeFees(S) == {s \in S : s.type = "exchange_fee" /\ ~IsDerived(s)}

(* expectedFees throws when two schedules are in force for one type, or a   *)
(* fee is a share of an exchange fee that nothing declares.                 *)
Resolvable(S) ==
  /\ \A s, t \in S : s.type = t.type => s = t
  /\ \A s \in S : IsDerived(s) => ExchangeFees(S) # {}

DirectFee(leg, s, mode) ==
  CASE s.basis = "to_amount" -> Percentage(leg.received, s.bps, mode)
    [] s.basis = "from_amount" -> Percentage(leg.sent, s.bps, mode)
    [] OTHER -> s.flat

FeeOf(leg, S, s, mode) ==
  IF IsDerived(s)
  THEN Percentage(DirectFee(leg, CHOOSE t \in ExchangeFees(S) : TRUE, mode),
                  s.bps, mode)
  ELSE DirectFee(leg, s, mode)

(* What the schedules S say the fees of the leg should be. *)
ExpectedFees(leg, S, mode) ==
  [type \in FeeTypes |->
     IF \E s \in S : s.type = type
     THEN FeeOf(leg, S, CHOOSE s \in S : s.type = type, mode)
     ELSE NoFee]

(* compareToActual, for one type: missing, in another money, or too far. *)
OffSchedule(expected, actual) ==
  /\ expected # NoFee
  /\ \/ actual.currency # expected.currency
     \/ Magnitude(actual.minor - expected.minor)
          > Percentage(expected, ToleranceBps, "half-up").minor

InCurrency(fee, c) == IF fee.currency = c THEN fee.minor ELSE 0

(* The sum of the fees denominated in c: one term for each of FeeTypes. *)
TotalFees(fees, c) ==
  InCurrency(fees["tds"], c) + InCurrency(fees["exchange_fee"], c)
    + InCurrency(fees["gst"], c) + InCurrency(fees["network_fee"], c)
    + InCurrency(fees["platform_charge"], c)
=============================================================================

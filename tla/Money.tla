------------------------------- MODULE Money --------------------------------
(***************************************************************************)
(* Exact money: a count of minor units and a currency, packages/core's     *)
(* domain/money.ts, and the arithmetic over typed decimals of charge.ts.   *)
(*                                                                         *)
(* The powers of ten are constants, so that a small instance can use small *)
(* ones: Unit[c] is 10^scale of currency c, RateUnit the 1e8 a rate is     *)
(* stored at, BasisPoints the 10_000 of a percentage.  bigint arithmetic   *)
(* is exact, as that of TLA+ is.                                           *)
(***************************************************************************)
EXTENDS Integers

CONSTANTS Currencies, Unit, RateUnit, BasisPoints

Positive == Nat \ {0}

ASSUME MoneyConstants ==
  /\ Unit \in [Currencies -> Positive]
  /\ RateUnit \in Positive /\ BasisPoints \in Positive

Money == [minor : Int, currency : Currencies]
Amount(minor, currency) == [minor |-> minor, currency |-> currency]

Modes == {"half-up", "half-even", "toward-zero", "away-from-zero"}

Magnitude(n) == IF n < 0 THEN -n ELSE n

(* Whether the quotient of two magnitudes goes up by one. *)
RoundsUp(quotient, remainder, denominator, mode) ==
  /\ remainder # 0
  /\ \/ mode = "away-from-zero"
     \/ mode = "half-up" /\ remainder * 2 >= denominator
     \/ mode = "half-even" /\ \/ remainder * 2 > denominator
                              \/ remainder * 2 = denominator /\ quotient % 2 # 0

DivideMagnitude(n, d, mode) ==
  n \div d + (IF RoundsUp(n \div d, n % d, d, mode) THEN 1 ELSE 0)

DivideRounded(n, d, mode) ==
  IF n < 0 THEN -DivideMagnitude(-n, d, mode) ELSE DivideMagnitude(n, d, mode)

(* A rate is worth rate / RateUnit of the target for one of the source. *)
MultiplyByRate(money, rate, target, mode) ==
  Amount(DivideRounded(money.minor * rate * Unit[target],
                       Unit[money.currency] * RateUnit, mode), target)

DivideByRate(money, rate, source, mode) ==
  Amount(DivideRounded(money.minor * RateUnit * Unit[source],
                       Unit[money.currency] * rate, mode), source)

Percentage(money, bps, mode) ==
  Amount(DivideRounded(money.minor * bps, BasisPoints, mode), money.currency)

-----------------------------------------------------------------------------
(* A decimal as somebody typed it: `digits' without the point, and `unit',  *)
(* ten to the number of digits after it.  "250" and "250.00" differ.        *)
Typed == [digits : Nat, unit : Positive]

(* fromDecimalString refuses more decimals than the currency holds. *)
Fits(typed, currency) == Unit[currency] % typed.unit = 0

FromDecimal(typed, currency) ==
  Amount(typed.digits * (Unit[currency] \div typed.unit), currency)

DivideHalfUp(n, d) == (n * 2 + d) \div (d * 2)

(* What impliedCharge answers, and `no answer' when it would be a guess.    *)
NoCharge == [digits |-> 0, unit |-> 0]

Finer(one, other) == IF one.unit > other.unit THEN one.unit ELSE other.unit

(* The difference of two amounts of the same money, at the finer scale. *)
KeptDirectly(sent, received) ==
  LET unit == Finer(sent, received) IN
  [digits |-> sent.digits * (unit \div sent.unit)
                - received.digits * (unit \div received.unit),
   unit |-> unit]

(* The arrival taken back through the rate, at the scale of what was sent. *)
KeptThroughRate(sent, received, rate) ==
  [digits |-> sent.digits - DivideHalfUp(received.digits * RateUnit * sent.unit,
                                         rate * received.unit),
   unit |-> sent.unit]

ImpliedCharge(sent, received, sameMoney, rate) ==
  LET kept == IF sameMoney THEN KeptDirectly(sent, received)
                           ELSE KeptThroughRate(sent, received, rate) IN
  IF (~sameMoney /\ rate = 0) \/ kept.digits <= 0 THEN NoCharge ELSE kept
=============================================================================

---------------------------- MODULE BooksProofs -----------------------------
(***************************************************************************)
(* Theorems about Books and the arithmetic below it: what the divisions of *)
(* Money compute for every numerator, denominator, rate and scale, and     *)
(* what Books records for every set of currencies and scales, every entry  *)
(* somebody may type and every set of schedules.                           *)
(***************************************************************************)
EXTENDS Books, FiniteSetTheorems, WellFoundedInduction, TLAPS

-----------------------------------------------------------------------------
(* The divisions of Money *)

(* The quotient and the remainder that \div and % are. *)
LEMMA Euclid ==
  ASSUME NEW n \in Int, NEW d \in Positive
  PROVE  /\ n \div d \in Int /\ n % d \in Int
         /\ n = d * (n \div d) + (n % d)
         /\ 0 <= n % d /\ n % d < d
BY DEF Positive

(* There is one quotient: the integer whose product is at most d below n.   *)
LEMMA QuotientIsUnique ==
  ASSUME NEW n \in Int, NEW d \in Positive, NEW q \in Int,
         d * q <= n, n < d * q + d
  PROVE  n \div d = q
BY Euclid DEF Positive

LEMMA QuotientOfNat ==
  ASSUME NEW n \in Nat, NEW d \in Positive
  PROVE  n \div d \in Nat
BY Euclid DEF Positive

LEMMA ProductIsPositive ==
  ASSUME NEW a \in Positive, NEW b \in Positive
  PROVE  a * b \in Positive
BY DEF Positive

(* Widening a fraction leaves its quotient alone. *)
LEMMA QuotientOfScaled ==
  ASSUME NEW n \in Int, NEW d \in Positive, NEW f \in Positive
  PROVE  (n * f) \div (d * f) = n \div d
<1> DEFINE q == n \div d
<1>1. q \in Int /\ d * q <= n /\ n < d * q + d
  BY Euclid DEF Positive
<1>2. f * (d * q) <= f * n /\ f * n < f * (d * q + d)
  BY <1>1 DEF Positive
<1>3. (d * f) * q <= n * f /\ n * f < (d * f) * q + (d * f)
  BY <1>1, <1>2 DEF Positive
<1>4. d * f \in Positive /\ n * f \in Int
  BY ProductIsPositive DEF Positive
<1> QED
  BY <1>1, <1>3, <1>4, QuotientIsUnique

(* divideRounded answers an integer, and never a negative one for a         *)
(* numerator that is not.                                                   *)
LEMMA RoundedIsInt ==
  ASSUME NEW n \in Int, NEW d \in Positive, NEW mode
  PROVE  /\ DivideRounded(n, d, mode) \in Int
         /\ n >= 0 => DivideRounded(n, d, mode) >= 0
<1>1. ASSUME NEW m \in Nat
      PROVE  DivideMagnitude(m, d, mode) \in Nat
  BY QuotientOfNat DEF DivideMagnitude
<1> QED
  BY <1>1 DEF DivideRounded

(* The half-up rounding of charge.ts and that of Money are one: their       *)
(* comments say so of two formulas that share nothing.                      *)
THEOREM ChargeRoundsAsMoney ==
  ASSUME NEW n \in Nat, NEW d \in Positive
  PROVE  DivideHalfUp(n, d) = DivideRounded(n, d, "half-up")
<1> DEFINE q == n \div d
           r == n % d
<1>1. /\ q \in Nat /\ r \in Nat /\ r < d
      /\ n = d * q + r
  BY Euclid, QuotientOfNat DEF Positive
<1>2. DivideRounded(n, d, "half-up")
        = q + (IF r # 0 /\ r * 2 >= d THEN 1 ELSE 0)
  BY <1>1 DEF DivideRounded, DivideMagnitude, RoundsUp
<1> HIDE DEF q, r
<1>3. n * 2 + d \in Int /\ d * 2 \in Positive
  BY DEF Positive
<1>4. CASE r # 0 /\ r * 2 >= d
  <2>1. (d * 2) * (q + 1) <= n * 2 + d
    BY <1>1, <1>4 DEF Positive
  <2>2. n * 2 + d < (d * 2) * (q + 1) + d * 2
    BY <1>1, <1>4 DEF Positive
  <2> QED
    BY <1>1, <1>2, <1>3, <1>4, <2>1, <2>2, QuotientIsUnique DEF DivideHalfUp
<1>5. CASE ~(r # 0 /\ r * 2 >= d)
  <2>0. r * 2 < d
    BY <1>1, <1>5 DEF Positive
  <2>1. (d * 2) * q <= n * 2 + d
    BY <1>1, <2>0 DEF Positive
  <2>2. n * 2 + d < (d * 2) * q + d * 2
    BY <1>1, <2>0 DEF Positive
  <2> QED
    BY <1>1, <1>2, <1>3, <1>5, <2>1, <2>2, QuotientIsUnique DEF DivideHalfUp
<1> QED
  BY <1>4, <1>5

(* Half-up is the nearest minor unit: no more than half of one away, on     *)
(* either side of zero.                                                     *)
THEOREM HalfUpIsNearest ==
  ASSUME NEW n \in Int, NEW d \in Positive
  PROVE  2 * Magnitude(n - d * DivideRounded(n, d, "half-up")) <= d
<1>1. ASSUME NEW m \in Nat
      PROVE  /\ DivideMagnitude(m, d, "half-up") \in Int
             /\ 2 * (m - d * DivideMagnitude(m, d, "half-up")) <= d
             /\ 2 * (d * DivideMagnitude(m, d, "half-up") - m) <= d
  <2> DEFINE q == m \div d
             r == m % d
  <2>1. /\ q \in Int /\ r \in Int /\ 0 <= r /\ r < d
        /\ m = d * q + r
    BY Euclid DEF Positive
  <2>2. DivideMagnitude(m, d, "half-up")
          = q + (IF r # 0 /\ r * 2 >= d THEN 1 ELSE 0)
    BY DEF DivideMagnitude, RoundsUp
  <2> HIDE DEF q, r
  <2>3. CASE r # 0 /\ r * 2 >= d
    <3>1. d * (q + 1) = d * q + d
      BY <2>1 DEF Positive
    <3> QED
      BY <2>1, <2>2, <2>3, <3>1 DEF Positive
  <2>4. CASE ~(r # 0 /\ r * 2 >= d)
    BY <2>1, <2>2, <2>4 DEF Positive
  <2> QED
    BY <2>3, <2>4
<1>2. CASE n >= 0
  BY <1>1, <1>2 DEF DivideRounded, Magnitude, Positive
<1>3. CASE n < 0
  <2> DEFINE x == DivideMagnitude(-n, d, "half-up")
  <2>1. /\ x \in Int
        /\ 2 * (-n - d * x) <= d
        /\ 2 * (d * x - (-n)) <= d
    BY <1>1, <1>3
  <2>2. DivideRounded(n, d, "half-up") = -x
    BY <1>3 DEF DivideRounded
  <2> HIDE DEF x
  <2>3. d * (-x) = -(d * x) /\ d * x \in Int
    BY <2>1 DEF Positive
  <2> QED
    BY <2>1, <2>2, <2>3 DEF Magnitude, Positive
<1> QED
  BY <1>2, <1>3

-----------------------------------------------------------------------------
(* Conversions *)

LEMMA ScaleIsPositive ==
  ASSUME NEW c \in Currencies, NEW d \in Currencies, NEW rate \in Positive
  PROVE  /\ Unit[c] \in Positive /\ RateUnit \in Positive
         /\ BasisPoints \in Positive
         /\ Unit[c] * RateUnit \in Positive
         /\ RateUnit * Unit[c] \in Positive
         /\ Unit[d] * rate \in Positive
BY MoneyConstants, ProductIsPositive

LEMMA ConversionIsMoney ==
  ASSUME NEW money \in Money, NEW rate \in Nat, NEW target \in Currencies,
         NEW mode
  PROVE  MultiplyByRate(money, rate, target, mode) \in Money
<1>1. /\ money.minor \in Int /\ money.currency \in Currencies
  BY DEF Money
<1>2. /\ Unit[target] \in Positive
      /\ Unit[money.currency] * RateUnit \in Positive
  BY <1>1, MoneyConstants, ProductIsPositive
<1>3. money.minor * rate * Unit[target] \in Int
  BY <1>1, <1>2 DEF Positive
<1> QED
  BY <1>2, <1>3, RoundedIsInt DEF MultiplyByRate, Amount, Money

LEMMA ShareIsMoney ==
  ASSUME NEW money \in Money, NEW bps \in Nat, NEW mode
  PROVE  /\ Percentage(money, bps, mode) \in Money
         /\ money.minor >= 0 => Percentage(money, bps, mode).minor >= 0
         /\ Percentage(money, bps, mode).currency = money.currency
<1>1. /\ money.minor \in Int /\ money.currency \in Currencies
  BY DEF Money
<1>2. money.minor * bps \in Int
  BY <1>1
<1>3. money.minor >= 0 => money.minor * bps >= 0
  BY <1>1
<1> QED
  BY <1>1, <1>2, <1>3, MoneyConstants, RoundedIsInt DEF Percentage, Amount, Money

(* There and back through a rate: half a source unit at the rate and half a *)
(* target unit.  Where a source unit is worth no more than `t' target       *)
(* units, no more than t is lost.                                           *)
THEOREM RateRoundTrip ==
  ASSUME NEW money \in Money, NEW rate \in Positive, NEW source \in Currencies,
         NEW t \in Positive,
         Unit[money.currency] * rate <= t * (RateUnit * Unit[source])
  PROVE  LET worth == DivideByRate(money, rate, source, "half-up")
             back == MultiplyByRate(worth, rate, money.currency, "half-up")
         IN  Magnitude(money.minor - back.minor) <= t
<1> DEFINE m == money.minor
           A == RateUnit * Unit[source]
           B == Unit[money.currency] * rate
           W == DivideRounded(m * A, B, "half-up")
           E == DivideRounded(W * B, A, "half-up")
<1>1. /\ m \in Int /\ A \in Positive /\ B \in Positive
      /\ Unit[money.currency] \in Positive /\ Unit[source] \in Positive
      /\ RateUnit \in Positive
  BY ScaleIsPositive DEF Money
<1>2. /\ W \in Int /\ E \in Int
      /\ m * A \in Int /\ W * B \in Int
  <2>1. m * A \in Int
    BY <1>1 DEF Positive
  <2>2. W \in Int
    BY <1>1, <2>1, RoundedIsInt
  <2>3. W * B \in Int
    BY <1>1, <2>2 DEF Positive
  <2> QED
    BY <1>1, <2>1, <2>2, <2>3, RoundedIsInt
<1>3. 2 * Magnitude(m * A - B * W) <= B
  BY <1>1, <1>2, HalfUpIsNearest
<1>4. 2 * Magnitude(W * B - A * E) <= A
  BY <1>1, <1>2, HalfUpIsNearest
<1>5. /\ m * RateUnit * Unit[source] = m * A
      /\ W * rate * Unit[money.currency] = W * B
      /\ Unit[source] * RateUnit = A
  BY <1>1, <1>2 DEF Positive
<1>6. /\ DivideByRate(money, rate, source, "half-up") = Amount(W, source)
      /\ MultiplyByRate(Amount(W, source), rate, money.currency, "half-up").minor = E
  BY <1>5 DEF DivideByRate, MultiplyByRate, Amount
<1>7. B <= t * A
  OBVIOUS
<1> HIDE DEF m, A, B, W, E
<1>8. 2 * Magnitude(m * A - A * E) <= A + B
  <2>1. B * W = W * B
    BY <1>1, <1>2 DEF Positive
  <2>2. A * E \in Int /\ m * A \in Int /\ W * B \in Int
    BY <1>1, <1>2 DEF Positive
  <2> HIDE DEF Magnitude
  <2> QED
    BY <1>1, <1>3, <1>4, <2>1, <2>2 DEF Magnitude, Positive
<1>9. m * A - A * E = A * (m - E)
  BY <1>1, <1>2 DEF Positive
<1>10. Magnitude(m - E) \in Nat /\ Magnitude(A * (m - E)) = A * Magnitude(m - E)
  BY <1>1, <1>2 DEF Magnitude, Positive
<1>11. A * (2 * Magnitude(m - E)) <= A * (1 + t)
  BY <1>1, <1>2, <1>7, <1>8, <1>9, <1>10 DEF Positive
<1>12. 2 * Magnitude(m - E) <= 1 + t
  BY <1>1, <1>10, <1>11 DEF Positive
<1>13. Magnitude(m - E) <= t
  BY <1>10, <1>12 DEF Positive
<1> QED
  BY <1>6, <1>13 DEF m

(* charge.ts promises "the same sum Money.subtract would do".  It is that   *)
(* sum, when the sent amount was typed to the last digit its currency       *)
(* keeps: the charge filled in is what was sent less the arrival divided    *)
(* back through the rate.                                                   *)
THEOREM ChargeIsMoneysSum ==
  ASSUME NEW sent \in Typed, NEW received \in Typed, NEW rate \in Positive,
         NEW from \in Currencies, NEW to \in Currencies,
         sent.unit = Unit[from], Fits(received, to)
  PROVE  KeptThroughRate(sent, received, rate).digits
           = FromDecimal(sent, from).minor
               - DivideByRate(FromDecimal(received, to), rate, from, "half-up").minor
<1> DEFINE u == received.unit
           f == Unit[to] \div u
           n == received.digits * RateUnit * Unit[from]
           d == rate * u
<1>1. /\ sent.digits \in Nat /\ received.digits \in Nat /\ u \in Positive
      /\ Unit[from] \in Positive /\ Unit[to] \in Positive /\ RateUnit \in Positive
  BY MoneyConstants DEF Typed
<1>2. f \in Positive /\ Unit[to] = u * f
  <2>1. Unit[to] = u * f + (Unit[to] % u) /\ f \in Int
    <3>1. Unit[to] \in Int
      BY <1>1 DEF Positive
    <3> QED
      BY <1>1, <3>1, Euclid
  <2>2. Unit[to] % u = 0
    BY DEF Fits
  <2>3. Unit[to] = u * f
    BY <1>1, <2>1, <2>2 DEF Positive
  <2>4. f > 0
    <3> HIDE DEF f, u
    <3>1. CASE f <= 0
      <4>1. u * f <= 0
        BY <1>1, <2>1, <3>1 DEF Positive
      <4> QED
        BY <1>1, <2>3, <4>1 DEF Positive
    <3> QED
      BY <2>1, <3>1
  <2> QED
    BY <2>1, <2>3, <2>4 DEF Positive
<1>3. /\ n \in Nat /\ d \in Positive
      /\ n * f \in Nat /\ d * f \in Positive
  BY <1>1, <1>2 DEF Positive
<1>4. /\ (received.digits * f) * RateUnit * Unit[from] = n * f
      /\ Unit[to] * rate = d * f
  BY <1>1, <1>2 DEF Positive
<1>5. DivideHalfUp(n * f, d * f) = DivideHalfUp(n, d)
  <2>1. /\ n * f * 2 + d * f = (n * 2 + d) * f
        /\ d * f * 2 = (d * 2) * f
        /\ n * 2 + d \in Int /\ d * 2 \in Positive
    BY <1>2, <1>3 DEF Positive
  <2> HIDE DEF n, d, f
  <2> QED
    BY <1>2, <2>1, QuotientOfScaled DEF DivideHalfUp
<1>6. DivideRounded(n * f, d * f, "half-up") = DivideHalfUp(n, d)
  BY <1>3, <1>5, ChargeRoundsAsMoney
<1>7. DivideByRate(FromDecimal(received, to), rate, from, "half-up").minor
        = DivideRounded((received.digits * f) * RateUnit * Unit[from],
                        Unit[to] * rate, "half-up")
  BY DEF DivideByRate, FromDecimal, Amount
<1>8. FromDecimal(sent, from).minor = sent.digits
  <2>1. Unit[from] \div Unit[from] = 1
    BY <1>1, QuotientIsUnique DEF Positive
  <2> QED
    BY <1>1, <2>1 DEF FromDecimal, Amount
<1>9. KeptThroughRate(sent, received, rate).digits = sent.digits - DivideHalfUp(n, d)
  BY DEF KeptThroughRate
<1> QED
  BY <1>4, <1>6, <1>7, <1>8, <1>9

-----------------------------------------------------------------------------
(* The operators of Fees *)

LEMMA DecimalIsMoney ==
  ASSUME NEW typed \in Typed, NEW c \in Currencies
  PROVE  /\ FromDecimal(typed, c) \in Money
         /\ FromDecimal(typed, c).minor >= 0
<1>1. /\ typed.digits \in Nat /\ typed.unit \in Positive
      /\ Unit[c] \in Nat
  BY MoneyConstants DEF Typed, Positive
<1>2. Unit[c] \div typed.unit \in Nat
  BY <1>1, QuotientOfNat
<1>3. typed.digits * (Unit[c] \div typed.unit) \in Nat
  BY <1>1, <1>2
<1> QED
  BY <1>3 DEF FromDecimal, Amount, Money

LEMMA ScheduleFields ==
  ASSUME NEW s \in Schedule
  PROVE  /\ s.type \in FeeTypes /\ s.basis \in Bases
         /\ s.bps \in Nat /\ s.flat \in Fee
         /\ (s.basis = "flat") = (s.flat # NoFee)
BY DEF Schedule

LEMMA NoFeeIsNoMoney == NoFee \notin Money /\ NoFee.currency = "none" /\ NoFee.minor = 0
BY FeeConstants DEF NoFee, Money, Amount

(* What a leg has to be for its fees to be computed. *)
Priced(leg) ==
  /\ leg.sent \in Money /\ leg.sent.minor > 0
  /\ leg.received \in Money /\ leg.received.minor > 0

(* A fee that can be computed from the leg alone is money, not negative, in *)
(* the currency its basis names.                                            *)
LEMMA DirectFeeIsFee ==
  ASSUME NEW leg, Priced(leg), NEW s \in Schedule, ~IsDerived(s), NEW mode
  PROVE  /\ DirectFee(leg, s, mode) \in Money
         /\ DirectFee(leg, s, mode).minor >= 0
         /\ s.basis = "to_amount" =>
              DirectFee(leg, s, mode).currency = leg.received.currency
         /\ s.basis = "flat" => DirectFee(leg, s, mode) = s.flat
<1>1. s.basis \in {"to_amount", "from_amount", "flat"}
  BY ScheduleFields DEF Bases, IsDerived
<1>2. CASE s.basis = "to_amount"
  <2>1. DirectFee(leg, s, mode) = Percentage(leg.received, s.bps, mode)
    BY <1>2 DEF DirectFee
  <2>2. leg.received \in Money /\ leg.received.minor >= 0 /\ s.bps \in Nat
    BY ScheduleFields DEF Priced, Money
  <2> QED
    BY <1>2, <2>1, <2>2, ShareIsMoney
<1>3. CASE s.basis = "from_amount"
  <2>1. DirectFee(leg, s, mode) = Percentage(leg.sent, s.bps, mode)
    BY <1>3 DEF DirectFee
  <2>2. leg.sent \in Money /\ leg.sent.minor >= 0 /\ s.bps \in Nat
    BY ScheduleFields DEF Priced, Money
  <2> QED
    BY <1>3, <2>1, <2>2, ShareIsMoney
<1>4. CASE s.basis = "flat"
  <2>1. DirectFee(leg, s, mode) = s.flat
    BY <1>4 DEF DirectFee
  <2> QED
    BY <1>4, <2>1, ScheduleFields DEF Fee
<1> QED
  BY <1>1, <1>2, <1>3, <1>4

(* So is every fee the schedules resolve to, and none of them is a fee in   *)
(* the sent currency when the schedules are on the receiving side.          *)
LEMMA FeeOfIsFee ==
  ASSUME NEW leg, Priced(leg), NEW S \in SUBSET Schedule, Resolvable(S),
         NEW s \in S, NEW mode
  PROVE  /\ FeeOf(leg, S, s, mode) \in Money
         /\ FeeOf(leg, S, s, mode).minor >= 0
         /\ OnReceivingSide(S, leg) /\ leg.received.currency # leg.sent.currency
              => FeeOf(leg, S, s, mode).currency # leg.sent.currency
<1>1. s \in Schedule /\ s.bps \in Nat
  BY ScheduleFields
<1>2. CASE ~IsDerived(s)
  <2>1. FeeOf(leg, S, s, mode) = DirectFee(leg, s, mode)
    BY <1>2 DEF FeeOf
  <2>2. /\ DirectFee(leg, s, mode) \in Money
        /\ DirectFee(leg, s, mode).minor >= 0
    BY <1>1, <1>2, DirectFeeIsFee
  <2>3. ASSUME OnReceivingSide(S, leg), leg.received.currency # leg.sent.currency
        PROVE  DirectFee(leg, s, mode).currency # leg.sent.currency
    <3>1. /\ s.basis \in {"to_amount", "flat"}
          /\ s.basis = "flat" => s.flat.currency # leg.sent.currency
      BY <1>2, <2>3 DEF OnReceivingSide, IsDerived
    <3> QED
      BY <1>1, <1>2, <2>3, <3>1, DirectFeeIsFee
  <2> QED
    BY <2>1, <2>2, <2>3
<1>3. CASE IsDerived(s)
  <2> DEFINE t == CHOOSE x \in ExchangeFees(S) : TRUE
  <2>1. t \in S /\ t \in Schedule /\ ~IsDerived(t)
    BY <1>3 DEF Resolvable, ExchangeFees
  <2>2. FeeOf(leg, S, s, mode) = Percentage(DirectFee(leg, t, mode), s.bps, mode)
    BY <1>3 DEF FeeOf
  <2> HIDE DEF t
  <2>3. /\ DirectFee(leg, t, mode) \in Money
        /\ DirectFee(leg, t, mode).minor >= 0
    BY <2>1, DirectFeeIsFee
  <2>4. ASSUME OnReceivingSide(S, leg), leg.received.currency # leg.sent.currency
        PROVE  DirectFee(leg, t, mode).currency # leg.sent.currency
    <3>1. /\ t.basis \in {"to_amount", "flat"}
          /\ t.basis = "flat" => t.flat.currency # leg.sent.currency
      BY <2>1, <2>4 DEF OnReceivingSide, IsDerived
    <3> QED
      BY <2>1, <2>4, <3>1, DirectFeeIsFee
  <2> QED
    BY <1>1, <2>2, <2>3, <2>4, ShareIsMoney
<1> QED
  BY <1>2, <1>3

LEMMA ExpectedFeesAreFees ==
  ASSUME NEW leg, Priced(leg), NEW S \in SUBSET Schedule, Resolvable(S), NEW mode
  PROVE  /\ ExpectedFees(leg, S, mode) \in [FeeTypes -> Fee]
         /\ OnReceivingSide(S, leg) /\ leg.received.currency # leg.sent.currency =>
              \A type \in FeeTypes :
                /\ ExpectedFees(leg, S, mode)[type].currency # leg.sent.currency
                /\ type = "tds" => ExpectedFees(leg, S, mode)[type] = NoFee
<1>1. ASSUME NEW type \in FeeTypes, NEW s \in S, s.type = type
      PROVE  \E t \in S : /\ t.type = type
                          /\ ExpectedFees(leg, S, mode)[type] = FeeOf(leg, S, t, mode)
  BY <1>1 DEF ExpectedFees
<1>2. ASSUME NEW type \in FeeTypes, ~\E s \in S : s.type = type
      PROVE  ExpectedFees(leg, S, mode)[type] = NoFee
  BY <1>2 DEF ExpectedFees
<1>3. ASSUME NEW type \in FeeTypes
      PROVE  ExpectedFees(leg, S, mode)[type] \in Fee
  BY <1>1, <1>2, FeeOfIsFee DEF Fee
<1>4. leg.sent.currency # "none"
  BY FeeConstants DEF Priced, Money
<1>5. ASSUME OnReceivingSide(S, leg), leg.received.currency # leg.sent.currency,
             NEW type \in FeeTypes
      PROVE  /\ ExpectedFees(leg, S, mode)[type].currency # leg.sent.currency
             /\ type = "tds" => ExpectedFees(leg, S, mode)[type] = NoFee
  <2>1. type = "tds" => ~\E s \in S : s.type = type
    BY <1>5 DEF OnReceivingSide
  <2> QED
    BY <1>1, <1>2, <1>4, <1>5, <2>1, FeeOfIsFee, NoFeeIsNoMoney
<1> QED
  BY <1>3, <1>5 DEF ExpectedFees

LEMMA TotalIsInt ==
  ASSUME NEW f \in [FeeTypes -> Fee], NEW c
  PROVE  TotalFees(f, c) \in Int
<1>1. ASSUME NEW fee \in Fee
      PROVE  InCurrency(fee, c) \in Int
  BY NoFeeIsNoMoney DEF InCurrency, Fee, Money
<1> QED
  BY <1>1 DEF TotalFees, FeeTypes

LEMMA TotalOfOthersIsZero ==
  ASSUME NEW f \in [FeeTypes -> Fee], NEW c,
         \A type \in FeeTypes : f[type].currency # c
  PROVE  TotalFees(f, c) = 0
BY DEF TotalFees, InCurrency, FeeTypes

-----------------------------------------------------------------------------
(* Rows *)

LEMMA EntryFields ==
  ASSUME NEW e \in Entries
  PROVE  /\ e.date \in Dates /\ e.from \in Accounts /\ e.to \in Accounts
         /\ e.sent \in Typed /\ e.fromCurrency \in Currencies
         /\ e.received \in Typed /\ e.toCurrency \in Currencies
         /\ e.rate \in Nat
BY BooksConstants DEF Entry

LEMMA EnteredLegsAreLegs ==
  ASSUME NEW e \in Entries, NEW kind \in Kinds
  PROVE  /\ MovementLeg(kind, e) \in Leg
         /\ SaleLeg(e) \in Leg
<1>1. /\ FromDecimal(e.sent, e.fromCurrency) \in Money
      /\ FromDecimal(e.received, e.toCurrency) \in Money
  BY EntryFields, DecimalIsMoney
<1>2. Proceeds(e) \in Money
  BY <1>1, EntryFields, ConversionIsMoney DEF Proceeds
<1> QED
  BY <1>1, <1>2, EntryFields DEF MovementLeg, SaleLeg, EnteredLeg, Leg, Kinds

LEMMA ValidLegIsPriced ==
  ASSUME NEW leg \in Leg, IsValid(leg)
  PROVE  Priced(leg)
BY DEF Leg, IsValid, Priced

LEMMA NoFeesAreFees == NoFees \in [FeeTypes -> Fee]
BY DEF NoFees, Fee

(* A charge on file is never negative: the form fills in none that would be. *)
LEMMA ChargesAreTyped ==
  ASSUME NEW e \in Entries, NEW charge \in Charges(e), charge # NoCharge
  PROVE  charge \in Typed
<1>1. CASE charge \in TypedCharges
  BY <1>1, BooksConstants
<1>2. CASE charge = FilledCharge(e)
  <2> DEFINE sent == e.sent
             received == e.received
             unit == Finer(sent, received)
             worth == DivideHalfUp(received.digits * RateUnit * sent.unit,
                                   e.rate * received.unit)
  <2>1. /\ sent.digits \in Nat /\ sent.unit \in Positive
        /\ received.digits \in Nat /\ received.unit \in Positive
        /\ e.rate \in Nat /\ RateUnit \in Positive
    BY EntryFields, MoneyConstants DEF Typed
  <2>2. CASE e.fromCurrency = e.toCurrency
    <3>1. charge = KeptDirectly(sent, received) /\ ~(charge.digits <= 0)
      BY <1>2, <2>2 DEF FilledCharge, ImpliedCharge
    <3>2. unit \in Positive
      BY <2>1 DEF Finer
    <3>3. /\ unit \div sent.unit \in Nat /\ unit \div received.unit \in Nat
      BY <2>1, <3>2, QuotientOfNat DEF Positive
    <3>4. KeptDirectly(sent, received)
            = [digits |-> sent.digits * (unit \div sent.unit)
                            - received.digits * (unit \div received.unit),
               unit |-> unit]
      BY DEF KeptDirectly
    <3>5. /\ sent.digits * (unit \div sent.unit) \in Int
          /\ received.digits * (unit \div received.unit) \in Int
      BY <2>1, <3>3
    <3> HIDE DEF sent, received, unit
    <3> QED
      BY <3>1, <3>2, <3>4, <3>5 DEF Typed
  <2>3. CASE e.fromCurrency # e.toCurrency
    <3>1. /\ charge = KeptThroughRate(sent, received, e.rate)
          /\ ~(charge.digits <= 0) /\ e.rate # 0
      BY <1>2, <2>3 DEF FilledCharge, ImpliedCharge
    <3>2. worth \in Int
      <4>1. /\ received.digits * RateUnit * sent.unit \in Nat
            /\ e.rate * received.unit \in Positive
        BY <2>1, <3>1 DEF Positive
      <4>2. worth = DivideRounded(received.digits * RateUnit * sent.unit,
                                  e.rate * received.unit, "half-up")
        BY <4>1, ChargeRoundsAsMoney
      <4> HIDE DEF worth
      <4> QED
        BY <4>1, <4>2, RoundedIsInt
    <3>3. KeptThroughRate(sent, received, e.rate)
            = [digits |-> sent.digits - worth, unit |-> sent.unit]
      BY DEF KeptThroughRate
    <3> HIDE DEF sent, received, worth
    <3> QED
      BY <2>1, <3>1, <3>2, <3>3 DEF Typed
  <2> QED
    BY <2>2, <2>3
<1> QED
  BY <1>1, <1>2 DEF Charges

LEMMA ChargeFeesAreFees ==
  ASSUME NEW e \in Entries, NEW type \in SourceCurrencyFeeTypes,
         NEW charge \in Charges(e)
  PROVE  ChargeFees(e, type, charge) \in [FeeTypes -> Fee]
<1>1. CASE charge # NoCharge /\ Fits(charge, e.fromCurrency)
  <2>1. FromDecimal(charge, e.fromCurrency) \in Fee
    BY <1>1, ChargesAreTyped, EntryFields, DecimalIsMoney DEF Fee
  <2> QED
    BY <1>1, <2>1, NoFeesAreFees DEF ChargeFees
<1>2. CASE ~(charge # NoCharge /\ Fits(charge, e.fromCurrency))
  BY <1>2, NoFeesAreFees DEF ChargeFees
<1> QED
  BY <1>1, <1>2

LEMMA SaleFeesAreFees ==
  ASSUME NEW e \in Entries, NEW tds \in TdsAmounts \cup {NoTds},
         NEW expected \in [FeeTypes -> Fee]
  PROVE  SaleFees(e, expected, tds) \in [FeeTypes -> Fee]
<1>1. CASE tds = NoTds
  BY <1>1 DEF SaleFees
<1>2. CASE tds # NoTds
  <2>1. tds \in Nat /\ e.toCurrency \in Currencies
    BY <1>2, BooksConstants, EntryFields
  <2>2. Amount(tds, e.toCurrency) \in Fee
    BY <2>1 DEF Fee, Money, Amount
  <2> QED
    BY <1>2, <2>2 DEF SaleFees
<1> QED
  BY <1>1, <1>2

LEMMA InsertKeepsTypes ==
  ASSUME TypeOK, NEW l \in LegIds, NEW leg \in Leg, IsValid(leg),
         NEW f \in [FeeTypes -> Fee],
         legs' = WithRow(legs, l, leg), fees' = WithRow(fees, l, f),
         UNCHANGED schedules, answer' \in [leg : Nat, net : Int]
  PROVE  TypeOK'
<1>1. /\ DOMAIN legs \subseteq LegIds /\ legs \in [DOMAIN legs -> Leg]
      /\ fees \in [DOMAIN legs -> [FeeTypes -> Fee]] /\ DOMAIN fees = DOMAIN legs
  BY DEF TypeOK
<1>2. /\ DOMAIN legs' = DOMAIN legs \cup {l} /\ legs' \in [DOMAIN legs' -> Leg]
      /\ \A m \in DOMAIN legs' : legs'[m] = IF m = l THEN leg ELSE legs[m]
  BY <1>1 DEF WithRow
<1>3. fees' \in [DOMAIN legs' -> [FeeTypes -> Fee]]
  <2> DEFINE FeesOfLeg == [FeeTypes -> Fee]
  <2>1. f \in FeesOfLeg /\ fees \in [DOMAIN legs -> FeesOfLeg]
    BY <1>1
  <2> HIDE DEF FeesOfLeg
  <2>2. fees' \in [DOMAIN legs' -> FeesOfLeg]
    BY <1>1, <1>2, <2>1 DEF WithRow
  <2> QED
    BY <2>2 DEF FeesOfLeg
<1> QED
  BY <1>2, <1>3 DEF TypeOK

-----------------------------------------------------------------------------
(* Steps *)

LEMMA InitTypeOK == Init => TypeOK
BY DEF Init, TypeOK, NoRows, NoAnswer

LEMMA NextTypeOK == TypeOK /\ [Next]_vars => TypeOK'
<1> SUFFICES ASSUME TypeOK, [Next]_vars
             PROVE  TypeOK'
  OBVIOUS
<1>0. NoAnswer \in [leg : Nat, net : Int]
  BY DEF NoAnswer
<1>1. ASSUME NEW l \in LegIds, NEW e \in Entries,
             NEW type \in SourceCurrencyFeeTypes, NEW charge \in Charges(e),
             RecordTransaction(l, e, type, charge)
      PROVE  TypeOK'
  <2>1. MovementLeg("movement", e) \in Leg
    BY EnteredLegsAreLegs DEF Kinds
  <2> QED
    BY <1>0, <1>1, <2>1, ChargeFeesAreFees, InsertKeepsTypes DEF RecordTransaction
<1>2. ASSUME NEW l \in LegIds, NEW e \in Entries,
             NEW tds \in TdsAmounts \cup {NoTds}, RecordSale(l, e, tds)
      PROVE  TypeOK'
  <2> DEFINE leg == SaleLeg(e)
             S == Applicable(leg, schedules)
             expected == ExpectedFees(leg, S, "half-up")
  <2>1. leg \in Leg /\ IsValid(leg) /\ Priced(leg)
    BY <1>2, EnteredLegsAreLegs, ValidLegIsPriced DEF RecordSale, Kinds
  <2>2. S \in SUBSET Schedule
    BY BooksConstants DEF TypeOK, Applicable
  <2>3. /\ legs' = WithRow(legs, l, leg)
        /\ fees' = WithRow(fees, l, IF Resolvable(S) THEN SaleFees(e, expected, tds)
                                                     ELSE NoFees)
        /\ answer' = IF Resolvable(S) THEN SaleRecorded(l, e, leg, expected, tds)
                                      ELSE NoAnswer
        /\ UNCHANGED schedules
    BY <1>2 DEF RecordSale
  <2> HIDE DEF leg, S, expected
  <2>4. CASE Resolvable(S)
    <3>1. expected \in [FeeTypes -> Fee]
      BY <2>1, <2>2, <2>4, ExpectedFeesAreFees DEF expected
    <3>2. SaleFees(e, expected, tds) \in [FeeTypes -> Fee]
      BY <3>1, SaleFeesAreFees
    <3>3. SaleRecorded(l, e, leg, expected, tds) \in [leg : Nat, net : Int]
      <4>1. TotalFees(expected, e.toCurrency) \in Int /\ leg.received.minor \in Int
        BY <2>1, <3>1, TotalIsInt DEF Leg, Money
      <4>2. (IF tds = NoTds THEN 0 ELSE tds) \in Int /\ l \in Nat
        BY BooksConstants DEF LegIds
      <4> QED
        BY <4>1, <4>2 DEF SaleRecorded
    <3> QED
      BY <2>1, <2>3, <2>4, <3>2, <3>3, InsertKeepsTypes
  <2>5. CASE ~Resolvable(S)
    BY <1>0, <2>1, <2>3, <2>5, NoFeesAreFees, InsertKeepsTypes
  <2> QED
    BY <2>4, <2>5
<1>3. ASSUME NEW l \in LegIds, NEW e \in Entries, EditTransaction(l, e)
      PROVE  TypeOK'
  <2>1. legs[l].kind \in Kinds
    BY <1>3 DEF TypeOK, EditTransaction, Leg
  <2>2. MovementLeg(legs[l].kind, e) \in Leg
    BY <2>1, EnteredLegsAreLegs
  <2> QED
    BY <1>0, <1>3, <2>2 DEF TypeOK, EditTransaction
<1>4. ASSUME NEW doomed \in SUBSET DOMAIN legs, DeleteTransaction(doomed)
      PROVE  TypeOK'
  <2>1. /\ DOMAIN legs \subseteq LegIds /\ legs \in [DOMAIN legs -> Leg]
        /\ fees \in [DOMAIN legs -> [FeeTypes -> Fee]] /\ DOMAIN fees = DOMAIN legs
    BY DEF TypeOK
  <2>2. /\ legs' = Without(legs, doomed) /\ fees' = Without(fees, doomed)
        /\ answer' = NoAnswer /\ UNCHANGED schedules
    BY <1>4 DEF DeleteTransaction, FeesWithout
  <2>3. /\ DOMAIN legs' = DOMAIN legs \ doomed /\ legs' \in [DOMAIN legs' -> Leg]
        /\ \A m \in DOMAIN legs' : legs'[m] = legs[m]
    BY <2>1, <2>2 DEF Without, Restrict
  <2>4. fees' \in [DOMAIN legs' -> [FeeTypes -> Fee]]
    BY <2>1, <2>2, <2>3 DEF Without, Restrict
  <2> QED
    BY <1>0, <2>2, <2>3, <2>4 DEF TypeOK
<1>5. CASE UNCHANGED vars
  BY <1>5 DEF TypeOK, vars
<1> QED
  BY <1>1, <1>2, <1>3, <1>4, <1>5 DEF Next, NextRecord, NextChange

(* Every amount on file is a whole number of minor units of a currency that *)
(* exists, positive on a leg and not negative on a fee, whatever is typed.  *)
THEOREM BooksTypeCorrect == Spec => []TypeOK
BY InitTypeOK, NextTypeOK, PTL DEF Spec

-----------------------------------------------------------------------------
(* What a recording leaves for the sweep *)

LEMMA ToleranceIsPositive ==
  ASSUME NEW c \in Currencies
  PROVE  Tolerance(c) \in Positive
<1>1. Unit[c] \in Nat /\ Unit[c] # 0
  BY MoneyConstants DEF Positive
<1>2. CASE Unit[c] < 100
  BY <1>2 DEF Tolerance, Positive
<1>3. CASE ~(Unit[c] < 100)
  <2>1. Unit[c] \div 100 \in Int /\ Unit[c] \div 100 >= 1
    BY <1>1, <1>3
  <2> QED
    BY <1>3, <2>1 DEF Tolerance, Positive
<1> QED
  BY <1>2, <1>3

(* A sale's proceeds are what its own amounts and rate convert to. *)
LEMMA SaleConverts ==
  ASSUME NEW e \in Entries, IsValid(SaleLeg(e)), e.rate # NoRate
  PROVE  LET leg == SaleLeg(e) IN
         /\ leg.rate = e.rate /\ leg.received.currency = e.toCurrency
         /\ leg.sent \in Money /\ leg.received.minor \in Int
         /\ leg.received.currency # leg.sent.currency
         /\ leg.received
              = MultiplyByRate(leg.sent, leg.rate, leg.received.currency, "half-up")
<1> DEFINE leg == SaleLeg(e)
<1>1. leg \in Leg
  BY EnteredLegsAreLegs DEF Kinds
<1>2. /\ leg.rate = e.rate /\ leg.sent = FromDecimal(e.sent, e.fromCurrency)
      /\ leg.received = Proceeds(e)
  BY DEF SaleLeg, EnteredLeg
<1>3. leg.received = MultiplyByRate(leg.sent, leg.rate, e.toCurrency, "half-up")
  BY <1>2 DEF Proceeds
<1>4. leg.received.currency = e.toCurrency
  BY <1>3 DEF MultiplyByRate, Amount
<1>5. leg.received.currency # leg.sent.currency
  BY <1>2 DEF IsValid
<1>6. leg.sent \in Money /\ leg.received.minor \in Int
  BY <1>1 DEF Leg, Money
<1> QED
  BY <1>2, <1>3, <1>4, <1>5, <1>6

LEMMA SaleIsClean ==
  ASSUME TypeOK, NEW l \in LegIds, NEW e \in Entries,
         NEW tds \in TdsAmounts \cup {NoTds}, RecordSale(l, e, tds),
         Resolvable(Applicable(SaleLeg(e), schedules)),
         OnReceivingSide(Applicable(SaleLeg(e), schedules), SaleLeg(e))
  PROVE  ~Flagged(l)'
<1> DEFINE leg == SaleLeg(e)
           S == Applicable(leg, schedules)
           expected == ExpectedFees(leg, S, "half-up")
           filed == SaleFees(e, expected, tds)
<1>1. /\ legs'[l] = leg /\ fees'[l] = filed /\ schedules' = schedules
      /\ e.rate # NoRate /\ IsValid(leg)
  BY DEF RecordSale, WithRow
<1>2. /\ leg.rate = e.rate /\ leg.received.currency = e.toCurrency
      /\ leg.sent \in Money /\ leg.received.minor \in Int
      /\ leg.received.currency # leg.sent.currency
      /\ leg.received
           = MultiplyByRate(leg.sent, leg.rate, leg.received.currency, "half-up")
  BY <1>1, SaleConverts
<1>3. leg \in Leg /\ Priced(leg) /\ S \in SUBSET Schedule
  BY <1>1, EnteredLegsAreLegs, ValidLegIsPriced, BooksConstants
     DEF Kinds, TypeOK, Applicable
<1>4. Resolvable(S) /\ OnReceivingSide(S, leg)
  OBVIOUS
<1> HIDE DEF S, leg
<1>5. /\ expected \in [FeeTypes -> Fee]
      /\ \A type \in FeeTypes :
           /\ expected[type].currency # leg.sent.currency
           /\ type = "tds" => expected[type] = NoFee
  BY <1>2, <1>3, <1>4, ExpectedFeesAreFees
<1> HIDE DEF expected
<1>6. /\ filed \in [FeeTypes -> Fee]
      /\ \A type \in FeeTypes : type # "tds" => filed[type] = expected[type]
      /\ \A type \in FeeTypes : filed[type].currency # leg.sent.currency
  <2>1. filed \in [FeeTypes -> Fee]
    BY <1>5, SaleFeesAreFees
  <2>2. CASE tds = NoTds
    BY <1>5, <2>1, <2>2 DEF SaleFees
  <2>3. CASE tds # NoTds
    BY <1>2, <1>5, <2>1, <2>3 DEF SaleFees, Amount
  <2> QED
    BY <2>1, <2>2, <2>3
<1> HIDE DEF filed
<1>7. ~MissingRate(l)'
  BY <1>1, <1>2 DEF MissingRate
<1>8. ~Unreconciled(l)'
  <2>1. TotalFees(filed, leg.sent.currency) = 0
    BY <1>6, TotalOfOthersIsZero
  <2>2. Amount(leg.sent.minor - 0, leg.sent.currency) = leg.sent
    BY <1>2 DEF Amount, Money
  <2>3. Drift(l)' = Magnitude(leg.received.minor - leg.received.minor)
    BY <1>1, <1>2, <2>1, <2>2 DEF Drift
  <2>4. Drift(l)' = 0
    BY <1>2, <2>3 DEF Magnitude
  <2>5. leg.received.currency \in Currencies
    BY <1>3 DEF Leg, Money
  <2>6. Tolerance(leg.received.currency) \in Positive
    BY <2>5, ToleranceIsPositive
  <2> QED
    BY <1>1, <2>4, <2>6 DEF Unreconciled, Positive, Tolerance
<1>9. ~FeeOffSchedule(l)'
  <2>1. ASSUME NEW type \in FeeTypes
        PROVE  ~OffSchedule(expected[type], filed[type])
    <3>1. CASE type = "tds"
      BY <1>5, <3>1 DEF OffSchedule
    <3>2. CASE type # "tds" /\ expected[type] # NoFee
      <4>1. filed[type] = expected[type]
        BY <1>6, <3>2
      <4>2. expected[type] \in Money /\ expected[type].minor >= 0
        BY <1>5, <3>2 DEF Fee
      <4>3. /\ Percentage(expected[type], ToleranceBps, "half-up").minor >= 0
            /\ Percentage(expected[type], ToleranceBps, "half-up") \in Money
        BY <4>2, FeeConstants, ShareIsMoney
      <4>4. Magnitude(filed[type].minor - expected[type].minor) = 0
        BY <4>1, <4>2 DEF Magnitude, Money
      <4> QED
        BY <4>1, <4>3, <4>4 DEF OffSchedule, Money
    <3>3. CASE type # "tds" /\ expected[type] = NoFee
      BY <3>3 DEF OffSchedule
    <3> QED
      BY <3>1, <3>2, <3>3
  <2>2. ExpectedFees(legs[l], Applicable(legs[l], schedules), "half-up")' = expected
    BY <1>1 DEF expected, S, leg
  <2> QED
    BY <1>1, <2>1, <2>2 DEF FeeOffSchedule
<1> QED
  BY <1>7, <1>8, <1>9 DEF Flagged

(* A sale just recorded raises no issue in the sweep, whatever the schedules *)
(* on the receiving side, the rate and the tds read off the statement.       *)
THEOREM SalesAreClean == Spec => FreshSaleIsClean
<1>1. TypeOK =>
        \A l \in LegIds, e \in Entries, tds \in TdsAmounts \cup {NoTds} :
          LET S == Applicable(SaleLeg(e), schedules) IN
          RecordSale(l, e, tds) /\ Resolvable(S) /\ OnReceivingSide(S, SaleLeg(e))
            => ~Flagged(l)'
  BY SaleIsClean
<1> QED
  BY <1>1, BooksTypeCorrect, PTL DEF FreshSaleIsClean

(* One charge in a currency is all that leg is charged in it. *)
LEMMA TotalOfOneCharge ==
  ASSUME NEW fee \in Fee, fee.currency \in Currencies,
         NEW type \in SourceCurrencyFeeTypes
  PROVE  TotalFees([NoFees EXCEPT ![type] = fee], fee.currency) = fee.minor
<1> DEFINE f == [NoFees EXCEPT ![type] = fee]
<1>1. \A other \in FeeTypes : f[other] = IF other = type THEN fee ELSE NoFee
  BY DEF NoFees
<1>2. InCurrency(fee, fee.currency) = fee.minor /\ InCurrency(NoFee, fee.currency) = 0
  BY NoFeeIsNoMoney, FeeConstants DEF InCurrency
<1>3. fee.minor \in Int
  BY NoFeeIsNoMoney DEF Fee, Money
<1> HIDE DEF f
<1>4. TotalFees(f, fee.currency) = fee.minor
  BY <1>1, <1>2, <1>3 DEF TotalFees, FeeTypes, SourceCurrencyFeeTypes
<1> QED
  BY <1>4 DEF f

LEMMA ChargeReconciles ==
  ASSUME TypeOK, NEW l \in LegIds, NEW e \in Entries,
         NEW type \in SourceCurrencyFeeTypes,
         RecordTransaction(l, e, type, FilledCharge(e)),
         FilledCharge(e) # NoCharge,
         InFull(e.sent, e.fromCurrency), FineEnough(e)
  PROVE  ~Unreconciled(l)'
<1> DEFINE leg == MovementLeg("movement", e)
           charge == FilledCharge(e)
           worth == DivideByRate(leg.received, e.rate, e.fromCurrency, "half-up")
<1>1. /\ legs'[l] = leg /\ fees'[l] = ChargeFees(e, type, charge)
      /\ Fits(e.received, e.toCurrency) /\ IsValid(leg)
  BY DEF RecordTransaction, WithRow
<1>2. /\ leg.rate = e.rate
      /\ leg.sent = FromDecimal(e.sent, e.fromCurrency)
      /\ leg.sent.currency = e.fromCurrency
      /\ leg.received = FromDecimal(e.received, e.toCurrency)
      /\ leg.received.currency = e.toCurrency
      /\ leg.received \in Money
  BY EntryFields, DecimalIsMoney DEF MovementLeg, EnteredLeg, FromDecimal, Amount
<1>3. /\ e.sent \in Typed /\ e.received \in Typed /\ e.rate \in Nat
      /\ e.fromCurrency \in Currencies /\ e.toCurrency \in Currencies
      /\ e.sent.digits \in Nat /\ e.sent.unit = Unit[e.fromCurrency]
      /\ Unit[e.fromCurrency] \in Positive
  BY EntryFields, MoneyConstants DEF InFull, Typed
<1>4. CASE e.rate = NoRate
  BY <1>1, <1>2, <1>4 DEF Unreconciled
<1>5. CASE e.rate # NoRate
  <2>1. e.rate \in Positive /\ e.fromCurrency # e.toCurrency
    BY <1>1, <1>2, <1>3, <1>5 DEF Positive, NoRate, IsValid
  <2>2. charge = KeptThroughRate(e.sent, e.received, e.rate)
    BY <2>1 DEF FilledCharge, ImpliedCharge
  <2>3. charge.digits = leg.sent.minor - worth.minor
    BY <1>1, <1>2, <1>3, <2>1, <2>2, ChargeIsMoneysSum
  <2>4. charge.unit = Unit[e.fromCurrency] /\ charge \in Typed
    <3>1. charge \in Charges(e)
      BY DEF Charges
    <3> QED
      BY <1>3, <2>2, <3>1, ChargesAreTyped DEF KeptThroughRate
  <2>5. /\ Fits(charge, e.fromCurrency)
        /\ FromDecimal(charge, e.fromCurrency) = Amount(charge.digits, e.fromCurrency)
    <3>1. charge.digits \in Nat
      BY <2>4 DEF Typed
    <3>2. /\ Unit[e.fromCurrency] % Unit[e.fromCurrency] = 0
          /\ Unit[e.fromCurrency] \div Unit[e.fromCurrency] = 1
      BY <1>3 DEF Positive
    <3>3. charge.digits * 1 = charge.digits
      BY <3>1
    <3> QED
      BY <2>4, <3>2, <3>3 DEF Fits, FromDecimal
  <2>6. /\ FromDecimal(charge, e.fromCurrency) \in Fee
        /\ FromDecimal(charge, e.fromCurrency).currency = e.fromCurrency
        /\ FromDecimal(charge, e.fromCurrency).minor = charge.digits
    <3>1. FromDecimal(charge, e.fromCurrency) \in Fee
      BY <1>3, <2>4, DecimalIsMoney DEF Fee
    <3> QED
      BY <2>5, <3>1 DEF Amount
  <2>7. fees'[l] = [NoFees EXCEPT ![type] = FromDecimal(charge, e.fromCurrency)]
    BY <1>1, <2>5 DEF ChargeFees
  <2>8. TotalFees(fees'[l], e.fromCurrency) = charge.digits
    BY <1>3, <2>6, <2>7, TotalOfOneCharge
  <2>9. /\ worth.minor \in Int /\ worth.currency = e.fromCurrency
        /\ worth = Amount(worth.minor, e.fromCurrency)
    <3>1. /\ leg.received.minor * RateUnit * Unit[e.fromCurrency] \in Int
          /\ Unit[leg.received.currency] * e.rate \in Positive
      BY <1>2, <1>3, <2>1, MoneyConstants, ScaleIsPositive DEF Money, Positive
    <3> QED
      BY <3>1, RoundedIsInt DEF DivideByRate, Amount
  <2>10. leg.sent.minor \in Int /\ charge.digits \in Int
    BY <1>2, <1>3, <2>4, DecimalIsMoney DEF Money, Typed
  <2> HIDE DEF leg, charge, worth
  <2>11. leg.sent.minor - charge.digits = worth.minor
    BY <2>3, <2>9, <2>10
  <2>12. Drift(l)' = Magnitude(leg.received.minor
                       - MultiplyByRate(worth, e.rate, e.toCurrency, "half-up").minor)
    BY <1>1, <1>2, <2>8, <2>9, <2>11 DEF Drift
  <2>13. Tolerance(e.toCurrency) \in Positive
    BY <1>3, ToleranceIsPositive
  <2>14. Unit[leg.received.currency] * e.rate
           <= Tolerance(e.toCurrency) * (RateUnit * Unit[e.fromCurrency])
    BY <1>2, <1>3, <2>13, MoneyConstants DEF FineEnough, Positive
  <2>15. Drift(l)' <= Tolerance(e.toCurrency)
    BY <1>2, <1>3, <2>1, <2>12, <2>13, <2>14, RateRoundTrip DEF worth
  <2>16. Drift(l)' \in Int
    <3>1. worth \in Money
      BY <1>3, <2>9 DEF Money, Amount
    <3>2. MultiplyByRate(worth, e.rate, e.toCurrency, "half-up").minor \in Int
      BY <1>3, <3>1, ConversionIsMoney DEF Money
    <3> QED
      BY <1>2, <2>12, <3>2 DEF Magnitude, Money
  <2> QED
    BY <1>1, <1>2, <2>13, <2>15, <2>16 DEF Unreconciled, Tolerance, Positive
<1> QED
  BY <1>4, <1>5

(* The charge the form fills in is the one that reconciles, at every rate   *)
(* fine enough for it: the rounding of charge.ts, on the digits somebody    *)
(* typed, never costs more than the tolerance of the sweep.                 *)
THEOREM ChargesReconcile == Spec => FilledChargeReconciles
<1>1. TypeOK =>
        \A l \in LegIds, e \in Entries, type \in SourceCurrencyFeeTypes :
          /\ RecordTransaction(l, e, type, FilledCharge(e))
          /\ FilledCharge(e) # NoCharge
          /\ InFull(e.sent, e.fromCurrency) /\ FineEnough(e)
          => ~Unreconciled(l)'
  BY ChargeReconciles
<1> QED
  BY <1>1, BooksTypeCorrect, PTL DEF FilledChargeReconciles
-----------------------------------------------------------------------------
(* Sums of the rows of a table *)

(* A family of sets that is not empty has a member of which no part, one    *)
(* element smaller, is in it.                                               *)
LEMMA SmallestSet ==
  ASSUME NEW S, IsFiniteSet(S), NEW B \in SUBSET (SUBSET S), B # {}
  PROVE  \E U \in B : \A x \in U : U \ {x} \notin B
<1> DEFINE C == {n \in Nat : \E U \in B : Cardinality(U) = n}
<1>1. \A U \in SUBSET S : IsFiniteSet(U) /\ Cardinality(U) \in Nat
  BY FS_Subset, FS_CardinalityType
<1>2. IsWellFoundedOn(OpToRel(<, Nat), Nat)
  BY NatLessThanWellFounded
<1>3. \A m, n \in Nat : m < n => <<m, n>> \in OpToRel(<, Nat)
  BY DEF OpToRel
<1>4. PICK n \in C : \A m \in C : <<m, n>> \notin OpToRel(<, Nat)
  <2>1. C \subseteq Nat /\ C # {}
    BY <1>1
  <2> HIDE DEF C
  <2> QED
    BY <1>2, <2>1, WFMin
<1>5. PICK U \in B : Cardinality(U) = n
  OBVIOUS
<1>6. ASSUME NEW x \in U, U \ {x} \in B PROVE FALSE
  <2>1. Cardinality(U \ {x}) = n - 1 /\ Cardinality(U \ {x}) \in Nat
    BY <1>1, <1>5, <1>6, FS_RemoveElement
  <2>2. n - 1 \in C
    BY <1>6, <2>1
  <2>3. n \in Nat /\ n - 1 < n
    OBVIOUS
  <2> QED
    BY <1>3, <1>4, <2>1, <2>2, <2>3
<1> QED
  BY <1>6

Picked(s) == CHOOSE x \in s : TRUE

LEMMA PickedIsIn == ASSUME NEW s, s # {} PROVE Picked(s) \in s
BY DEF Picked

(* What the fold of a sum runs through.                                     *)
IsSum(it, g, S) ==
  it = [s \in SUBSET S |-> IF s = {} THEN 0 ELSE g[Picked(s)] + it[s \ {Picked(s)}]]

LEMMA SumSteps ==
  ASSUME NEW S, NEW g, NEW it, IsSum(it, g, S)
  PROVE  /\ it[{}] = 0
         /\ \A s \in SUBSET S : s # {} => it[s] = g[Picked(s)] + it[s \ {Picked(s)}]
BY DEF IsSum

LEMMA SumsAgree ==
  ASSUME NEW S, NEW g, NEW i, IsSum(i, g, S), NEW T, NEW h, NEW j, IsSum(j, h, T),
         NEW V \in SUBSET (S \cap T), IsFiniteSet(V), \A x \in V : g[x] = h[x]
  PROVE  i[V] = j[V]
<1> DEFINE B == {U \in SUBSET V : i[U] # j[U]}
<1>1. ASSUME B # {} PROVE FALSE
  <2>1. PICK U \in B : \A x \in U : U \ {x} \notin B
    BY <1>1, SmallestSet
  <2>2. U # {}
    BY <2>1, SumSteps
  <2>3. /\ Picked(U) \in U /\ U \ {Picked(U)} \in SUBSET V
        /\ U \in SUBSET S /\ U \in SUBSET T
    BY <2>2, PickedIsIn
  <2>4. i[U \ {Picked(U)}] = j[U \ {Picked(U)}] /\ g[Picked(U)] = h[Picked(U)]
    BY <2>1, <2>3
  <2>5. i[U] = g[Picked(U)] + i[U \ {Picked(U)}]
    BY <2>2, <2>3, SumSteps
  <2>6. j[U] = h[Picked(U)] + j[U \ {Picked(U)}]
    BY <2>2, <2>3, SumSteps
  <2> QED
    BY <2>1, <2>4, <2>5, <2>6
<1> QED
  BY <1>1

LEMMA SumExists ==
  ASSUME NEW S, IsFiniteSet(S), NEW g
  PROVE  \E it : IsSum(it, g, S)
<1> DEFINE Has(U) == \E it : IsSum(it, g, U)
           B == {U \in SUBSET S : ~Has(U)}
<1>1. ASSUME B # {} PROVE FALSE
  <2>1. PICK T \in B : \A x \in T : T \ {x} \notin B
    BY <1>1, SmallestSet
  <2>2. \A x \in T : Has(T \ {x})
    BY <2>1
  <2>3. T # {}
    <3>1. IsSum([s \in SUBSET {} |-> 0], g, {})
      BY DEF IsSum
    <3> QED
      BY <2>1, <3>1
  <2> DEFINE p == Picked(T)
  <2>4. p \in T /\ IsFiniteSet(T \ {p})
    BY <2>1, <2>3, PickedIsIn, FS_Subset
  <2>5. ASSUME NEW x \in T PROVE \E it : IsSum(it, g, T \ {x})
    BY <2>2
  <2> DEFINE J(x) == CHOOSE it : IsSum(it, g, T \ {x})
             Without1(s) == CHOOSE x \in T : x \notin s
             low == [s \in (SUBSET T) \ {T} |-> J(Without1(s))[s]]
             all == [s \in SUBSET T |-> IF s = T THEN g[p] + low[T \ {p}] ELSE low[s]]
  <2>6. \A x \in T : IsSum(J(x), g, T \ {x})
    BY <2>5
  <2>7. \A s \in (SUBSET T) \ {T} : Without1(s) \in T /\ s \subseteq T \ {Without1(s)}
    OBVIOUS
  <2> HIDE DEF J, Without1
  <2>8. low[{}] = 0
    BY <2>3, <2>6, <2>7, SumSteps
  <2>9. ASSUME NEW s \in (SUBSET T) \ {T}, s # {}
        PROVE  low[s] = g[Picked(s)] + low[s \ {Picked(s)}]
    <3> DEFINE x == Without1(s)
               r == s \ {Picked(s)}
               y == Without1(r)
    <3>1. Picked(s) \in s
      BY <2>9, PickedIsIn
    <3>2. r \in (SUBSET T) \ {T} /\ r \subseteq s
      BY <3>1
    <3>3. x \in T /\ s \subseteq T \ {x} /\ y \in T /\ r \subseteq T \ {y}
      BY <2>7, <3>2
    <3>4. J(x)[s] = g[Picked(s)] + J(x)[r]
      <4>1. IsSum(J(x), g, T \ {x}) /\ s \in SUBSET (T \ {x})
        BY <2>6, <3>3
      <4> HIDE DEF x
      <4> QED
        BY <2>9, <4>1, SumSteps
    <3>5. J(x)[r] = J(y)[r]
      <4>1. IsFiniteSet(r) /\ r \in SUBSET ((T \ {x}) \cap (T \ {y}))
        BY <3>2, <3>3, FS_Subset
      <4>2. IsSum(J(x), g, T \ {x}) /\ IsSum(J(y), g, T \ {y})
        BY <2>6, <3>3
      <4> HIDE DEF x, y, r
      <4> QED
        BY <4>1, <4>2, SumsAgree
    <3> QED
      BY <3>2, <3>4, <3>5
  <2> HIDE DEF low, p
  <2>10. all[{}] = 0 /\ DOMAIN all = SUBSET T
    BY <2>3, <2>8
  <2>11. \A s \in SUBSET T : s # {} => all[s] = g[Picked(s)] + all[s \ {Picked(s)}]
    <3> TAKE s \in SUBSET T
    <3> SUFFICES ASSUME s # {} PROVE all[s] = g[Picked(s)] + all[s \ {Picked(s)}]
      OBVIOUS
    <3>1. Picked(s) \in s /\ s \ {Picked(s)} # T
      BY PickedIsIn
    <3>2. all[s \ {Picked(s)}] = low[s \ {Picked(s)}]
      BY <3>1
    <3> QED
      BY <2>9, <3>2 DEF p
  <2>12. all = [s \in SUBSET T |-> all[s]]
    OBVIOUS
  <2> HIDE DEF all
  <2>13. IsSum(all, g, T)
    BY <2>10, <2>11, <2>12 DEF IsSum
  <2> QED
    BY <2>1, <2>13
<1> QED
  BY <1>1, FS_Subset
LEMMA SumRuns ==
  ASSUME NEW f, NEW S, IsFiniteSet(S)
  PROVE  \E it : IsSum(it, f, S) /\ SumFunctionOnSet(f, S) = it[S]
<1> DEFINE it == CHOOSE i : IsSum(i, f, S)
<1>1. IsSum(it, f, S)
  BY SumExists
<1>2. SumFunctionOnSet(f, S) = it[S]
  BY DEF SumFunctionOnSet, FoldFunctionOnSet, MapThenFoldSet, IsSum, Picked
<1> QED
  BY <1>1, <1>2

LEMMA SumOfSame ==
  ASSUME NEW S, IsFiniteSet(S), NEW f, NEW h, \A x \in S : f[x] = h[x]
  PROVE  SumFunctionOnSet(f, S) = SumFunctionOnSet(h, S)
<1>1. PICK i : IsSum(i, f, S) /\ SumFunctionOnSet(f, S) = i[S]
  BY SumRuns
<1>2. PICK j : IsSum(j, h, S) /\ SumFunctionOnSet(h, S) = j[S]
  BY SumRuns
<1>3. S \in SUBSET (S \cap S)
  OBVIOUS
<1> QED
  BY <1>1, <1>2, <1>3, SumsAgree

LEMMA SumOfNone == ASSUME NEW f PROVE SumFunctionOnSet(f, {}) = 0
<1>1. PICK i : IsSum(i, f, {}) /\ SumFunctionOnSet(f, {}) = i[{}]
  BY SumRuns, FS_EmptySet
<1> QED
  BY <1>1, SumSteps

LEMMA SumStep ==
  ASSUME NEW S, IsFiniteSet(S), NEW f, S # {}
  PROVE  /\ Picked(S) \in S
         /\ SumFunctionOnSet(f, S)
              = f[Picked(S)] + SumFunctionOnSet(f, S \ {Picked(S)})
<1> DEFINE r == S \ {Picked(S)}
<1>1. PICK i : IsSum(i, f, S) /\ SumFunctionOnSet(f, S) = i[S]
  BY SumRuns
<1>2. IsFiniteSet(r) /\ r \in SUBSET (S \cap r) /\ S \in SUBSET S
  BY FS_Subset
<1> HIDE DEF r
<1>3. PICK j : IsSum(j, f, r) /\ SumFunctionOnSet(f, r) = j[r]
  BY <1>2, SumRuns
<1>4. i[r] = j[r]
  BY <1>1, <1>2, <1>3, SumsAgree
<1>5. i[S] = f[Picked(S)] + i[r]
  BY <1>1, <1>2, SumSteps DEF r
<1> QED
  BY <1>1, <1>3, <1>4, <1>5, PickedIsIn DEF r

LEMMA SumIsInt ==
  ASSUME NEW S, IsFiniteSet(S), NEW f, \A x \in S : f[x] \in Int
  PROVE  SumFunctionOnSet(f, S) \in Int
<1> DEFINE B == {U \in SUBSET S : SumFunctionOnSet(f, U) \notin Int}
<1>1. ASSUME B # {} PROVE FALSE
  <2>1. PICK U \in B : \A x \in U : U \ {x} \notin B
    BY <1>1, SmallestSet
  <2>2. IsFiniteSet(U)
    BY FS_Subset
  <2>3. U # {}
    BY <2>1, SumOfNone
  <2>4. Picked(U) \in U /\ U \ {Picked(U)} \in SUBSET S
    BY <2>2, <2>3, SumStep
  <2>5. SumFunctionOnSet(f, U) = f[Picked(U)] + SumFunctionOnSet(f, U \ {Picked(U)})
    BY <2>2, <2>3, SumStep
  <2>6. SumFunctionOnSet(f, U \ {Picked(U)}) \in Int /\ f[Picked(U)] \in Int
    BY <2>1, <2>4
  <2> QED
    BY <2>1, <2>5, <2>6
<1> QED
  BY <1>1

(* The order in which the terms are taken does not matter. *)
LEMMA SumRemove ==
  ASSUME NEW S, IsFiniteSet(S), NEW f, \A x \in S : f[x] \in Int, NEW last \in S
  PROVE  SumFunctionOnSet(f, S) = f[last] + SumFunctionOnSet(f, S \ {last})
<1> DEFINE Takes(U, e) == SumFunctionOnSet(f, U) = f[e] + SumFunctionOnSet(f, U \ {e})
           B == {U \in SUBSET S : \E e \in U : ~Takes(U, e)}
<1>1. ASSUME B # {} PROVE FALSE
  <2>1. PICK U \in B : \A x \in U : U \ {x} \notin B
    BY <1>1, SmallestSet
  <2>2. PICK e \in U : ~Takes(U, e)
    BY <2>1
  <2> DEFINE p == Picked(U)
  <2>3. IsFiniteSet(U) /\ U # {} /\ U \in SUBSET S
    BY <2>1, <2>2, FS_Subset
  <2>4. p \in U /\ Takes(U, p)
    BY <2>3, SumStep
  <2> HIDE DEF p
  <2>5. p # e
    BY <2>2, <2>4
  <2>6. Takes(U \ {p}, e)
    <3>1. U \ {p} \in SUBSET S /\ e \in U \ {p} /\ U \ {p} \notin B
      BY <2>1, <2>2, <2>3, <2>4, <2>5
    <3> HIDE DEF Takes
    <3> QED
      BY <3>1
  <2>7. Takes(U \ {e}, p)
    <3>1. U \ {e} \in SUBSET S /\ p \in U \ {e} /\ U \ {e} \notin B
      BY <2>1, <2>2, <2>3, <2>4, <2>5
    <3> HIDE DEF Takes
    <3> QED
      BY <3>1
  <2>8. (U \ {p}) \ {e} = (U \ {e}) \ {p}
    OBVIOUS
  <2>9. /\ SumFunctionOnSet(f, (U \ {e}) \ {p}) \in Int
        /\ f[e] \in Int /\ f[p] \in Int
    <3>1. IsFiniteSet((U \ {e}) \ {p}) /\ (U \ {e}) \ {p} \subseteq S
      BY <2>3, FS_Subset
    <3> QED
      BY <2>2, <2>3, <2>4, <3>1, SumIsInt
  <2> DEFINE su == SumFunctionOnSet(f, U)
             sp == SumFunctionOnSet(f, U \ {p})
             se == SumFunctionOnSet(f, U \ {e})
             rest == SumFunctionOnSet(f, (U \ {e}) \ {p})
  <2>10. su = f[p] + sp /\ sp = f[e] + rest /\ se = f[p] + rest
    BY <2>4, <2>6, <2>7, <2>8
  <2>11. su # f[e] + se /\ rest \in Int
    BY <2>2, <2>9
  <2> HIDE DEF su, sp, se, rest
  <2> QED
    BY <2>9, <2>10, <2>11
<1>2. Takes(S, last)
  <2> HIDE DEF Takes
  <2> QED
    BY <1>1
<1> QED
  BY <1>2

LEMMA SumOfDifference ==
  ASSUME NEW S, IsFiniteSet(S), NEW f, \A x \in S : f[x] \in Int,
         NEW g, \A x \in S : g[x] \in Int,
         NEW h, \A x \in S : h[x] = f[x] - g[x]
  PROVE  SumFunctionOnSet(h, S) = SumFunctionOnSet(f, S) - SumFunctionOnSet(g, S)
<1> DEFINE B == {U \in SUBSET S : SumFunctionOnSet(h, U)
                    # SumFunctionOnSet(f, U) - SumFunctionOnSet(g, U)}
<1>1. ASSUME B # {} PROVE FALSE
  <2>1. PICK U \in B : \A x \in U : U \ {x} \notin B
    BY <1>1, SmallestSet
  <2> DEFINE p == Picked(U)
             r == U \ {p}
  <2>2. IsFiniteSet(U) /\ U \in SUBSET S
    BY <2>1, FS_Subset
  <2>3. U # {}
    BY <2>1, SumOfNone
  <2>4. /\ p \in U
        /\ SumFunctionOnSet(f, U) = f[p] + SumFunctionOnSet(f, r)
        /\ SumFunctionOnSet(g, U) = g[p] + SumFunctionOnSet(g, r)
        /\ SumFunctionOnSet(h, U) = h[p] + SumFunctionOnSet(h, r)
    BY <2>2, <2>3, SumStep
  <2>5. /\ r \in SUBSET S /\ IsFiniteSet(r)
        /\ f[p] \in Int /\ g[p] \in Int /\ h[p] = f[p] - g[p]
    BY <2>2, <2>4, FS_Subset
  <2> HIDE DEF p
  <2>6. SumFunctionOnSet(h, r) = SumFunctionOnSet(f, r) - SumFunctionOnSet(g, r)
    BY <2>1, <2>4, <2>5
  <2> HIDE DEF r
  <2>7. SumFunctionOnSet(f, r) \in Int /\ SumFunctionOnSet(g, r) \in Int
    BY <2>5, SumIsInt
  <2>8. U \in B
    BY <2>1
  <2> QED
    BY <2>4, <2>5, <2>6, <2>7, <2>8
<1> QED
  BY <1>1

LEMMA SumOfZeros ==
  ASSUME NEW S, IsFiniteSet(S), NEW f, \A x \in S : f[x] = 0
  PROVE  SumFunctionOnSet(f, S) = 0
<1> DEFINE B == {U \in SUBSET S : SumFunctionOnSet(f, U) # 0}
<1>1. ASSUME B # {} PROVE FALSE
  <2>1. PICK U \in B : \A x \in U : U \ {x} \notin B
    BY <1>1, SmallestSet
  <2> DEFINE p == Picked(U)
             r == U \ {p}
  <2>2. IsFiniteSet(U) /\ U \in SUBSET S
    BY <2>1, FS_Subset
  <2>3. U # {}
    BY <2>1, SumOfNone
  <2>4. p \in U /\ SumFunctionOnSet(f, U) = f[p] + SumFunctionOnSet(f, r)
    BY <2>2, <2>3, SumStep
  <2>5. r \in SUBSET S /\ r \notin B /\ f[p] = 0
    BY <2>1, <2>2, <2>4
  <2> QED
    BY <2>1, <2>4, <2>5
<1> QED
  BY <1>1

(* Terms that are zero may be left out. *)
LEMMA SumOfPart ==
  ASSUME NEW S, IsFiniteSet(S), NEW T \in SUBSET S,
         NEW f, \A x \in S : f[x] \in Int, \A x \in S \ T : f[x] = 0
  PROVE  SumFunctionOnSet(f, S) = SumFunctionOnSet(f, T)
<1> DEFINE B == {U \in SUBSET S : SumFunctionOnSet(f, U) # SumFunctionOnSet(f, U \cap T)}
<1>1. ASSUME B # {} PROVE FALSE
  <2>1. PICK U \in B : \A x \in U : U \ {x} \notin B
    BY <1>1, SmallestSet
  <2>2. IsFiniteSet(U) /\ U \in SUBSET S /\ U \in B
    BY <2>1, FS_Subset
  <2>3. PICK e \in U : e \notin T
    <3>1. ~(U \subseteq T)
      <4>1. U \subseteq T => U \cap T = U
        OBVIOUS
      <4> QED
        BY <2>2, <4>1
    <3> QED
      BY <3>1
  <2>4. SumFunctionOnSet(f, U) = f[e] + SumFunctionOnSet(f, U \ {e})
    BY <2>2, SumRemove
  <2>5. /\ f[e] = 0 /\ (U \ {e}) \cap T = U \cap T
        /\ U \ {e} \in SUBSET S /\ U \ {e} \notin B /\ IsFiniteSet(U \ {e})
    BY <2>1, <2>2, <2>3, FS_Subset
  <2>6. SumFunctionOnSet(f, U \ {e}) \in Int
    BY <2>5, SumIsInt
  <2>7. SumFunctionOnSet(f, U \ {e}) = SumFunctionOnSet(f, (U \ {e}) \cap T)
    BY <2>5
  <2>8. SumFunctionOnSet(f, (U \ {e}) \cap T) = SumFunctionOnSet(f, U \cap T)
    BY <2>5
  <2>9. SumFunctionOnSet(f, U) = SumFunctionOnSet(f, U \ {e})
    BY <2>4, <2>5, <2>6
  <2>10. SumFunctionOnSet(f, U) # SumFunctionOnSet(f, U \cap T)
    BY <2>2
  <2> QED
    BY <2>7, <2>8, <2>9, <2>10
<1>2. S \cap T = T
  OBVIOUS
<1> QED
  BY <1>1, <1>2

LEMMA SumOfOne ==
  ASSUME NEW S, IsFiniteSet(S), NEW f, NEW e \in S, f[e] \in Int,
         \A x \in S \ {e} : f[x] = 0
  PROVE  SumFunctionOnSet(f, S) = f[e]
<1>1. SumFunctionOnSet(f, S) = f[e] + SumFunctionOnSet(f, S \ {e})
  BY SumRemove
<1>2. SumFunctionOnSet(f, S \ {e}) = 0
  BY SumOfZeros, FS_Subset
<1> QED
  BY <1>1, <1>2

(* A sum of terms none of which is larger than b, on either side of zero.   *)
LEMMA SumIsBounded ==
  ASSUME NEW S, IsFiniteSet(S), NEW b \in Nat,
         NEW f, \A x \in S : f[x] \in Int /\ -b <= f[x] /\ f[x] <= b
  PROVE  /\ -(Cardinality(S) * b) <= SumFunctionOnSet(f, S)
         /\ SumFunctionOnSet(f, S) <= Cardinality(S) * b
<1> DEFINE Within(U) == /\ -(Cardinality(U) * b) <= SumFunctionOnSet(f, U)
                        /\ SumFunctionOnSet(f, U) <= Cardinality(U) * b
           B == {U \in SUBSET S : ~Within(U)}
<1>1. ASSUME B # {} PROVE FALSE
  <2>1. PICK U \in B : \A x \in U : U \ {x} \notin B
    BY <1>1, SmallestSet
  <2> DEFINE p == Picked(U)
             r == U \ {p}
  <2>2. IsFiniteSet(U) /\ U \in SUBSET S /\ ~Within(U)
    BY <2>1, FS_Subset
  <2>3. U # {}
    <3>1. Cardinality({}) = 0 /\ SumFunctionOnSet(f, {}) = 0
      BY SumOfNone, FS_EmptySet
    <3> QED
      BY <2>2, <3>1
  <2>4. p \in U /\ SumFunctionOnSet(f, U) = f[p] + SumFunctionOnSet(f, r)
    BY <2>2, <2>3, SumStep
  <2>5. /\ r \in SUBSET S /\ IsFiniteSet(r) /\ Within(r)
        /\ f[p] \in Int /\ -b <= f[p] /\ f[p] <= b
    <3> HIDE DEF Within, p
    <3> QED
      BY <2>1, <2>2, <2>4, FS_Subset
  <2>6. Cardinality(r) = Cardinality(U) - 1 /\ Cardinality(U) \in Nat
    BY <2>2, <2>4, FS_RemoveElement, FS_CardinalityType
  <2> HIDE DEF r, p
  <2>7. SumFunctionOnSet(f, r) \in Int
    BY <2>5, SumIsInt
  <2> DEFINE n == Cardinality(U)
             low == Cardinality(r) * b
             part == SumFunctionOnSet(f, r)
             all == SumFunctionOnSet(f, U)
  <2>8. n * b = low + b /\ low \in Int
    <3>1. \A k \in Nat : (k - 1) * b = k * b - b /\ k * b \in Int
      OBVIOUS
    <3> QED
      BY <2>6, <3>1
  <2>9. /\ part \in Int /\ f[p] \in Int /\ all = f[p] + part
        /\ -low <= part /\ part <= low /\ -b <= f[p] /\ f[p] <= b
    BY <2>4, <2>5, <2>7
  <2>10. ~(-(n * b) <= all /\ all <= n * b)
    BY <2>2
  <2> DEFINE t == f[p]
             high == n * b
  <2> HIDE DEF n, low, part, all, t
  <2> QED
    <3>1. high = low + b /\ t \in Int /\ all = t + part /\ -b <= t /\ t <= b
      BY <2>8, <2>9 DEF t
    <3>2. ~(-high <= all /\ all <= high)
      BY <2>10
    <3> HIDE DEF high
    <3> QED
      BY <2>8, <2>9, <3>1, <3>2
<1> QED
  BY <1>1

(* A table adds up to the same by rows and by columns. *)
LEMMA SumsSwap ==
  ASSUME NEW S, IsFiniteSet(S), NEW T, IsFiniteSet(T),
         NEW f, \A x \in S : \A y \in T : f[x][y] \in Int
  PROVE  SumFunctionOnSet([x \in S |-> SumFunctionOnSet(f[x], T)], S)
           = SumFunctionOnSet([y \in T |-> SumFunctionOnSet([x \in S |-> f[x][y]], S)], T)
<1> DEFINE Row(x) == SumFunctionOnSet(f[x], T)
           rows == [x \in S |-> Row(x)]
           Column(U, y) == SumFunctionOnSet([x \in S |-> f[x][y]], U)
           columns(U) == [y \in T |-> Column(U, y)]
           B == {U \in SUBSET S : SumFunctionOnSet(rows, U) # SumFunctionOnSet(columns(U), T)}
<1>1. \A x \in S : Row(x) \in Int
  BY SumIsInt
<1>2. ASSUME NEW U \in SUBSET S, NEW y \in T
      PROVE  Column(U, y) \in Int
  BY SumIsInt, FS_Subset
<1>3. ASSUME NEW U \in SUBSET S, NEW p \in U
      PROVE  SumFunctionOnSet(columns(U), T) = Row(p) + SumFunctionOnSet(columns(U \ {p}), T)
  <2>1. ASSUME NEW y \in T
        PROVE  Column(U, y) = f[p][y] + Column(U \ {p}, y)
    <3> DEFINE g == [x \in S |-> f[x][y]]
    <3>1. IsFiniteSet(U) /\ (\A x \in U : g[x] \in Int) /\ g[p] = f[p][y]
      BY FS_Subset
    <3> HIDE DEF g
    <3>2. SumFunctionOnSet(g, U) = g[p] + SumFunctionOnSet(g, U \ {p})
      BY <3>1, SumRemove
    <3> QED
      BY <3>1, <3>2 DEF g
  <2> DEFINE a == columns(U)
             b == columns(U \ {p})
             c == f[p]
  <2>2. \A y \in T : a[y] \in Int /\ b[y] \in Int /\ c[y] = a[y] - b[y]
    <3> TAKE y \in T
    <3>1. a[y] = Column(U, y) /\ b[y] = Column(U \ {p}, y)
      OBVIOUS
    <3>2. Column(U, y) \in Int /\ Column(U \ {p}, y) \in Int /\ f[p][y] \in Int
      BY <1>2
    <3>3. Column(U, y) = f[p][y] + Column(U \ {p}, y)
      BY <2>1
    <3> DEFINE u == Column(U, y)
               v == Column(U \ {p}, y)
    <3>4. /\ a[y] = u /\ b[y] = v /\ c[y] = f[p][y]
          /\ u \in Int /\ v \in Int /\ f[p][y] \in Int /\ u = f[p][y] + v
      BY <3>1, <3>2, <3>3
    <3> HIDE DEF u, v, a, b, c
    <3> QED
      BY <3>4
  <2> HIDE DEF a, b, c
  <2>3. SumFunctionOnSet(c, T) = SumFunctionOnSet(a, T) - SumFunctionOnSet(b, T)
    BY <2>2, SumOfDifference
  <2>4. SumFunctionOnSet(a, T) \in Int /\ SumFunctionOnSet(b, T) \in Int
    BY <2>2, SumIsInt
  <2> QED
    BY <2>3, <2>4 DEF a, b, c
<1>4. \A y \in T : columns({})[y] = 0
  BY SumOfNone
<1>5. SumFunctionOnSet(columns({}), T) = 0
  <2> DEFINE k == columns({})
  <2>1. \A y \in T : k[y] = 0
    BY <1>4
  <2> HIDE DEF k
  <2>2. SumFunctionOnSet(k, T) = 0
    BY <2>1, SumOfZeros
  <2> QED
    BY <2>2 DEF k
<1> HIDE DEF columns
<1>6. ASSUME B # {} PROVE FALSE
  <2>1. PICK U \in B : \A x \in U : U \ {x} \notin B
    BY <1>6, SmallestSet
  <2> DEFINE p == Picked(U)
             r == U \ {p}
  <2>2. IsFiniteSet(U) /\ U \in SUBSET S /\ U \in B
    BY <2>1, FS_Subset
  <2>3. U # {}
    BY <1>5, <2>2, SumOfNone
  <2>4. p \in U /\ SumFunctionOnSet(rows, U) = rows[p] + SumFunctionOnSet(rows, r)
    BY <2>2, <2>3, SumStep
  <2> HIDE DEF p
  <2>5. SumFunctionOnSet(columns(U), T) = Row(p) + SumFunctionOnSet(columns(r), T)
    BY <1>3, <2>2, <2>4
  <2>6. r \in SUBSET S /\ r \notin B /\ rows[p] = Row(p)
    BY <2>1, <2>2, <2>4
  <2> HIDE DEF rows, r, Row
  <2> QED
    BY <2>2, <2>4, <2>5, <2>6
<1>7. SumFunctionOnSet(rows, S) = SumFunctionOnSet(columns(S), T)
  <2> HIDE DEF rows
  <2> QED
    BY <1>6
<1> QED
  BY <1>7 DEF columns

-----------------------------------------------------------------------------
(* The settlement and the balances *)

LEMMA RowsAreFinite ==
  ASSUME TypeOK
  PROVE  IsFiniteSet(DOMAIN legs)
<1>1. IsFiniteSet(1..MaxLeg)
  BY BooksConstants, FS_Interval
<1> QED
  BY <1>1, FS_Subset DEF TypeOK, LegIds

LEMMA RowFields ==
  ASSUME TypeOK, NEW l \in DOMAIN legs
  PROVE  /\ legs[l] \in Leg /\ fees[l] \in [FeeTypes -> Fee]
         /\ legs[l].sent \in Money /\ legs[l].received \in Money
         /\ legs[l].from \in Accounts /\ legs[l].to \in Accounts
         /\ legs[l].rate \in Nat /\ legs[l].kind \in Kinds
         /\ IsValid(legs[l])
<1>1. legs[l] \in Leg /\ IsValid(legs[l])
  BY DEF TypeOK
<1>2. fees[l] \in [FeeTypes -> Fee]
  <2> DEFINE FeesOfLeg == [FeeTypes -> Fee]
  <2>1. fees \in [DOMAIN legs -> FeesOfLeg]
    BY DEF TypeOK
  <2> HIDE DEF FeesOfLeg
  <2>2. fees[l] \in FeesOfLeg
    BY <2>1
  <2> QED
    BY <2>2 DEF FeesOfLeg
<1> QED
  BY <1>1, <1>2 DEF Leg

(* A leg that sends another money than c moves the balances in c, taken     *)
(* together, by what it brings in less its fees: each fee in c is debited   *)
(* from one of its accounts.                                                *)
LEMMA LegIsAccountedFor ==
  ASSUME TypeOK, NEW l \in DOMAIN legs, NEW c \in Currencies,
         legs[l].sent.currency # c
  PROVE  /\ \A a \in Accounts : LegDelta(l, a, c) \in Int
         /\ SumFunction([a \in Accounts |-> LegDelta(l, a, c)])
              = (IF legs[l].received.currency = c THEN legs[l].received.minor ELSE 0)
                  - TotalFees(fees[l], c)
<1> DEFINE leg == legs[l]
           rows == fees[l]
           payer == IF leg.received.currency = c THEN leg.to ELSE leg.from
           gain == (IF leg.received.currency = c THEN leg.received.minor ELSE 0)
                     - TotalFees(rows, c)
           f == [a \in Accounts |-> LegDelta(l, a, c)]
<1>1. /\ rows \in [FeeTypes -> Fee] /\ payer \in Accounts
      /\ leg.received.minor \in Int /\ leg.sent.minor \in Int
  BY RowFields DEF Money
<1>2. TotalFees(rows, c) \in Int
  BY <1>1, TotalIsInt
<1>3. gain \in Int
  BY <1>1, <1>2
<1>4. ASSUME NEW a \in Accounts
      PROVE  TotalFees(Debited(leg, rows, a), c) = IF a = payer THEN TotalFees(rows, c) ELSE 0
  <2>1. ASSUME NEW type \in FeeTypes
        PROVE  InCurrency(Debited(leg, rows, a)[type], c)
                 = IF a = payer THEN InCurrency(rows[type], c) ELSE 0
    BY DEF Debited, FeeDebit, InCurrency, Amount
  <2> HIDE DEF payer, leg, rows
  <2> QED
    BY <2>1 DEF TotalFees, FeeTypes
<1>5. ASSUME NEW a \in Accounts
      PROVE  LegDelta(l, a, c) = IF a = payer THEN gain ELSE 0
  <2>1. LegDelta(l, a, c)
          = (IF leg.to = a /\ leg.received.currency = c THEN leg.received.minor ELSE 0)
              - 0 - TotalFees(Debited(leg, rows, a), c)
    BY DEF LegDelta
  <2> DEFINE debit == TotalFees(Debited(leg, rows, a), c)
             total == TotalFees(rows, c)
  <2>2. debit = IF a = payer THEN total ELSE 0
    BY <1>4
  <2> HIDE DEF debit, total
  <2>3. total \in Int
    BY <1>2 DEF total
  <2> QED
    BY <1>1, <2>1, <2>2, <2>3 DEF debit, total
<1>6. f[payer] = gain /\ (\A a \in Accounts \ {payer} : f[a] = 0) /\ DOMAIN f = Accounts
  BY <1>1, <1>5
<1>7. \A a \in Accounts : LegDelta(l, a, c) \in Int
  BY <1>3, <1>5
<1> HIDE DEF f, gain, payer
<1>8. SumFunctionOnSet(f, Accounts) = gain
  BY <1>1, <1>3, <1>6, BooksConstants, SumOfOne
<1>9. SumFunction(f) = gain
  BY <1>6, <1>8 DEF SumFunction
<1> QED
  BY <1>7, <1>9 DEF f, gain

(* What the sweep lets pass on a sale without fees in what it sent.         *)
LEMMA SaleIsWorthWhatArrived ==
  ASSUME TypeOK, NEW l \in DOMAIN legs, ~Unreconciled(l),
         TotalFees(fees[l], legs[l].sent.currency) = 0
  PROVE  LET b == Tolerance(legs[l].received.currency)
             apart == GrossProceeds(legs[l]).minor - legs[l].received.minor IN
         /\ GrossProceeds(legs[l]).minor \in Int
         /\ apart \in Int /\ -b <= apart /\ apart <= b
<1> DEFINE leg == legs[l]
           b == Tolerance(leg.received.currency)
           worth == MultiplyByRate(leg.sent, leg.rate, leg.received.currency, "half-up")
<1>1. /\ leg.sent \in Money /\ leg.received \in Money /\ leg.rate \in Nat
      /\ leg.received.minor \in Int /\ leg.received.currency \in Currencies
      /\ leg.sent.minor \in Int /\ leg.sent.currency \in Currencies
  BY RowFields DEF Money
<1>2. b \in Nat
  BY <1>1, ToleranceIsPositive DEF Positive
<1>3. CASE leg.rate = NoRate
  BY <1>1, <1>2, <1>3 DEF GrossProceeds
<1>4. CASE leg.rate # NoRate
  <2>1. worth.minor \in Int
    <3>1. leg.rate \in Nat
      BY <1>1
    <3> QED
      BY <1>1, <3>1, ConversionIsMoney DEF Money
  <2>2. Amount(leg.sent.minor - 0, leg.sent.currency) = leg.sent
    BY <1>1 DEF Amount, Money
  <2>3. Drift(l) = Magnitude(leg.received.minor - worth.minor)
    BY <2>2 DEF Drift
  <2>4. Drift(l) \in Int /\ Drift(l) <= b
    <3>1. Drift(l) \in Int
      BY <1>1, <2>1, <2>3 DEF Magnitude
    <3>2. ~(Drift(l) > b)
      BY <1>4 DEF Unreconciled
    <3> QED
      BY <1>2, <3>1, <3>2
  <2>5. GrossProceeds(leg).minor = worth.minor
    BY <1>4 DEF GrossProceeds
  <2> DEFINE w == worth.minor
             r == leg.received.minor
  <2>6. /\ w \in Int /\ r \in Int /\ b \in Nat
        /\ Magnitude(r - w) <= b /\ GrossProceeds(leg).minor = w
    BY <1>1, <1>2, <2>1, <2>3, <2>4, <2>5
  <2> HIDE DEF w, r, b
  <2>7. w - r \in Int /\ -b <= w - r /\ w - r <= b
    BY <2>6 DEF Magnitude
  <2> QED
    BY <2>6, <2>7 DEF w, r, b
<1> QED
  BY <1>3, <1>4

(* The settlement less the balances is, sale by sale, what the rate makes   *)
(* of a sale less what arrived.                                             *)
LEMMA SettlementLessBalances ==
  ASSUME TypeOK, OnlySalesSettle, \A l \in Sales : ~Unreconciled(l)
  PROVE  LET apart == [l \in SettledSales |->
                         GrossProceeds(legs[l]).minor - legs[l].received.minor] IN
         NetCredited - SumFunction([a \in Accounts |-> Balance(a, Settlement)])
           = SumFunction(apart)
<1> DEFINE rows == DOMAIN legs
           gross == [l \in SettledSales |-> GrossProceeds(legs[l]).minor]
           total == [l \in rows |-> TotalFees(fees[l], Settlement)]
           arrived == [l \in rows |-> IF legs[l].received.currency = Settlement
                                      THEN legs[l].received.minor ELSE 0]
           apart == [l \in SettledSales |->
                       GrossProceeds(legs[l]).minor - legs[l].received.minor]
           delta == [a \in Accounts |-> [l \in rows |-> LegDelta(l, a, Settlement)]]
           byLeg == [l \in rows |->
                       SumFunctionOnSet([a \in Accounts |-> delta[a][l]], Accounts)]
           byAccount == [a \in Accounts |-> SumFunctionOnSet(delta[a], rows)]
<1>1. /\ IsFiniteSet(rows) /\ SettledSales \in SUBSET rows /\ IsFiniteSet(SettledSales)
      /\ IsFiniteSet(Accounts) /\ Settlement \in Currencies
  BY RowsAreFinite, BooksConstants, FS_Subset DEF SettledSales, Sales
<1>2. ASSUME NEW l \in rows
      PROVE  /\ legs[l].sent.currency # Settlement
             /\ total[l] \in Int /\ arrived[l] \in Int /\ legs[l].received.minor \in Int
             /\ \A a \in Accounts : delta[a][l] \in Int
             /\ byLeg[l] = arrived[l] - total[l]
  <2>1. legs[l].sent.currency # Settlement
    BY DEF OnlySalesSettle
  <2>2. legs[l].received.minor \in Int /\ total[l] \in Int
    BY RowFields, TotalIsInt DEF Money
  <2>3. /\ \A a \in Accounts : LegDelta(l, a, Settlement) \in Int
        /\ SumFunction([a \in Accounts |-> LegDelta(l, a, Settlement)])
              = arrived[l] - total[l]
    BY <1>1, <2>1, LegIsAccountedFor
  <2>4. byLeg[l] = SumFunction([a \in Accounts |-> LegDelta(l, a, Settlement)])
    <3>1. [a \in Accounts |-> delta[a][l]] = [a \in Accounts |-> LegDelta(l, a, Settlement)]
      OBVIOUS
    <3> QED
      BY <3>1 DEF SumFunction
  <2> QED
    BY <2>1, <2>2, <2>3, <2>4
<1>3. SumFunction([a \in Accounts |-> Balance(a, Settlement)]) = SumFunctionOnSet(byAccount, Accounts)
  <2>1. [a \in Accounts |-> Balance(a, Settlement)] = byAccount
    BY DEF Balance, SumFunction
  <2> QED
    BY <2>1 DEF SumFunction
<1>4. SumFunctionOnSet(byAccount, Accounts) = SumFunctionOnSet(byLeg, rows)
  <2>1. \A a \in Accounts : \A l \in rows : delta[a][l] \in Int
    BY <1>2
  <2>2. IsFiniteSet(rows) /\ IsFiniteSet(Accounts)
    BY <1>1
  <2> HIDE DEF delta, rows
  <2> QED
    BY <2>1, <2>2, SumsSwap
<1>5. NetCredited = SumFunctionOnSet(gross, SettledSales) - SumFunctionOnSet(total, rows)
  BY DEF NetCredited, SumFunction
<1>6. ASSUME NEW l \in SettledSales
      PROVE  /\ gross[l] \in Int /\ arrived[l] = legs[l].received.minor
             /\ apart[l] = gross[l] - arrived[l]
  <2>1. /\ l \in rows /\ ~Unreconciled(l) /\ legs[l].received.currency = Settlement
        /\ TotalFees(fees[l], legs[l].sent.currency) = 0
    BY DEF SettledSales, Sales, OnlySalesSettle
  <2> QED
    BY <2>1, SaleIsWorthWhatArrived
<1>7. \A l \in rows \ SettledSales : arrived[l] = 0
  BY DEF SettledSales, OnlySalesSettle
<1> HIDE DEF rows, gross, total, arrived, apart, delta, byLeg, byAccount
<1>8. SumFunctionOnSet(byLeg, rows)
        = SumFunctionOnSet(arrived, rows) - SumFunctionOnSet(total, rows)
  BY <1>1, <1>2, SumOfDifference
<1>9. SumFunctionOnSet(arrived, rows) = SumFunctionOnSet(arrived, SettledSales)
  BY <1>1, <1>2, <1>7, SumOfPart
<1>10. SumFunctionOnSet(apart, SettledSales)
         = SumFunctionOnSet(gross, SettledSales) - SumFunctionOnSet(arrived, SettledSales)
  BY <1>1, <1>2, <1>6, SumOfDifference
<1>11. /\ SumFunctionOnSet(gross, SettledSales) \in Int
       /\ SumFunctionOnSet(arrived, SettledSales) \in Int
       /\ SumFunctionOnSet(total, rows) \in Int
  BY <1>1, <1>2, <1>6, SumIsInt
<1>12. NetCredited - SumFunction([a \in Accounts |-> Balance(a, Settlement)])
         = SumFunctionOnSet(apart, SettledSales)
  BY <1>3, <1>4, <1>5, <1>8, <1>9, <1>10, <1>11
<1> QED
  BY <1>12 DEF apart, SumFunction

LEMMA BalancesFollowTheSettlement == TypeOK => SettlementIsHeld
<1> SUFFICES ASSUME TypeOK, OnlySalesSettle, \A l \in Sales : ~Unreconciled(l)
             PROVE  Magnitude(NetCredited
                                - SumFunction([a \in Accounts |-> Balance(a, Settlement)]))
                      <= Cardinality(Sales) * Tolerance(Settlement)
  BY DEF SettlementIsHeld
<1> DEFINE apart == [l \in SettledSales |->
                       GrossProceeds(legs[l]).minor - legs[l].received.minor]
           between == NetCredited - SumFunction([a \in Accounts |-> Balance(a, Settlement)])
           b == Tolerance(Settlement)
           n == Cardinality(SettledSales)
           m == Cardinality(Sales)
<1>1. between = SumFunctionOnSet(apart, SettledSales)
  BY SettlementLessBalances DEF SumFunction
<1>2. /\ IsFiniteSet(Sales) /\ IsFiniteSet(SettledSales) /\ SettledSales \subseteq Sales
      /\ n \in Nat /\ m \in Nat /\ n <= m
  <2>1. IsFiniteSet(Sales) /\ SettledSales \subseteq Sales
    BY RowsAreFinite, FS_Subset DEF Sales, SettledSales
  <2> QED
    BY <2>1, FS_Subset, FS_CardinalityType
<1>3. b \in Nat
  BY ToleranceIsPositive, BooksConstants DEF Positive
<1>4. \A l \in SettledSales : apart[l] \in Int /\ -b <= apart[l] /\ apart[l] <= b
  <2> TAKE l \in SettledSales
  <2>1. /\ l \in DOMAIN legs /\ ~Unreconciled(l) /\ legs[l].received.currency = Settlement
        /\ TotalFees(fees[l], legs[l].sent.currency) = 0
    BY DEF SettledSales, Sales, OnlySalesSettle
  <2> QED
    BY <2>1, SaleIsWorthWhatArrived
<1> HIDE DEF apart, b, between
<1>5. /\ -(n * b) <= between /\ between <= n * b /\ between \in Int
  BY <1>1, <1>2, <1>3, <1>4, SumIsBounded, SumIsInt
<1> HIDE DEF n, m
<1>6. n * b <= m * b /\ n * b \in Int /\ m * b \in Int
  BY <1>2, <1>3
<1>7. Magnitude(between) <= m * b
  BY <1>5, <1>6 DEF Magnitude
<1> QED
  BY <1>7 DEF between, m, b

(* The settlement of the payout and the balances of its accounts, two sums  *)
(* over the same rows, agree to within the sweep's tolerance for each sale  *)
(* where only sales bring in the settlement currency and the sweep passes   *)
(* them.                                                                    *)
THEOREM BalancesHoldTheSettlement == Spec => []SettlementIsHeld
BY BooksTypeCorrect, BalancesFollowTheSettlement, PTL

-----------------------------------------------------------------------------
(* What a sale is answered with *)

LEMMA SumWithOneMore ==
  ASSUME NEW S, IsFiniteSet(S), NEW e, e \notin S, NEW f, NEW h,
         \A x \in S : f[x] \in Int /\ h[x] = f[x], h[e] \in Int
  PROVE  SumFunctionOnSet(h, S \cup {e}) = h[e] + SumFunctionOnSet(f, S)
<1> DEFINE T == S \cup {e}
<1>1. IsFiniteSet(T) /\ e \in T /\ T \ {e} = S /\ \A x \in T : h[x] \in Int
  BY FS_AddElement
<1>2. SumFunctionOnSet(h, S) = SumFunctionOnSet(f, S)
  BY SumOfSame
<1> HIDE DEF T
<1>3. SumFunctionOnSet(h, T) = h[e] + SumFunctionOnSet(h, T \ {e})
  BY <1>1, SumRemove
<1>4. SumFunctionOnSet(h, T \ {e}) = SumFunctionOnSet(h, S)
  BY <1>1
<1> QED
  BY <1>2, <1>3, <1>4 DEF T

LEMMA GrossIsInt ==
  ASSUME NEW leg \in Leg
  PROVE  GrossProceeds(leg).minor \in Int
<1>1. /\ leg.sent \in Money /\ leg.received \in Money /\ leg.rate \in Nat
      /\ leg.received.currency \in Currencies /\ leg.received.minor \in Int
  BY DEF Leg, Money
<1>2. MultiplyByRate(leg.sent, leg.rate, leg.received.currency, "half-up") \in Money
  BY <1>1, ConversionIsMoney
<1> QED
  BY <1>1, <1>2 DEF GrossProceeds, Money

(* Without a schedule for it, tds is what the statement says.               *)
LEMMA SaleFeesAddUp ==
  ASSUME NEW e \in Entries, NEW tds \in TdsAmounts \cup {NoTds},
         NEW expected \in [FeeTypes -> Fee], expected["tds"] = NoFee
  PROVE  TotalFees(SaleFees(e, expected, tds), e.toCurrency)
           = TotalFees(expected, e.toCurrency) + (IF tds = NoTds THEN 0 ELSE tds)
<1> DEFINE c == e.toCurrency
<1>1. c \in Currencies /\ c # "none"
  BY EntryFields, FeeConstants
<1>2. ASSUME NEW type \in FeeTypes
      PROVE  InCurrency(expected[type], c) \in Int
  BY NoFeeIsNoMoney DEF InCurrency, Fee, Money
<1>3. InCurrency(expected["tds"], c) = 0
  BY <1>1, NoFeeIsNoMoney DEF InCurrency
<1>4. CASE tds = NoTds
  <2>1. TotalFees(expected, c) \in Int
    BY TotalIsInt
  <2> QED
    BY <1>4, <2>1 DEF SaleFees
<1>5. CASE tds # NoTds
  <2> DEFINE filed == SaleFees(e, expected, tds)
  <2>1. tds \in Nat
    BY <1>5, BooksConstants
  <2>2. /\ filed["tds"] = Amount(tds, c)
        /\ \A type \in FeeTypes \ {"tds"} : filed[type] = expected[type]
    BY <1>5 DEF SaleFees, FeeTypes
  <2>3. InCurrency(filed["tds"], c) = tds
    BY <2>2 DEF InCurrency, Amount
  <2> HIDE DEF filed, c
  <2> QED
    BY <1>2, <1>3, <1>5, <2>1, <2>2, <2>3 DEF TotalFees, FeeTypes, filed, c
<1> QED
  BY <1>4, <1>5

LEMMA SaleIsAnswered ==
  ASSUME TypeOK, NEW l \in LegIds, NEW e \in Entries,
         NEW tds \in TdsAmounts \cup {NoTds}, RecordSale(l, e, tds),
         Resolvable(Applicable(SaleLeg(e), schedules)),
         e.toCurrency = Settlement, \A s \in schedules : s.type # "tds"
  PROVE  NetCredited' - NetCredited = answer'.net
<1> DEFINE leg == SaleLeg(e)
           S == Applicable(leg, schedules)
           expected == ExpectedFees(leg, S, "half-up")
           filed == SaleFees(e, expected, tds)
           gross == [m \in SettledSales |-> GrossProceeds(legs[m]).minor]
           total == [m \in DOMAIN legs |-> TotalFees(fees[m], Settlement)]
           grossAfter == [m \in SettledSales' |-> GrossProceeds(legs'[m]).minor]
           totalAfter == [m \in DOMAIN legs' |-> TotalFees(fees'[m], Settlement)]
<1>1. /\ l \notin DOMAIN legs /\ e.rate # NoRate /\ IsValid(leg)
      /\ legs' = WithRow(legs, l, leg) /\ fees' = WithRow(fees, l, filed)
      /\ answer' = SaleRecorded(l, e, leg, expected, tds)
  <2>1. IsNextRowId(l, DOMAIN legs) /\ l \in Nat
    BY DEF RecordSale, LegIds
  <2> QED
    BY <2>1 DEF RecordSale, IsNextRowId
<1>2. /\ DOMAIN fees = DOMAIN legs /\ DOMAIN legs' = DOMAIN legs \cup {l}
      /\ legs'[l] = leg /\ fees'[l] = filed
      /\ \A m \in DOMAIN legs : legs'[m] = legs[m] /\ fees'[m] = fees[m]
  BY <1>1 DEF WithRow, TypeOK
<1>3. /\ leg.rate = e.rate /\ leg.received.currency = Settlement
      /\ leg.received.minor \in Int
      /\ leg.received
           = MultiplyByRate(leg.sent, leg.rate, leg.received.currency, "half-up")
  BY <1>1, SaleConverts
<1>4. leg \in Leg /\ Priced(leg) /\ S \in SUBSET Schedule /\ leg.kind = "sale"
  BY <1>1, EnteredLegsAreLegs, ValidLegIsPriced, BooksConstants
     DEF Kinds, TypeOK, Applicable, SaleLeg, EnteredLeg
<1>5. /\ expected \in [FeeTypes -> Fee] /\ expected["tds"] = NoFee
  <2>1. expected \in [FeeTypes -> Fee]
    BY <1>4, ExpectedFeesAreFees
  <2>2. ~\E s \in S : s.type = "tds"
    BY DEF Applicable
  <2> QED
    BY <2>1, <2>2 DEF ExpectedFees, FeeTypes
<1> HIDE DEF S, expected, leg
<1>6. /\ filed \in [FeeTypes -> Fee]
      /\ TotalFees(filed, Settlement)
           = TotalFees(expected, Settlement) + (IF tds = NoTds THEN 0 ELSE tds)
  BY <1>5, SaleFeesAreFees, SaleFeesAddUp
<1> HIDE DEF filed
<1>7. /\ SettledSales' = SettledSales \cup {l} /\ l \notin SettledSales
      /\ SettledSales \subseteq DOMAIN legs
      /\ IsFiniteSet(SettledSales) /\ IsFiniteSet(DOMAIN legs)
  <2>1. SettledSales' = SettledSales \cup {l}
    BY <1>2, <1>3, <1>4 DEF SettledSales, Sales
  <2> QED
    BY <1>1, <2>1, RowsAreFinite, FS_Subset DEF SettledSales, Sales
<1>8. /\ \A m \in SettledSales : gross[m] \in Int /\ grossAfter[m] = gross[m]
      /\ grossAfter[l] = leg.received.minor
  <2>1. \A m \in SettledSales : legs[m] \in Leg /\ legs'[m] = legs[m] /\ m \in SettledSales'
    BY <1>2, <1>7, RowFields
  <2>2. GrossProceeds(leg) = leg.received
    BY <1>1, <1>3 DEF GrossProceeds
  <2>3. l \in SettledSales'
    BY <1>7
  <2> QED
    BY <1>2, <2>1, <2>2, <2>3, GrossIsInt
<1>9. /\ \A m \in DOMAIN legs : total[m] \in Int /\ totalAfter[m] = total[m]
      /\ totalAfter[l] = TotalFees(filed, Settlement) /\ totalAfter[l] \in Int
  BY <1>2, <1>6, RowFields, TotalIsInt
<1>10. /\ NetCredited = SumFunctionOnSet(gross, SettledSales)
                           - SumFunctionOnSet(total, DOMAIN legs)
       /\ NetCredited' = SumFunctionOnSet(grossAfter, SettledSales')
                            - SumFunctionOnSet(totalAfter, DOMAIN legs')
  BY DEF NetCredited, SumFunction
<1> HIDE DEF gross, total, grossAfter, totalAfter
<1>11. SumFunctionOnSet(grossAfter, SettledSales')
         = leg.received.minor + SumFunctionOnSet(gross, SettledSales)
  <2>1. SumFunctionOnSet(grossAfter, SettledSales \cup {l})
          = grossAfter[l] + SumFunctionOnSet(gross, SettledSales)
    BY <1>3, <1>7, <1>8, SumWithOneMore
  <2> QED
    BY <1>7, <1>8, <2>1
<1>12. SumFunctionOnSet(totalAfter, DOMAIN legs')
         = TotalFees(filed, Settlement) + SumFunctionOnSet(total, DOMAIN legs)
  <2>1. l \notin DOMAIN legs
    BY <1>1
  <2>2. SumFunctionOnSet(totalAfter, DOMAIN legs \cup {l})
          = totalAfter[l] + SumFunctionOnSet(total, DOMAIN legs)
    BY <1>7, <1>9, <2>1, SumWithOneMore
  <2> QED
    BY <1>2, <1>9, <2>2
<1>13. /\ SumFunctionOnSet(gross, SettledSales) \in Int
       /\ SumFunctionOnSet(total, DOMAIN legs) \in Int
       /\ TotalFees(filed, Settlement) \in Int
       /\ TotalFees(expected, Settlement) \in Int
       /\ (IF tds = NoTds THEN 0 ELSE tds) \in Int
  BY <1>5, <1>6, <1>7, <1>8, <1>9, SumIsInt, TotalIsInt, BooksConstants
<1>14. answer'.net = leg.received.minor - TotalFees(expected, Settlement)
                       - (IF tds = NoTds THEN 0 ELSE tds)
  BY <1>1 DEF SaleRecorded
<1> DEFINE withheld == IF tds = NoTds THEN 0 ELSE tds
<1> HIDE DEF withheld
<1> QED
  BY <1>3, <1>6, <1>10, <1>11, <1>12, <1>13, <1>14 DEF withheld

(* What the answer to a sale into the settlement currency says was credited *)
(* is what the settlement of the payout moves by, on whatever is on file.   *)
THEOREM AnswersAreOnFile == Spec => AnswerIsOnFile
<1> DEFINE Answered == answer' \notin {answer, NoAnswer}
<1>1. ASSUME TypeOK, [Next]_vars, Answered,
             legs'[answer'.leg].received.currency = Settlement,
             \A s \in schedules : s.type # "tds"
      PROVE  NetCredited' - NetCredited = answer'.net
  <2>1. PICK l \in LegIds, e \in Entries, tds \in TdsAmounts \cup {NoTds} :
          RecordSale(l, e, tds)
    BY <1>1 DEF Next, NextRecord, NextChange, RecordTransaction, EditTransaction,
                DeleteTransaction, vars
  <2>2. /\ Resolvable(Applicable(SaleLeg(e), schedules))
        /\ answer'.leg = l /\ legs'[l] = SaleLeg(e)
        /\ e.rate # NoRate /\ IsValid(SaleLeg(e))
    BY <1>1, <2>1 DEF RecordSale, SaleRecorded, WithRow
  <2>3. e.toCurrency = Settlement
    BY <1>1, <2>2, SaleConverts
  <2> QED
    BY <1>1, <2>1, <2>2, <2>3, SaleIsAnswered
<1>2. TypeOK /\ [Next]_vars =>
        (/\ Answered /\ legs'[answer'.leg].received.currency = Settlement
         /\ \A s \in schedules : s.type # "tds"
         => NetCredited' - NetCredited = answer'.net)
  BY <1>1
<1> QED
  BY <1>2, BooksTypeCorrect, PTL DEF Spec, AnswerIsOnFile
=============================================================================

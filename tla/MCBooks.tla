------------------------------ MODULE MCBooks -------------------------------
(* Small instances of Books for TLC. *)
EXTENDS Books

(* Two decimals for the fiat currencies, three for the token. *)
Units == [c \in Currencies |-> IF c = "USDT" THEN 1000 ELSE 100]

Decimal(digits, unit) == [digits |-> digits, unit |-> unit]

Line(date, from, to, sent, fromCurrency, received, toCurrency, rate) ==
  [date |-> date, from |-> from, to |-> to,
   sent |-> sent, fromCurrency |-> fromCurrency,
   received |-> received, toCurrency |-> toCurrency, rate |-> rate]

(* An award less its platform charge, one typed with fewer digits than it   *)
(* arrives with, a withdrawal into the token at one and at an uneven rate,  *)
(* one whose rate is not known yet, and one whose sent side is typed round. *)
Awards ==
  {Line(1, "firm", "rise", Decimal(1008, 100), "USD", Decimal(907, 100), "USD", 0),
   Line(1, "firm", "rise", Decimal(90, 10), "USD", Decimal(907, 100), "USD", 0)}
Withdrawals ==
  {Line(1, "rise", "exchange", Decimal(250, 100), "USD", Decimal(2459, 1000), "USDT", 10),
   Line(1, "rise", "exchange", Decimal(250, 100), "USD", Decimal(2111, 1000), "USDT", 9)}
Unrated == {Line(1, "rise", "exchange", Decimal(250, 100), "USD", Decimal(2459, 1000), "USDT", 0)}
RoundlyTyped == {Line(1, "rise", "exchange", Decimal(3, 1), "USD", Decimal(2459, 1000), "USDT", 10)}

(* Sales on either side of a schedule's first day, and one whose proceeds   *)
(* and fees all fall on a half.                                             *)
SalesTyped ==
  {Line(1, "exchange", "bank", Decimal(1005, 1000), "USDT", Decimal(9794, 100), "INR", 975),
   Line(2, "exchange", "bank", Decimal(1005, 1000), "USDT", Decimal(9799, 100), "INR", 975),
   Line(2, "exchange", "bank", Decimal(2, 1), "USDT", Decimal(193, 1), "INR", 965),
   Line(2, "exchange", "bank", Decimal(1005, 1000), "USDT", Decimal(99, 100), "USD", 10)}

Typing == Awards \cup Withdrawals \cup Unrated \cup RoundlyTyped \cup SalesTyped

Rule(id, type, basis, bps, flat, since, until) ==
  [id |-> id, account |-> "exchange", type |-> type, basis |-> basis,
   bps |-> bps, flat |-> flat, since |-> since, until |-> until]

Share == Rule(1, "exchange_fee", "to_amount", 50, NoFee, 1, Forever)
LateShare == Rule(2, "exchange_fee", "to_amount", 90, NoFee, 2, Forever)
Gst == Rule(3, "gst", "exchange_fee", 1800, NoFee, 1, Forever)
Flat == Rule(4, "platform_charge", "flat", 0, Amount(150, "INR"), 1, 1)
OfSent == Rule(5, "network_fee", "from_amount", 100, NoFee, 1, Forever)
TdsShare == Rule(6, "tds", "to_amount", 100, NoFee, 1, Forever)

(* None; as declared; a share that changes over on day 2 under a GST that    *)
(* has nothing to be a share of before; two shares in force on day 2, beside *)
(* a fee on what was sent; and a tds, for which nobody asks.                 *)
Plans ==
  {{}, {Share, Gst, Flat}, {LateShare, Gst}, {Share, LateShare, OfSent}, {Share, TdsShare}}
Tds == {98}
SomeCharges == {Decimal(12, 100), Decimal(1, 10000)}
=============================================================================

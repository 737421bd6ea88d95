--------------------------- MODULE MCLegacyImport ---------------------------
(* A small sheet for TLC: two sales, whose exchange fee and GST are         *)
(* swapped, under the withdrawals they follow; the exchange's account is    *)
(* met with two currencies, and one statement belongs to both sales.        *)
EXTENDS LegacyImport, TLC

Pair == {"t3", "t11"}

Withdrawal ==
  [leg |-> "t2", parent |-> NoParent, payout |-> "P1", company |-> "C1",
   kind |-> "withdrawal", rate |-> TRUE, from |-> "rise", fromCurrency |-> "USD",
   to |-> "dcx", toCurrency |-> "USDT", fees |-> {"network_fee"},
   documents |-> <<>>, wrong |-> "nothing"]
Sale ==
  [leg |-> "t3", parent |-> "t2", payout |-> "P1", company |-> "C1",
   kind |-> "sale", rate |-> TRUE, from |-> "dcx", fromCurrency |-> "USDT",
   to |-> "bank", toCurrency |-> "INR", fees |-> {"tds", "exchange_fee", "gst"},
   documents |-> <<"march">>, wrong |-> "nothing"]
OtherSale ==
  [Sale EXCEPT !.leg = "t11", !.fromCurrency = "USD", !.fees = {"exchange_fee", "gst"}]

Award ==
  [Withdrawal EXCEPT !.leg = "t4", !.payout = "P2", !.company = "C2", !.kind = "transfer",
                     !.fees = {}, !.documents = <<"march", "award">>]

(* The other payout's row is between a leg and the legs below it. *)
WholeSheet == <<Withdrawal, Award, Sale, OtherSale>>
FirstRows == <<Withdrawal, Award, Sale>>
Misread(row, what) == [row EXCEPT !.wrong = what]
Parts ==
  {WholeSheet, FirstRows, FirstRows \o <<Misread(OtherSale, "fee")>>,
   FirstRows \o <<[OtherSale EXCEPT !.parent = "t3x"]>>,
   FirstRows \o <<[OtherSale EXCEPT !.rate = FALSE]>>}
=============================================================================

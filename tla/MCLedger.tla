------------------------------ MODULE MCLedger ------------------------------
(* Small instances of Ledger for TLC. *)
EXTENDS Ledger

Fee(type, lands) == [type |-> type, lands |-> lands]

(* Rupees only, and no list at all; no list is what the charge run uses. *)
NarrowLists == {{"INR"}, {}}
OpenLists == {{}}

NoFees == {<<>>}
Charges == {<<>>, <<Fee("network_fee", TRUE)>>, <<Fee("platform_charge", FALSE)>>}
Plans ==
  {<<>>, <<Fee("exchange_fee", FALSE)>>,
   <<Fee("exchange_fee", TRUE), Fee("gst", TRUE)>>}
Tds == {<<>>, <<Fee("tds", TRUE)>>, <<Fee("tds", FALSE)>>}

(* One plan of two fees, the second refused: a recording with a first and a *)
(* last step, a kill between them, and an end that is a refusal.            *)
TwoStepPlans == {<<>>, <<Fee("exchange_fee", TRUE), Fee("gst", FALSE)>>}
=============================================================================

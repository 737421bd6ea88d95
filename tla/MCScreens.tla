----------------------------- MODULE MCScreens ------------------------------
(* Small instances of Screens for TLC: one payout has a leg, the other none. *)
EXTENDS Screens, TLC

CONSTANTS leg, p1, p2

OneLeg == (p1 :> {leg}) @@ (p2 :> {})
TypedFew == {<<"home">>, PayoutPath(p1), PayoutPath(p2)}
=============================================================================

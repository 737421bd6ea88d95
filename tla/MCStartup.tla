----------------------------- MODULE MCStartup -----------------------------
(* Small instances of Startup for TLC. *)
EXTENDS Startup, TLC

(* The release before traders, this one, and this one with an applied file  *)
(* edited.                                                                  *)
BeforeTraders == <<"001", "002", "003">>
ThisRelease == BeforeTraders \o <<"004">>
EditedRelease == [ThisRelease EXCEPT ![2] = "002 edited"]

Files == {"001", "002", "002 edited", "003", "004"}

TwoReleases == {BeforeTraders, ThisRelease}
ThreeReleases == TwoReleases \cup {EditedRelease}

Interchangeable ==
  Permutations(Requests) \cup Permutations(Passwords \ {Shipped})
=============================================================================

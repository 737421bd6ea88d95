----------------------------- MODULE MCWebCache -----------------------------
(* Small instances of WebCache for TLC. *)
EXTENDS WebCache, TLC

Interchangeable == Permutations(Payouts)
=============================================================================

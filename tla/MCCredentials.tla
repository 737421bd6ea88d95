--------------------------- MODULE MCCredentials ---------------------------
(* Small instances of Credentials for TLC. *)
EXTENDS Credentials, TLC

(* Requests are interchangeable, and so are the passwords people choose.    *)
Interchangeable ==
  Permutations(Requests) \cup Permutations(Passwords \ {Shipped})
=============================================================================

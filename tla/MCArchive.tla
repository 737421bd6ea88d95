----------------------------- MODULE MCArchive -----------------------------
(* Small instances of Archive and Copies for TLC. *)
EXTENDS Copies, TLC

CONSTANTS c1, c2, pdf, txt, t1

(* Backups of two documents, made while both files were there, or one; and  *)
(* of a single row whose file was missing, with a payout it is evidence of. *)
Backups ==
  {[docs |-> c1 :> pdf @@ c2 :> txt, bytes |-> {c1, c2}, links |-> {}, targets |-> {}],
   [docs |-> c1 :> txt @@ c2 :> txt, bytes |-> {c2}, links |-> {}, targets |-> {}],
   [docs |-> c1 :> txt, bytes |-> {}, links |-> {<<c1, t1>>}, targets |-> {t1}]}

(* Uploaded as a pdf; backups hold the same bytes under another name too.   *)
OneUpload == {<<c1, pdf>>}
=============================================================================

------------------------------- MODULE Copies -------------------------------
(***************************************************************************)
(* Copies of the ledger made beside everything else: the export (F33), in  *)
(* the server's own process, and `npm run backup', in another one.         *)
(*                                                                         *)
(* Both take the rows first and at one instant (a synchronous dump; the    *)
(* SQLite backup API) and then the files one by one, each looked for and   *)
(* then read.  Whatever else runs may delete or rewrite a file in between. *)
(***************************************************************************)
EXTENDS Archive

VARIABLE
  copy   \* rows taken, paths still to copy, the one found, and how it stands

copyVars == <<archiveVars, copy>>

Graph(d, l, t) == [docs |-> d, links |-> l, targets |-> t]

NoCopy == [step |-> "none", graph |-> Graph([c \in {} |-> c], {}, {}),
           todo |-> {}, path |-> <<>>]
FailedCopy == [NoCopy EXCEPT !.step = "failed"]
Copying == copy.step \in {"looking", "reading"}

(* The whole ledger in one step, then its documents. *)
BeginCopy ==
  /\ ~Copying
  /\ copy' = [step |-> "looking", graph |-> Graph(docs, links, targets),
              todo |-> DocsInUse, path |-> <<>>]
  /\ UNCHANGED archiveVars

(* A file that is not there is passed over (and counted, by an export).     *)
Look(p) ==
  /\ copy.step = "looking" /\ p \in copy.todo
  /\ copy' = IF files[p] = "absent" THEN [copy EXCEPT !.todo = @ \ {p}]
             ELSE [copy EXCEPT !.path = p, !.step = "reading"]
  /\ UNCHANGED archiveVars

Copied == [copy EXCEPT !.step = "looking", !.path = <<>>, !.todo = @ \ {copy.path}]

(* A file that has gone since it was looked for fails the whole copy; one   *)
(* that is being written is taken as short as it is.                        *)
Read ==
  /\ copy.step = "reading"
  /\ copy' = IF files[copy.path] = "absent" THEN FailedCopy ELSE Copied
  /\ UNCHANGED archiveVars

FinishCopy ==
  /\ copy.step = "looking" /\ copy.todo = {}
  /\ copy' = NoCopy
  /\ UNCHANGED archiveVars

(* An export dies with the server; a backup is another process and goes on. *)
KillBeside == Kill /\ copy' \in {copy, IF Copying THEN NoCopy ELSE copy}

CopiesInit == ArchiveInit /\ copy = NoCopy

CopiesNext ==
  \/ ArchiveStep /\ UNCHANGED copy
  \/ KillBeside
  \/ BeginCopy
  \/ \E p \in Paths : Look(p)
  \/ Read \/ FinishCopy

CopiesSpec == CopiesInit /\ [][CopiesNext]_copyVars

-----------------------------------------------------------------------------
(* Properties *)

(* A copy loads again: every link in it joins two rows of the copy,         *)
(* whatever is attached, deleted or imported while its files are read.      *)
(* bulkLoad checks every foreign key when it commits, and one link too many *)
(* makes the whole archive useless.                                         *)
CopiesLoad ==
  \A k \in copy.graph.links :
    k[1] \in DOMAIN copy.graph.docs /\ k[2] \in copy.graph.targets

(* Only the deleted is missing: a copy never passes over the file of a      *)
(* document that is on file at that moment, nor fails over one, although    *)
(* files come and go under it (delete-document.ts takes the row first); but *)
(* for a file that was lost to everybody (lost, in Archive).                *)
OnlyTheDeletedIsMissing ==
  [][\A p \in DocsInUse \ lost :
       /\ copy.step = "looking" /\ p \in copy.todo \ copy'.todo => ~Copying'
       /\ copy'.step = "failed" => copy.step = "failed" \/ copy.path # p]_copyVars

(* What is copied beside a running server is worth keeping: it loads, and   *)
(* it passes over the files of deleted documents only, or of lost ones.     *)
(* What a file being written has of bytes at that moment is what it takes.  *)
CopiesAreWhole == []CopiesLoad /\ OnlyTheDeletedIsMissing
=============================================================================

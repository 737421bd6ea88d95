------------------------------ MODULE Evidence ------------------------------
(***************************************************************************)
(* Documents: the rows and links in SQLite, the bytes under data/files.    *)
(*                                                                         *)
(* The database half of a request is one synchronous microtask chain, so   *)
(* it is one step here.  The file half is real I/O: mkdir, the open that   *)
(* truncates, the last byte written, rm and the stream's own open are      *)
(* steps of their own, and any other request may run between them.         *)
(*                                                                         *)
(* A content stands for the sha-256 of some bytes; an extension is what    *)
(* the uploaded filename ends in, and is the only part of the name that    *)
(* reaches the stored path.                                                *)
(***************************************************************************)
EXTENDS FiniteSets, Functions

CONSTANTS
  Contents, Extensions,
  Uploads,       \* the pairs of them that users upload
  Targets,       \* payouts, legs and companies evidence can hang on
  Requests,      \* requests that may be in flight together
  Operations,    \* of "attach", "delete", "download": what this instance sends
  NoTarget

ASSUME EvidenceConstants ==
  /\ Operations \subseteq {"attach", "delete", "download"}
  /\ Uploads \subseteq Contents \X Extensions
  /\ NoTarget \notin Targets
  /\ Requests \cap {"absent", "whole", "torn"} = {}

(* stored_path: the content's fan-out, its hash, and the extension. *)
Paths == Contents \X Extensions

Steps == {"idle", "opening", "writing", "stored", "removing", "serving"}

VARIABLES
  docs,     \* documents: content -> extension of its stored_path
  links,    \* document_links: pairs of content and target
  targets,  \* the payouts, legs and companies on file
  files,    \* path -> "absent", "whole", "torn" or the request writing it
  req       \* request -> where its handler is suspended

vars == <<docs, links, targets, files, req>>

Idle == [step |-> "idle", path |-> <<>>, target |-> NoTarget]
At(r, s) == req[r].step = s
Advance(r, s) == req' = [req EXCEPT ![r].step = s]
Finish(r) == req' = [req EXCEPT ![r] = Idle]

Quiet == \A r \in Requests : At(r, "idle")

Row(c) == <<c, docs[c]>>   \* the stored path a row names
LinksOf(c) == {k \in links : k[1] = c}
DocsInUse == {Row(c) : c \in DOMAIN docs}

-----------------------------------------------------------------------------
(* AttachDocument: FileSystemDocumentStore.put, then rows and links *)

(* Nothing is looked up first: the target may not exist, or not for long.   *)
BeginAttach(r, c, e, t) ==
  /\ "attach" \in Operations /\ <<c, e>> \in Uploads
  /\ At(r, "idle")
  /\ req' = [req EXCEPT ![r] = [step |-> "opening", path |-> <<c, e>>, target |-> t]]
  /\ UNCHANGED <<docs, links, targets, files>>

(* writeFile opens with O_TRUNC: whatever was there is empty until this     *)
(* request has written its last byte.                                       *)
OpenFile(r) ==
  /\ At(r, "opening")
  /\ files' = [files EXCEPT ![req[r].path] = r]
  /\ Advance(r, "writing")
  /\ UNCHANGED <<docs, links, targets>>

(* The bytes land in the file this request opened.  If another request has  *)
(* truncated it since, it counts as incomplete until that one is done; if   *)
(* it was unlinked, the bytes are gone with the last descriptor.            *)
CloseFile(r) ==
  /\ At(r, "writing")
  /\ files' = IF files[req[r].path] = r
              THEN [files EXCEPT ![req[r].path] = "whole"] ELSE files
  /\ Advance(r, "stored")
  /\ UNCHANGED <<docs, links, targets>>

(* findBySha256: a content already on file keeps its row, path included. *)
RowKept(c, e) ==
  IF c \in DOMAIN docs THEN docs
  ELSE [d \in DOMAIN docs \cup {c} |-> IF d = c THEN e ELSE docs[d]]

(* Faulty: foreign keys are off, as SQLite has them unless told otherwise.  *)
LinkedAnyway(c, t) == links \cup {<<c, t>>}

(* The insert is refused when the target is not on file (any longer).       *)
LinkedTo(c, t) == IF t \in targets THEN links \cup {<<c, t>>} ELSE links

PutDone(r) == At(r, "stored")

(* A refused link leaves the row it was to hang from. *)
CommitAttach(r) ==
  LET c == req[r].path[1] IN
  /\ PutDone(r)
  /\ docs' = RowKept(c, req[r].path[2])
  /\ links' = LinkedTo(c, req[r].target)
  /\ Finish(r)
  /\ UNCHANGED <<targets, files>>

-----------------------------------------------------------------------------
(* DeleteDocument: the row first, with its links; then the file *)

LinksWithout(c) == links \ LinksOf(c)

(* Faulty: the file first, in the order the code's comment warns against,   *)
(* with the handler dying in between.                                       *)
DeleteFileFirst(r, c) ==
  /\ "delete" \in Operations
  /\ At(r, "idle")
  /\ c \in DOMAIN docs
  /\ files' = [files EXCEPT ![Row(c)] = "absent"]
  /\ UNCHANGED <<docs, links, targets, req>>

DeleteRow(r, c) ==
  /\ "delete" \in Operations
  /\ At(r, "idle")
  /\ c \in DOMAIN docs
  /\ docs' = Restrict(docs, DOMAIN docs \ {c})
  /\ links' = LinksWithout(c)
  /\ req' = [req EXCEPT ![r] = [step |-> "removing", path |-> Row(c), target |-> NoTarget]]
  /\ UNCHANGED <<targets, files>>

(* rm with force: a file already gone is no error. *)
RemoveFile(r) ==
  /\ At(r, "removing")
  /\ files' = [files EXCEPT ![req[r].path] = "absent"]
  /\ Finish(r)
  /\ UNCHANGED <<docs, links, targets>>

-----------------------------------------------------------------------------
(* GetDocument and the stream its route sends *)

(* findById, then stat: a row whose file is missing is answered with 422.   *)
StatFile(r, c) ==
  /\ "download" \in Operations
  /\ At(r, "idle")
  /\ c \in DOMAIN docs
  /\ files[Row(c)] # "absent"
  /\ req' = [req EXCEPT ![r] = [step |-> "serving", path |-> Row(c), target |-> NoTarget]]
  /\ UNCHANGED <<docs, links, targets, files>>

(* The stream opens the file and sends what it finds: the bytes, fewer of   *)
(* them, or an error.                                                       *)
ServeFile(r) ==
  /\ At(r, "serving")
  /\ Finish(r)
  /\ UNCHANGED <<docs, links, targets, files>>

-----------------------------------------------------------------------------
(* LinkDocument, DetachDocument, and the ledger's own deletes *)

Link(c, t) ==
  /\ c \in DOMAIN docs /\ t \in targets
  /\ links' = links \cup {<<c, t>>}
  /\ UNCHANGED <<docs, targets, files, req>>

Detach(c, t) ==
  /\ c \in DOMAIN docs
  /\ links' = links \ {<<c, t>>}
  /\ UNCHANGED <<docs, targets, files, req>>

RecordTarget(t) ==
  /\ t \notin targets
  /\ targets' = targets \cup {t}
  /\ UNCHANGED <<docs, links, files, req>>

(* A payout or leg goes, its links cascade, the documents stay on file. *)
DeleteTarget(t) ==
  /\ t \in targets
  /\ targets' = targets \ {t}
  /\ links' = {k \in links : k[2] # t}
  /\ UNCHANGED <<docs, files, req>>

-----------------------------------------------------------------------------
(* The process is killed: no handler survives, no file closes. *)
Crash ==
  /\ ~Quiet
  /\ req' = [r \in Requests |-> Idle]
  /\ files' = [p \in Paths |-> IF files[p] \in Requests THEN "torn" ELSE files[p]]
  /\ UNCHANGED <<docs, links, targets>>

Init ==
  /\ docs = [c \in {} |-> c]
  /\ links = {}
  /\ targets = {}
  /\ files = [p \in Paths |-> "absent"]
  /\ req = [r \in Requests |-> Idle]

Attach(r) ==
  \/ \E c \in Contents, e \in Extensions, t \in Targets : BeginAttach(r, c, e, t)
  \/ OpenFile(r) \/ CloseFile(r) \/ CommitAttach(r)
Delete(r) == (\E c \in Contents : DeleteRow(r, c)) \/ RemoveFile(r)
Download(r) == (\E c \in Contents : StatFile(r, c)) \/ ServeFile(r)

Next ==
  \/ \E r \in Requests : Attach(r) \/ Delete(r) \/ Download(r)
  \/ \E c \in Contents, t \in Targets : Link(c, t) \/ Detach(c, t)
  \/ \E t \in Targets : RecordTarget(t) \/ DeleteTarget(t)
  \/ Crash

Spec == Init /\ [][Next]_vars

-----------------------------------------------------------------------------
(* Properties *)

TypeOK ==
  /\ DOMAIN docs \subseteq Contents /\ docs \in [DOMAIN docs -> Extensions]
  /\ links \subseteq Contents \X Targets
  /\ targets \subseteq Targets
  /\ files \in [Paths -> {"absent", "whole", "torn"} \cup Requests]
  /\ req \in [Requests -> [step : Steps, path : Paths \cup {<<>>},
                           target : Targets \cup {NoTarget}]]

(* A link joins a document and a target that both exist, although an upload *)
(* names its target long before it links to it.                             *)
LinksHang == \A k \in links : k[1] \in DOMAIN docs /\ k[2] \in targets

(* With nothing in flight every row's file is there, complete: what         *)
(* delete-document.ts deletes the row first for.  It does not hold (README,  *)
(* disagreements); what does is RowsHaveTheirFiles of Archive.              *)
EveryRowHasItsFile == Quiet => \A c \in DOMAIN docs : files[Row(c)] = "whole"

(* A file being written belongs to a request that is writing it, so it is   *)
(* completed unless that request dies or the file is unlinked.              *)
OpenFilesHaveAWriter ==
  \A p \in Paths : files[p] \in Requests =>
    At(files[p], "writing") /\ req[files[p]].path = p

(* A row is inserted only when its bytes are on disk, or in the hands of    *)
(* another upload of the same bytes: it never waits for the inserting       *)
(* request itself (AttachDocument awaits put before it inserts).            *)
NewRowsAreStored ==
  [][\A c \in DOMAIN docs' \ DOMAIN docs :
       LET f == files[<<c, docs'[c]>>] IN
       f = "whole" \/ (f \in Requests /\ req'[f] = req[f])]_vars

(* Rows, links, files and requests fit together in every interleaving: the  *)
(* tables keep their shape, no link outlives either end, and no file is     *)
(* left half written but by a kill (attach-document.ts, the file store).    *)
EvidenceHangsTogether == TypeOK /\ LinksHang /\ OpenFilesHaveAWriter
=============================================================================

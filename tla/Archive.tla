------------------------------ MODULE Archive ------------------------------
(***************************************************************************)
(* Export and import (F33), on top of Evidence.                            *)
(*                                                                         *)
(* An import checks everything and asks whether the ledger is empty in one *)
(* synchronous step, then writes the archive's files one at a time, then   *)
(* replaces the ledger in one transaction.  Its file writes are those of   *)
(* an upload (mkdir, truncating open, last byte), done by Importer.        *)
(*                                                                         *)
(* An archive is the graph it holds: documents, links and targets, with    *)
(* the bytes of those documents whose file was there when it was made.     *)
(***************************************************************************)
EXTENDS Evidence

CONSTANTS
  Archives,   \* archives that pass every check of importLedger
  NoArchive,
  Importer    \* the request that imports

ASSUME ArchiveConstants ==
  /\ Importer \in Requests
  /\ NoArchive \notin Archives
  /\ \A a \in Archives :
       /\ DOMAIN a.docs \subseteq Contents /\ a.docs \in [DOMAIN a.docs -> Extensions]
       /\ a.bytes \subseteq DOMAIN a.docs
       /\ a.links \subseteq (DOMAIN a.docs) \X a.targets
       /\ a.targets \subseteq Targets

VARIABLES
  importing,  \* the archive, and its paths still to write
  lost        \* paths whose bytes were given up; only properties read it

archiveVars == <<vars, importing, lost>>

NoImport == [archive |-> NoArchive, todo |-> {}]
PathsOf(a) == {<<c, a.docs[c]>> : c \in a.bytes}

Occupied == docs # [c \in {} |-> c] \/ targets # {} \/ links # {}

-----------------------------------------------------------------------------
(* Who counts on a file, and when it is given up *)

(* The paths an import has written or is writing, and is to load rows for. *)
Restored ==
  {p \in Paths : importing # NoImport /\ p \in PathsOf(importing.archive) \ importing.todo}

(* A row names the file, or is about to: its bytes are being put, or back.  *)
CountedOn ==
  DocsInUse \cup Restored
  \cup {req[r].path : r \in {q \in Requests : req[q].step \in {"writing", "stored"}}}

BeingWritten(p) == \E r \in Requests : files[p] = r /\ At(r, "writing") /\ req[r].path = p

(* The bytes are back once the file is complete. *)
StillLost == {p \in lost : files'[p] # "whole"}

-----------------------------------------------------------------------------
(* importLedger *)

(* LedgerNotEmptyError unless `replace' was said. *)
MayReplace(replace) == Occupied => replace

(* clearLedger and bulkLoad, in one transaction.  Files are left alone, and *)
(* a row that came without bytes is loaded like any other.                  *)
LoadGraph(a) ==
  /\ docs' = a.docs /\ links' = a.links /\ targets' = a.targets
  /\ LET bare == {<<c, a.docs[c]>> : c \in DOMAIN a.docs \ a.bytes} IN
     lost' = lost \cup {p \in bare : files[p] # "whole" /\ ~BeingWritten(p)}

(* No file to wait for: one step, from the question to the load. *)
ImportRows(a, replace) ==
  /\ importing = NoImport /\ PathsOf(a) = {}
  /\ MayReplace(replace)
  /\ LoadGraph(a)
  /\ UNCHANGED <<files, req, importing>>

BeginImport(a, replace) ==
  /\ importing = NoImport /\ PathsOf(a) # {}
  /\ MayReplace(replace)
  /\ importing' = [archive |-> a, todo |-> PathsOf(a)]
  /\ UNCHANGED <<vars, lost>>

(* files.restore of the next file: from here it is an upload's put. *)
RestoreNext(p) ==
  /\ p \in importing.todo
  /\ At(Importer, "idle")
  /\ importing' = [importing EXCEPT !.todo = @ \ {p}]
  /\ req' = [req EXCEPT ![Importer] =
               [step |-> "opening", path |-> p, target |-> NoTarget]]
  /\ UNCHANGED <<docs, links, targets, files, lost>>

RestoreWrite ==
  /\ OpenFile(Importer) \/ CloseFile(Importer)
  /\ lost' = StillLost
  /\ UNCHANGED importing

RestoreDone ==
  /\ At(Importer, "stored") /\ importing.todo # {}
  /\ Finish(Importer)
  /\ UNCHANGED <<docs, links, targets, files, importing, lost>>

(* Faulty: the last restore is not awaited. *)
FilesStarted == importing.todo = {} /\ req[Importer].step \in {"writing", "stored"}

FilesRestored == importing.todo = {} /\ At(Importer, "stored")

(* The last file is written: load, before anyone else runs. *)
Load ==
  /\ importing # NoImport
  /\ FilesRestored
  /\ LoadGraph(importing.archive)
  /\ importing' = NoImport
  /\ Finish(Importer)
  /\ UNCHANGED files

-----------------------------------------------------------------------------
(* The process is killed, in a request or between two files of an import:   *)
(* a row whose file was being written again has lost it.                    *)
Kill ==
  /\ Crash \/ (Quiet /\ importing # NoImport /\ UNCHANGED vars)
  /\ importing' = NoImport
  /\ lost' = lost \cup {p \in DocsInUse : files[p] \in Requests}

(* The rm of a deleted document, after others have come to count on the     *)
(* file: they are not asked.                                                *)
RemoveUnasked(r) ==
  /\ RemoveFile(r)
  /\ lost' = lost \cup ({req[r].path} \cap CountedOn)

Users ==
  \E r \in Requests \ {Importer} :
    \/ Attach(r) /\ lost' = StillLost
    \/ \E c \in Contents : DeleteRow(r, c) /\ UNCHANGED lost
    \/ RemoveUnasked(r)
    \/ Download(r) /\ UNCHANGED lost
Rows ==
  \/ \E c \in Contents, t \in Targets : Link(c, t) \/ Detach(c, t)
  \/ \E t \in Targets : RecordTarget(t) \/ DeleteTarget(t)

ArchiveInit ==
  Init /\ importing = NoImport /\ lost = {}

ArchiveStep ==
  \/ Users /\ UNCHANGED importing
  \/ Rows /\ UNCHANGED <<importing, lost>>
  \/ \E a \in Archives, replace \in BOOLEAN :
       ImportRows(a, replace) \/ BeginImport(a, replace)
  \/ \E p \in Paths : RestoreNext(p)
  \/ RestoreWrite \/ RestoreDone \/ Load

ArchiveNext == ArchiveStep \/ Kill

ArchiveSpec == ArchiveInit /\ [][ArchiveNext]_archiveVars

-----------------------------------------------------------------------------
(* Properties *)

(* A row's file is on disk, complete or in the hands of whoever is writing  *)
(* it, at every moment and not only once all is quiet, unless it is lost in *)
(* one of the three ways this code loses bytes: a delete's rm that comes    *)
(* after somebody else counted on the file, a kill while it was written     *)
(* again, a row imported without them.  Puts before rows (AttachDocument),  *)
(* restores before the load (importLedger), the row before its file         *)
(* (DeleteDocument) are what keeps it from being lost in any other.         *)
RowsHaveTheirFiles ==
  \A p \in DocsInUse \ lost : files[p] = "whole" \/ BeingWritten(p)
=============================================================================

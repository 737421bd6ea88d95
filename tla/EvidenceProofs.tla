--------------------------- MODULE EvidenceProofs ---------------------------
(***************************************************************************)
(* Theorems about Evidence, for any number of requests, contents, targets  *)
(* and extensions, any mix of operations and a kill at any point, unless   *)
(* the theorem says otherwise; then about Archive and Copies, which add    *)
(* imports and copies to those steps: what holds of Evidence is shown to   *)
(* hold beside them, and of the copies themselves.                         *)
(*                                                                         *)
(* The second half is about ArchiveFormat: the tar codec, for any entries  *)
(* and any blocks, then what an import makes of an archive that came as it *)
(* was packed, with something missing or broken, or packed anew.           *)
(***************************************************************************)
EXTENDS Copies, ArchiveFormat, SequenceTheorems, FiniteSetTheorems,
        WellFoundedInduction, TLAPS

-----------------------------------------------------------------------------
(* What holds whatever the operations are *)

(* A request in flight knows the path it is at work on. *)
PathsInFlight == \A r \in Requests : ~At(r, "idle") => req[r].path \in Paths

IInv == TypeOK /\ PathsInFlight /\ LinksHang /\ OpenFilesHaveAWriter

LEMMA InitIInv == Init => IInv
<1> SUFFICES ASSUME Init PROVE IInv
  OBVIOUS
<1> USE EvidenceConstants DEF Init, Idle, At
<1>1. TypeOK
  BY DEF TypeOK, Steps
<1>2. PathsInFlight /\ LinksHang /\ OpenFilesHaveAWriter
  BY DEF PathsInFlight, LinksHang, OpenFilesHaveAWriter
<1> QED
  BY <1>1, <1>2 DEF IInv

LEMMA NextIInv == IInv /\ [Next]_vars => IInv'
<1> SUFFICES ASSUME IInv, [Next]_vars PROVE IInv'
  OBVIOUS
<1> USE EvidenceConstants
    DEF IInv, TypeOK, PathsInFlight, LinksHang, OpenFilesHaveAWriter,
        Paths, Steps, Idle, At, Advance, Finish
<1>1. ASSUME NEW r \in Requests, NEW c \in Contents, NEW e \in Extensions,
             NEW t \in Targets, BeginAttach(r, c, e, t)
      PROVE  IInv'
  BY <1>1 DEF BeginAttach
<1>2. ASSUME NEW r \in Requests, OpenFile(r) PROVE IInv'
  BY <1>2 DEF OpenFile
<1>3. ASSUME NEW r \in Requests, CloseFile(r) PROVE IInv'
  BY <1>3 DEF CloseFile
<1>4. ASSUME NEW r \in Requests, CommitAttach(r) PROVE IInv'
  BY <1>4 DEF CommitAttach, PutDone, RowKept, LinkedTo
<1>5. ASSUME NEW r \in Requests, NEW c \in Contents, DeleteRow(r, c) PROVE IInv'
  BY <1>5 DEF DeleteRow, Restrict, LinksWithout, LinksOf, Row
<1>6. ASSUME NEW r \in Requests, RemoveFile(r) PROVE IInv'
  BY <1>6 DEF RemoveFile
<1>7. ASSUME NEW r \in Requests, NEW c \in Contents, StatFile(r, c) PROVE IInv'
  BY <1>7 DEF StatFile, Row
<1>8. ASSUME NEW r \in Requests, ServeFile(r) PROVE IInv'
  BY <1>8 DEF ServeFile
<1>9. ASSUME NEW c \in Contents, NEW t \in Targets, Link(c, t) \/ Detach(c, t)
      PROVE  IInv'
  BY <1>9 DEF Link, Detach
<1>10. ASSUME NEW t \in Targets, RecordTarget(t) \/ DeleteTarget(t) PROVE IInv'
  BY <1>10 DEF RecordTarget, DeleteTarget
<1>11. CASE Crash
  BY <1>11 DEF Crash
<1>12. CASE UNCHANGED vars
  BY <1>12 DEF vars
<1> QED
  BY <1>1, <1>2, <1>3, <1>4, <1>5, <1>6, <1>7, <1>8, <1>9, <1>10, <1>11, <1>12
     DEF Next, Attach, Delete, Download

LEMMA AlwaysIInv == Spec => []IInv
  BY InitIInv, NextIInv, PTL DEF Spec

(* Rows, links, files and handlers keep their shape. *)
THEOREM TypeCorrect == Spec => []TypeOK
  BY AlwaysIInv, PTL DEF IInv

(* No link outlives either of its ends: an upload names its target before   *)
(* its bytes are stored and links to it after (AttachDocument), while       *)
(* documents and targets come and go.                                       *)
THEOREM LinksAlwaysHang == Spec => []LinksHang
  BY AlwaysIInv, PTL DEF IInv

(* A file that is truncated and not yet complete always has a live request  *)
(* to complete it: a kill leaves torn files, never one believed in hand.    *)
THEOREM EveryOpenFileHasAWriter == Spec => []OpenFilesHaveAWriter
  BY AlwaysIInv, PTL DEF IInv

(* Rows, links, files and handlers fit together however any number of       *)
(* uploads, links and deletes interleave and wherever the process is killed. *)
THEOREM EvidenceAlwaysHangs == Spec => []EvidenceHangsTogether
<1>1. IInv => EvidenceHangsTogether
  BY DEF IInv, EvidenceHangsTogether
<1> QED
  BY <1>1, AlwaysIInv, PTL

-----------------------------------------------------------------------------
(* What holds while nothing deletes *)

NoDeletes == "delete" \notin Operations

Intact == {"whole"} \cup Requests

(* No handler is about to unlink a file; a put under way or done finds its  *)
(* file there until it commits.                                             *)
PutsKeep ==
  \A r \in Requests :
    /\ ~At(r, "removing")
    /\ req[r].step \in {"writing", "stored"} => files[req[r].path] \in Intact

LEMMA NextPutsKeep ==
  ASSUME NoDeletes, IInv, PutsKeep, [Next]_vars PROVE PutsKeep'
<1> USE EvidenceConstants
    DEF IInv, TypeOK, PathsInFlight, PutsKeep, OpenFilesHaveAWriter,
        NoDeletes, Intact, Paths, Steps, Idle, At, Advance, Finish
<1>1. ASSUME NEW r \in Requests, Attach(r) PROVE PutsKeep'
  <2>1. ASSUME NEW c \in Contents, NEW e \in Extensions, NEW t \in Targets,
               BeginAttach(r, c, e, t)
        PROVE  PutsKeep'
    BY <2>1 DEF BeginAttach
  <2>2. CASE OpenFile(r)
    BY <2>2 DEF OpenFile
  <2>3. CASE CloseFile(r)
    BY <2>3 DEF CloseFile
  <2>4. CASE CommitAttach(r)
    BY <2>4 DEF CommitAttach
  <2> QED
    BY <1>1, <2>1, <2>2, <2>3, <2>4 DEF Attach
<1>2. ASSUME NEW r \in Requests, Delete(r) PROVE PutsKeep'
  BY <1>2 DEF Delete, DeleteRow, RemoveFile
<1>3. ASSUME NEW r \in Requests, Download(r) PROVE PutsKeep'
  BY <1>3 DEF Download, StatFile, ServeFile
<1>4. CASE Crash
  BY <1>4 DEF Crash
<1>5. ASSUME NEW c \in Contents, NEW t \in Targets, Link(c, t) \/ Detach(c, t)
      PROVE  PutsKeep'
  BY <1>5 DEF Link, Detach
<1>6. ASSUME NEW t \in Targets, RecordTarget(t) \/ DeleteTarget(t)
      PROVE  PutsKeep'
  BY <1>6 DEF RecordTarget, DeleteTarget
<1>7. CASE UNCHANGED vars
  BY <1>7 DEF vars
<1> QED
  BY <1>1, <1>2, <1>3, <1>4, <1>5, <1>6, <1>7 DEF Next

LEMMA InitPutsKeep == Init => PutsKeep
  BY DEF Init, PutsKeep, Idle, At

LEMMA AlwaysPutsKeep == ASSUME NoDeletes PROVE Spec => []PutsKeep
<1>1. IInv /\ PutsKeep /\ [Next]_vars => PutsKeep'
  BY NextPutsKeep
<1> QED
  BY <1>1, InitPutsKeep, AlwaysIInv, PTL DEF Spec

(* AttachDocument inserts a row only for bytes that are on disk, or being   *)
(* rewritten by another upload of the same bytes.                           *)
LEMMA InsertsAreStored ==
  ASSUME IInv, PutsKeep, [Next]_vars,
         NEW c \in DOMAIN docs' \ DOMAIN docs
  PROVE  LET f == files[<<c, docs'[c]>>] IN
         f = "whole" \/ (f \in Requests /\ req'[f] = req[f])
<1> USE EvidenceConstants
    DEF IInv, TypeOK, PathsInFlight, PutsKeep, OpenFilesHaveAWriter,
        Intact, Paths, Steps, Idle, At, Advance, Finish
<1>1. PICK r \in Requests : CommitAttach(r)
  <2>1. ASSUME NEW r \in Requests, Attach(r), ~CommitAttach(r) PROVE FALSE
    BY <2>1 DEF Attach, BeginAttach, OpenFile, CloseFile
  <2>2. ASSUME NEW r \in Requests, Delete(r) PROVE FALSE
    <3>1. ASSUME NEW d \in Contents, DeleteRow(r, d) PROVE FALSE
      BY <3>1 DEF DeleteRow, Restrict
    <3>2. CASE RemoveFile(r)
      BY <3>2 DEF RemoveFile
    <3> QED
      BY <2>2, <3>1, <3>2 DEF Delete
  <2>3. ASSUME NEW r \in Requests, Download(r) PROVE FALSE
    BY <2>3 DEF Download, StatFile, ServeFile
  <2>4. ASSUME NEW d \in Contents, NEW t \in Targets, Link(d, t) \/ Detach(d, t)
        PROVE  FALSE
    BY <2>4 DEF Link, Detach
  <2>5. ASSUME NEW t \in Targets, RecordTarget(t) \/ DeleteTarget(t) PROVE FALSE
    BY <2>5 DEF RecordTarget, DeleteTarget
  <2>6. ~Crash /\ ~UNCHANGED vars
    BY DEF Crash, vars
  <2> QED
    BY <2>1, <2>2, <2>3, <2>4, <2>5, <2>6 DEF Next
<1>2. req[r].path \in Paths /\ At(r, "stored") /\ files[req[r].path] \in Intact
  BY <1>1 DEF CommitAttach, PutDone
<1>3. req[r].path = <<c, docs'[c]>>
  BY <1>1, <1>2 DEF CommitAttach, PutDone, RowKept
<1>4. CASE files[req[r].path] = "whole"
  BY <1>3, <1>4
<1>5. CASE files[req[r].path] \in Requests
  <2> DEFINE f == files[req[r].path]
  <2>1. At(f, "writing") /\ f # r
    BY <1>2, <1>5
  <2>2. req'[f] = req[f]
    BY <1>1, <1>5, <2>1 DEF CommitAttach
  <2> QED
    BY <1>3, <1>5, <2>2
<1> QED
  BY <1>2, <1>4, <1>5

(* The same as an action property: no row before its bytes. *)
THEOREM NoRowBeforeItsBytes == ASSUME NoDeletes PROVE Spec => NewRowsAreStored
<1>1. IInv /\ PutsKeep /\ [Next]_vars =>
      [\A c \in DOMAIN docs' \ DOMAIN docs :
         LET f == files[<<c, docs'[c]>>] IN
         f = "whole" \/ (f \in Requests /\ req'[f] = req[f])]_vars
  BY InsertsAreStored
<1> QED
  BY <1>1, AlwaysIInv, AlwaysPutsKeep, PTL DEF Spec, NewRowsAreStored

-----------------------------------------------------------------------------
(* Beside imports *)

(* An import under way is of an archive, knows which of its paths it has    *)
(* not begun, and is the only one that uses the importer's handler.         *)
ImportKnown ==
  /\ importing # NoImport => /\ importing.archive \in Archives
                             /\ importing.todo \subseteq PathsOf(importing.archive)
  /\ importing = NoImport => At(Importer, "idle")

AInv == IInv /\ ImportKnown

LEMMA ArchivePaths ==
  ASSUME NEW a \in Archives PROVE PathsOf(a) \subseteq Paths
  BY ArchiveConstants DEF PathsOf, Paths

LEMMA InitAInv == ArchiveInit => AInv
  BY InitIInv, ArchiveConstants DEF ArchiveInit, AInv, ImportKnown, Init, Idle, At

(* Of the steps Archive takes, those of Evidence's.                         *)
LEMMA EvidenceSteps ==
  ASSUME (Users \/ Rows) \/ RestoreWrite \/ Kill
  PROVE  [Next]_vars
<1>1. CASE Users
  BY <1>1, ArchiveConstants DEF Users, RemoveUnasked, Next, Delete
<1>2. CASE RestoreWrite
  BY <1>2, ArchiveConstants DEF RestoreWrite, Next, Attach
<1> QED
  BY <1>1, <1>2 DEF Rows, Kill, Next

LEMMA NextAInv == AInv /\ [ArchiveNext]_archiveVars => AInv'
<1> SUFFICES ASSUME AInv, [ArchiveNext]_archiveVars PROVE AInv'
  OBVIOUS
<1> USE DEF AInv
<1>1. CASE (Users \/ Rows) /\ UNCHANGED importing
  <2>1. IInv'
    <3>1. [Next]_vars
      BY <1>1, EvidenceSteps
    <3> QED
      BY <3>1, NextIInv
  <2>2. req'[Importer] = req[Importer]
    <3> DEFINE same(r) == \A q \in Requests \ {r} : req'[q] = req[q]
    <3>1. ASSUME NEW r \in Requests, Attach(r) PROVE same(r)
      BY <3>1 DEF Attach, BeginAttach, OpenFile, CloseFile, CommitAttach, Advance, Finish, IInv, TypeOK
    <3>2. ASSUME NEW r \in Requests, Delete(r) PROVE same(r)
      BY <3>2 DEF Delete, DeleteRow, RemoveFile, Finish, IInv, TypeOK
    <3>3. ASSUME NEW r \in Requests, Download(r) PROVE same(r)
      BY <3>3 DEF Download, StatFile, ServeFile, Finish, IInv, TypeOK
    <3>4. CASE Users
      BY <3>1, <3>2, <3>3, <3>4, ArchiveConstants DEF Users, RemoveUnasked, Delete
    <3>5. CASE Rows
      BY <3>5 DEF Rows, Link, Detach, RecordTarget, DeleteTarget
    <3> QED
      BY <1>1, <3>4, <3>5
  <2> QED
    BY <1>1, <2>1, <2>2 DEF ImportKnown, At
<1>2. ASSUME NEW a \in Archives, NEW replace \in BOOLEAN, ImportRows(a, replace) PROVE AInv'
  <2>1. IInv'
    BY <1>2, ArchiveConstants
    DEF ImportRows, LoadGraph, IInv, TypeOK, PathsInFlight, LinksHang, OpenFilesHaveAWriter, At
  <2> QED
    BY <1>2, <2>1 DEF ImportRows, ImportKnown, At
<1>3. ASSUME NEW a \in Archives, NEW replace \in BOOLEAN, BeginImport(a, replace) PROVE AInv'
  <2>1. IInv'
    BY <1>3, NextIInv DEF BeginImport
  <2>2. importing'.archive = a /\ importing'.todo = PathsOf(a) /\ importing' # NoImport
    BY <1>3, ArchiveConstants DEF BeginImport, NoImport
  <2> QED
    BY <2>1, <2>2 DEF ImportKnown
<1>4. ASSUME NEW p \in Paths, RestoreNext(p) PROVE AInv'
  <2>1. importing # NoImport /\ p \in importing.todo
    BY <1>4 DEF RestoreNext, NoImport
  <2>2. req' = [req EXCEPT ![Importer] = [step |-> "opening", path |-> p, target |-> NoTarget]]
    BY <1>4 DEF RestoreNext
  <2>3. IInv'
    BY <1>4, <2>2, ArchiveConstants
    DEF RestoreNext, IInv, TypeOK, PathsInFlight, LinksHang, OpenFilesHaveAWriter, At, Steps
  <2>4. importing' # NoImport /\ importing'.archive = importing.archive
        /\ importing'.todo \subseteq importing.todo
    BY <1>4, <2>1, ArchiveConstants DEF RestoreNext, NoImport, ImportKnown
  <2> QED
    BY <2>1, <2>3, <2>4 DEF ImportKnown
<1>5. CASE RestoreWrite
  <2>1. IInv'
    BY <1>5, EvidenceSteps, NextIInv
  <2> QED
    BY <1>5, <2>1 DEF RestoreWrite, OpenFile, CloseFile, ImportKnown, At
<1>6. CASE RestoreDone \/ Load
  <2>1. importing # NoImport /\ importing.archive \in Archives
    BY <1>6 DEF RestoreDone, Load, NoImport, ImportKnown
  <2>2. req' = [req EXCEPT ![Importer] = Idle] /\ files' = files /\ At(Importer, "stored")
    BY <1>6 DEF RestoreDone, Load, Finish, FilesRestored
  <2>3. UNCHANGED <<docs, links, targets>> \/ LoadGraph(importing.archive)
    BY <1>6 DEF RestoreDone, Load
  <2>4. TypeOK' /\ LinksHang'
    BY <2>1, <2>2, <2>3, ArchiveConstants
    DEF LoadGraph, IInv, TypeOK, LinksHang, Idle, Steps
  <2>5. PathsInFlight' /\ OpenFilesHaveAWriter'
    BY <2>2, ArchiveConstants
    DEF IInv, TypeOK, PathsInFlight, OpenFilesHaveAWriter, Idle, At
  <2>6. ImportKnown'
    BY <1>6, <2>1, <2>2, ArchiveConstants
    DEF RestoreDone, Load, ImportKnown, Idle, At, IInv, TypeOK
  <2> QED
    BY <2>4, <2>5, <2>6 DEF IInv
<1>7. CASE Kill
  <2>1. IInv'
    BY <1>7, EvidenceSteps, NextIInv
  <2>2. importing' = NoImport /\ At(Importer, "idle")'
    BY <1>7, ArchiveConstants DEF Kill, Crash, Quiet, vars, Idle, At
  <2> QED
    BY <2>1, <2>2 DEF ImportKnown
<1>8. CASE UNCHANGED archiveVars
  BY <1>8, NextIInv DEF archiveVars, vars, ImportKnown, At
<1> QED
  BY <1>1, <1>2, <1>3, <1>4, <1>5, <1>6, <1>7, <1>8 DEF ArchiveNext, ArchiveStep

(* A copy takes no step of its own that Archive could see.                  *)
LEMMA CopiesSteps ==
  ASSUME [CopiesNext]_copyVars PROVE [ArchiveNext]_archiveVars
  BY Zenon DEF CopiesNext, copyVars, ArchiveNext, KillBeside, BeginCopy, Look, Read, FinishCopy

LEMMA AlwaysAInv == CopiesSpec => []AInv
<1>1. CopiesInit => AInv
  BY InitAInv DEF CopiesInit
<1>2. AInv /\ [CopiesNext]_copyVars => AInv'
  BY CopiesSteps, NextAInv
<1> QED
  BY <1>1, <1>2, PTL DEF CopiesSpec

(* Rows, links, files and handlers fit together beside imports of any       *)
(* archives too, which replace every table between two steps of an upload.  *)
THEOREM ImportsLeaveItHanging == CopiesSpec => []EvidenceHangsTogether
<1>1. AInv => EvidenceHangsTogether
  BY DEF AInv, IInv, EvidenceHangsTogether
<1> QED
  BY <1>1, AlwaysAInv, PTL

-----------------------------------------------------------------------------
(* Files beside imports, deletes and kills *)

(* The bytes are there, or in the hands of whoever writes them, or lost.    *)
Has(p) == files[p] \in Intact \/ p \in lost

(* A row has its file, and so has a put under way or done, and an import    *)
(* the files it has begun, but for the one it is about to open.             *)
RowsHave == \A p \in DocsInUse : Has(p)
PutsHave == \A r \in Requests : req[r].step \in {"writing", "stored"} => Has(req[r].path)
ImportHas == \A p \in Restored : Has(p) \/ (At(Importer, "opening") /\ req[Importer].path = p)

Kept == RowsHave /\ PutsHave /\ ImportHas

LEMMA InitKept == ArchiveInit => Kept
  BY DEF ArchiveInit, Init, Kept, RowsHave, PutsHave, ImportHas, Restored, DocsInUse,
         Row, Idle, At

(* The steps after which whoever had a file has it still.                   *)
FilesStay == \A p \in Paths : Has(p) => Has(p)'

LEMMA NothingLost ==
  ASSUME UNCHANGED files, lost \subseteq lost' PROVE FilesStay
  BY DEF FilesStay, Has

LEMMA PutsStay ==
  ASSUME IInv, PutsHave, NEW r \in Requests, OpenFile(r) \/ CloseFile(r),
         lost' = StillLost
  PROVE  /\ FilesStay /\ Has(req[r].path)'
         /\ req'[r].step \in {"writing", "stored"} /\ req'[r].path = req[r].path
         /\ \A q \in Requests \ {r} : req'[q] = req[q]
         /\ docs' = docs
<1> USE EvidenceConstants DEF IInv, TypeOK, PathsInFlight, Intact, At, Advance
<1>1. req[r].path \in Paths
  BY DEF OpenFile, CloseFile
<1>2. CASE OpenFile(r)
  <2>1. files' = [files EXCEPT ![req[r].path] = r] /\ r # "whole"
    BY <1>2 DEF OpenFile
  <2>2. \A p \in Paths : files'[p] = files[p] \/ files'[p] \in Requests
    BY <1>1, <2>1
  <2>3. FilesStay
    BY <2>2 DEF FilesStay, Has, StillLost
  <2>4. Has(req[r].path)'
    BY <1>1, <1>2, <2>1 DEF OpenFile, Has
  <2> QED
    BY <1>2, <2>3, <2>4 DEF OpenFile
<1>3. CASE CloseFile(r)
  <2>1. \A p \in Paths : files'[p] = files[p] \/ files'[p] = "whole"
    BY <1>1, <1>3 DEF CloseFile
  <2>2. FilesStay
    BY <2>1 DEF FilesStay, Has, StillLost
  <2>3. Has(req[r].path)'
    BY <1>1, <1>3, <2>2 DEF CloseFile, PutsHave, FilesStay
  <2> QED
    BY <1>3, <2>2, <2>3 DEF CloseFile
<1> QED
  BY <1>2, <1>3

(* Other steps of users keep every file that somebody counts on.            *)
LEMMA AttachKeeps ==
  ASSUME AInv, Kept, UNCHANGED importing, NEW r \in Requests,
         \/ OpenFile(r) \/ CloseFile(r)
         \/ r # Importer /\ Attach(r),
         lost' = StillLost
  PROVE  Kept'
<1> USE EvidenceConstants, ArchiveConstants DEF AInv, IInv, TypeOK, PathsInFlight
<1>1. DocsInUse \subseteq Paths /\ Restored \subseteq Paths
  BY DEF DocsInUse, Row, Paths, Restored
<1>2. Restored' = Restored
  BY DEF Restored, PathsOf
<1>3. CASE OpenFile(r) \/ CloseFile(r)
  <2>1. /\ FilesStay /\ Has(req[r].path)'
        /\ req'[r].step \in {"writing", "stored"} /\ req'[r].path = req[r].path
        /\ \A q \in Requests \ {r} : req'[q] = req[q]
        /\ docs' = docs
    BY <1>3, PutsStay DEF Kept
  <2>2. RowsHave'
    BY <1>1, <2>1 DEF Kept, RowsHave, DocsInUse, Row, FilesStay
  <2>3. PutsHave'
    <3> SUFFICES ASSUME NEW q \in Requests, req'[q].step \in {"writing", "stored"}
                 PROVE  Has(req[q].path)' /\ req'[q].path = req[q].path
      BY DEF PutsHave, Has
    <3>1. CASE q = r
      BY <2>1, <3>1
    <3>2. CASE q # r
      <4>1. req'[q] = req[q] /\ req[q].path \in Paths /\ Has(req[q].path)
        BY <2>1, <3>2 DEF Kept, PutsHave, At
      <4> QED
        BY <2>1, <4>1 DEF FilesStay
    <3> QED
      BY <3>1, <3>2
  <2>4. ImportHas'
    <3> SUFFICES ASSUME NEW p \in Restored
                 PROVE  Has(p)' \/ (At(Importer, "opening")' /\ req'[Importer].path = p)
      BY <1>2 DEF ImportHas
    <3>1. CASE Has(p)
      BY <1>1, <2>1, <3>1 DEF FilesStay
    <3>2. CASE At(Importer, "opening") /\ req[Importer].path = p
      BY <2>1, <3>2 DEF At
    <3> QED
      BY <3>1, <3>2 DEF Kept, ImportHas
  <2> QED
    BY <2>2, <2>3, <2>4 DEF Kept
<1>4. ASSUME r # Importer,
             \/ \E c \in Contents, e \in Extensions, t \in Targets : BeginAttach(r, c, e, t)
             \/ CommitAttach(r)
      PROVE  Kept'
  <2>1. /\ UNCHANGED files
        /\ req'[r].step \in {"opening", "idle"}
        /\ \A q \in Requests \ {r} : req'[q] = req[q]
    <3>1. ASSUME NEW c \in Contents, NEW e \in Extensions, NEW t \in Targets,
                 BeginAttach(r, c, e, t)
          PROVE  /\ UNCHANGED files /\ req'[r].step = "opening"
                 /\ \A q \in Requests \ {r} : req'[q] = req[q]
      BY <3>1 DEF BeginAttach
    <3>2. CASE CommitAttach(r)
      BY <3>2 DEF CommitAttach, Finish, Idle
    <3> QED
      BY <1>4, <3>1, <3>2
  <2>2. FilesStay
    BY <2>1 DEF FilesStay, Has, StillLost, Intact
  <2>3. \A p \in DocsInUse' : p \in DocsInUse \/ (p = req[r].path /\ At(r, "stored"))
    <3>1. CASE docs' = docs
      BY <3>1 DEF DocsInUse, Row
    <3>2. CASE CommitAttach(r)
      <4>1. At(r, "stored") /\ docs' = RowKept(req[r].path[1], req[r].path[2])
        BY <3>2 DEF CommitAttach, PutDone
      <4>2. req[r].path \in Paths
        BY <4>1 DEF At
      <4>3. req[r].path = <<req[r].path[1], req[r].path[2]>>
        BY <4>2 DEF Paths
      <4> QED
        BY <4>1, <4>3 DEF RowKept, DocsInUse, Row
    <3> QED
      BY <1>4, <3>1, <3>2 DEF BeginAttach
  <2>4. RowsHave'
    BY <1>1, <2>2, <2>3 DEF Kept, RowsHave, PutsHave, FilesStay, At
  <2>5. PutsHave'
    BY <2>1, <2>2 DEF Kept, PutsHave, FilesStay, Has, At
  <2>6. ImportHas'
    BY <1>1, <1>2, <1>4, <2>1, <2>2 DEF Kept, ImportHas, FilesStay, At
  <2> QED
    BY <2>4, <2>5, <2>6 DEF Kept
<1> QED
  BY <1>3, <1>4 DEF Attach

LEMMA UsersKeep ==
  ASSUME AInv, Kept, UNCHANGED importing, Users
  PROVE  Kept'
<1> USE EvidenceConstants, ArchiveConstants DEF AInv, IInv, TypeOK, PathsInFlight
<1> PICK r \in Requests \ {Importer} :
      \/ Attach(r) /\ lost' = StillLost
      \/ \E c \in Contents : DeleteRow(r, c) /\ UNCHANGED lost
      \/ RemoveUnasked(r)
      \/ Download(r) /\ UNCHANGED lost
  BY DEF Users
<1>1. DocsInUse \subseteq Paths /\ Restored \subseteq Paths
  BY DEF DocsInUse, Row, Paths, Restored
<1>2. Restored' = Restored
  BY DEF Restored, PathsOf
<1>3. CASE Attach(r) /\ lost' = StillLost
  BY <1>3, AttachKeeps
<1>4. ASSUME NEW c \in Contents, DeleteRow(r, c) /\ UNCHANGED lost PROVE Kept'
  <2>1. /\ FilesStay
        /\ req'[r].step = "removing"
        /\ \A q \in Requests \ {r} : req'[q] = req[q]
    BY <1>4 DEF DeleteRow, FilesStay, Has
  <2>2. DocsInUse' \subseteq DocsInUse
    BY <1>4 DEF DeleteRow, Restrict, DocsInUse, Row
  <2>3. RowsHave'
    BY <1>1, <2>1, <2>2 DEF Kept, RowsHave, FilesStay
  <2>4. PutsHave'
    BY <2>1 DEF Kept, PutsHave, FilesStay, Has, At
  <2>5. ImportHas'
    BY <1>1, <1>2, <2>1 DEF Kept, ImportHas, FilesStay, At
  <2> QED
    BY <2>3, <2>4, <2>5 DEF Kept
<1>5. CASE RemoveUnasked(r)
  <2>1. /\ docs' = docs /\ req'[r].step = "idle"
        /\ \A q \in Requests \ {r} : req'[q] = req[q]
        /\ At(r, "removing")
    BY <1>5 DEF RemoveUnasked, RemoveFile, Finish, Idle
  <2>2. ASSUME NEW p \in CountedOn \cap Paths, Has(p) PROVE Has(p)'
    <3>1. req[r].path \in Paths
      BY <2>1 DEF At
    <3>2. files' = [files EXCEPT ![req[r].path] = "absent"]
          /\ lost' = lost \cup ({req[r].path} \cap CountedOn)
      BY <1>5 DEF RemoveUnasked, RemoveFile
    <3>3. CASE p = req[r].path
      BY <2>2, <3>2, <3>3 DEF Has
    <3>4. CASE p # req[r].path
      BY <2>2, <3>1, <3>2, <3>4 DEF Has
    <3> QED
      BY <3>3, <3>4
  <2>3. DocsInUse \subseteq CountedOn /\ Restored \subseteq CountedOn
        /\ \A q \in Requests : req[q].step \in {"writing", "stored"} => req[q].path \in CountedOn
    BY DEF CountedOn
  <2>4. RowsHave'
    BY <1>1, <2>1, <2>2, <2>3 DEF Kept, RowsHave, DocsInUse, Row
  <2>5. PutsHave'
    <3> SUFFICES ASSUME NEW q \in Requests, req'[q].step \in {"writing", "stored"}
                 PROVE  Has(req[q].path)' /\ req'[q].path = req[q].path
      BY DEF PutsHave, Has
    <3>1. req'[q] = req[q] /\ req[q].path \in Paths /\ Has(req[q].path)
      BY <2>1 DEF Kept, PutsHave, At
    <3> QED
      BY <2>2, <2>3, <3>1
  <2>6. ImportHas'
    <3> SUFFICES ASSUME NEW p \in Restored
                 PROVE  Has(p)' \/ (At(Importer, "opening")' /\ req'[Importer].path = p)
      BY <1>2 DEF ImportHas
    <3>1. CASE Has(p)
      BY <1>1, <2>2, <2>3, <3>1
    <3>2. CASE At(Importer, "opening") /\ req[Importer].path = p
      BY <2>1, <3>2 DEF At
    <3> QED
      BY <3>1, <3>2 DEF Kept, ImportHas
  <2> QED
    BY <2>4, <2>5, <2>6 DEF Kept
<1>6. CASE Download(r) /\ UNCHANGED lost
  <2>1. /\ req'[r].step \in {"serving", "idle"}
        /\ \A q \in Requests \ {r} : req'[q] = req[q]
        /\ UNCHANGED <<docs, files>>
    <3>1. ASSUME NEW c \in Contents, StatFile(r, c)
          PROVE  /\ req'[r].step = "serving" /\ UNCHANGED <<docs, files>>
                 /\ \A q \in Requests \ {r} : req'[q] = req[q]
      BY <3>1 DEF StatFile
    <3>2. ASSUME ServeFile(r)
          PROVE  /\ req'[r].step = "idle" /\ UNCHANGED <<docs, files>>
                 /\ \A q \in Requests \ {r} : req'[q] = req[q]
      BY <3>2 DEF ServeFile, Finish, Idle
    <3> QED
      BY <1>6, <3>1, <3>2 DEF Download
  <2>2. FilesStay
    BY <1>6, <2>1 DEF FilesStay, Has
  <2>3. RowsHave'
    BY <1>1, <2>1, <2>2 DEF Kept, RowsHave, FilesStay, DocsInUse, Row
  <2>4. PutsHave'
    BY <2>1, <2>2 DEF Kept, PutsHave, FilesStay, Has, At
  <2>5. ImportHas'
    BY <1>1, <1>2, <2>1, <2>2 DEF Kept, ImportHas, FilesStay, At
  <2> QED
    BY <2>3, <2>4, <2>5 DEF Kept
<1> QED
  BY <1>3, <1>4, <1>5, <1>6

(* The rows of an archive have their files when it is loaded: those that    *)
(* came with bytes have them from the import, the others had them or are    *)
(* lost.                                                                    *)
LEMMA LoadKeeps ==
  ASSUME IInv, NEW a \in Archives, LoadGraph(a), UNCHANGED files,
         \A p \in PathsOf(a) : Has(p)
  PROVE  RowsHave' /\ FilesStay
<1>1. lost \subseteq lost' /\ FilesStay
  BY NothingLost DEF LoadGraph
<1>2. ASSUME NEW c \in DOMAIN a.docs PROVE Has(<<c, a.docs[c]>>)'
  <2>1. CASE c \in a.bytes
    BY <1>1, <1>2, <2>1, ArchivePaths DEF PathsOf, FilesStay
  <2>2. CASE c \notin a.bytes
    <3> DEFINE p == <<c, a.docs[c]>>
    <3>1. CASE files[p] # "whole" /\ ~BeingWritten(p)
      BY <1>2, <2>2, <3>1 DEF LoadGraph, Has
    <3>2. CASE files[p] = "whole" \/ BeingWritten(p)
      BY <3>2 DEF Has, Intact, BeingWritten
    <3> QED
      BY <3>1, <3>2
  <2> QED
    BY <2>1, <2>2
<1>3. RowsHave'
  BY <1>2 DEF RowsHave, DocsInUse, Row, LoadGraph
<1> QED
  BY <1>1, <1>3

LEMMA NextKept == AInv /\ Kept /\ [ArchiveNext]_archiveVars => Kept'
<1> SUFFICES ASSUME AInv, Kept, [ArchiveNext]_archiveVars PROVE Kept'
  OBVIOUS
<1> USE EvidenceConstants, ArchiveConstants DEF AInv, IInv, TypeOK, PathsInFlight
<1>a. DocsInUse \subseteq Paths /\ Restored \subseteq Paths
  BY DEF DocsInUse, Row, Paths, Restored
<1>1. CASE Users /\ UNCHANGED importing
  BY <1>1, UsersKeep
<1>2. CASE (Rows /\ UNCHANGED <<importing, lost>>) \/ UNCHANGED archiveVars
  <2>1. UNCHANGED <<docs, files, req, importing, lost>>
    BY <1>2 DEF Rows, Link, Detach, RecordTarget, DeleteTarget, archiveVars, vars
  <2> QED
    BY <2>1
    DEF Kept, RowsHave, PutsHave, ImportHas, Restored, PathsOf, DocsInUse, Row, Has, At
<1>3. ASSUME NEW a \in Archives, NEW replace \in BOOLEAN, ImportRows(a, replace) PROVE Kept'
  <2>1. PathsOf(a) = {} /\ LoadGraph(a) /\ UNCHANGED <<files, req, importing>>
        /\ importing = NoImport
    BY <1>3 DEF ImportRows
  <2>2. RowsHave' /\ FilesStay
    BY <2>1, LoadKeeps
  <2>3. PutsHave' /\ ImportHas'
    BY <2>1, <2>2 DEF Kept, PutsHave, FilesStay, Has, ImportHas, Restored, At
  <2> QED
    BY <2>2, <2>3 DEF Kept
<1>4. ASSUME NEW a \in Archives, NEW replace \in BOOLEAN, BeginImport(a, replace) PROVE Kept'
  <2>1. UNCHANGED <<docs, files, req, lost>> /\ importing'.todo = PathsOf(importing'.archive)
    BY <1>4 DEF BeginImport, vars
  <2>2. Restored' = {}
    BY <2>1 DEF Restored, PathsOf
  <2> QED
    BY <2>1, <2>2 DEF Kept, RowsHave, PutsHave, ImportHas, DocsInUse, Row, Has
<1>5. ASSUME NEW p \in Paths, RestoreNext(p) PROVE Kept'
  <2>1. importing # NoImport /\ At(Importer, "idle")
    BY <1>5 DEF RestoreNext, NoImport
  <2>2. /\ req' = [req EXCEPT ![Importer] = [step |-> "opening", path |-> p, target |-> NoTarget]]
        /\ UNCHANGED <<docs, files, lost>>
        /\ importing' = [importing EXCEPT !.todo = @ \ {p}]
    BY <1>5 DEF RestoreNext
  <2>3. \A q \in Restored' : q \in Restored \/ q = p
    BY <2>1, <2>2 DEF Restored, PathsOf
  <2>4. RowsHave' /\ PutsHave'
    BY <2>2 DEF Kept, RowsHave, PutsHave, DocsInUse, Row, Has
  <2>5. ImportHas'
    BY <2>1, <2>2, <2>3 DEF Kept, ImportHas, Has, At
  <2> QED
    BY <2>4, <2>5 DEF Kept
<1>6. CASE RestoreWrite
  BY <1>6, AttachKeeps DEF RestoreWrite
<1>7. CASE RestoreDone
  <2>1. /\ req' = [req EXCEPT ![Importer] = Idle] /\ At(Importer, "stored")
        /\ UNCHANGED <<docs, files, importing, lost>>
    BY <1>7 DEF RestoreDone, Finish
  <2> QED
    BY <2>1
    DEF Kept, RowsHave, PutsHave, ImportHas, Restored, PathsOf, DocsInUse, Row, Has, Idle, At
<1>8. CASE Load
  <2>1. /\ importing # NoImport /\ importing.todo = {} /\ At(Importer, "stored")
        /\ LoadGraph(importing.archive) /\ importing' = NoImport
        /\ req' = [req EXCEPT ![Importer] = Idle] /\ UNCHANGED files
    BY <1>8 DEF Load, FilesRestored, Finish
  <2>2. importing.archive \in Archives
    BY <2>1 DEF ImportKnown
  <2>3. \A p \in PathsOf(importing.archive) : Has(p)
    BY <2>1, <2>2, ArchivePaths DEF Kept, ImportHas, Restored, At
  <2>4. RowsHave' /\ FilesStay
    BY <2>1, <2>2, <2>3, LoadKeeps
  <2>5. PutsHave' /\ ImportHas'
    BY <2>1, <2>4 DEF Kept, PutsHave, FilesStay, Has, ImportHas, Restored, Idle, At
  <2> QED
    BY <2>4, <2>5 DEF Kept
<1>9. CASE Kill
  <2>1. importing' = NoImport /\ docs' = docs /\ \A r \in Requests : At(r, "idle")'
    BY <1>9 DEF Kill, Crash, Quiet, vars, Idle, At
  <2>2. ASSUME NEW p \in DocsInUse PROVE Has(p)'
    <3>1. Has(p) /\ p \in Paths
      BY <1>a DEF Kept, RowsHave
    <3>2. lost' = lost \cup {q \in DocsInUse : files[q] \in Requests}
      BY <1>9 DEF Kill
    <3>3. files'[p] = files[p] \/ files[p] \in Requests
      BY <1>9, <3>1 DEF Kill, Crash, vars
    <3> QED
      BY <3>1, <3>2, <3>3 DEF Has
  <2>3. RowsHave'
    BY <2>1, <2>2 DEF RowsHave, DocsInUse, Row
  <2>4. PutsHave' /\ ImportHas'
    BY <2>1 DEF PutsHave, ImportHas, Restored, At
  <2> QED
    BY <2>3, <2>4 DEF Kept
<1> QED
  BY <1>1, <1>2, <1>3, <1>4, <1>5, <1>6, <1>7, <1>8, <1>9 DEF ArchiveNext, ArchiveStep

LEMMA AlwaysKept == CopiesSpec => []Kept
<1>1. CopiesInit => Kept
  BY InitKept DEF CopiesInit
<1>2. AInv /\ Kept /\ [CopiesNext]_copyVars => Kept'
  BY CopiesSteps, NextKept
<1> QED
  BY <1>1, <1>2, AlwaysAInv, PTL DEF CopiesSpec

LEMMA RowsAreWhole ==
  ASSUME AInv, RowsHave PROVE RowsHaveTheirFiles
<1> SUFFICES ASSUME NEW p \in DocsInUse \ lost
             PROVE  files[p] = "whole" \/ BeingWritten(p)
  BY DEF RowsHaveTheirFiles
<1>1. p \in Paths /\ files[p] \in Intact
  BY DEF RowsHave, Has, DocsInUse, Row, Paths, AInv, IInv, TypeOK
<1> QED
  BY <1>1 DEF Intact, BeingWritten, AInv, IInv, OpenFilesHaveAWriter

(* However many uploads, deletes, imports of any archives and copies        *)
(* interleave, and wherever they are killed, a row's file is complete or in *)
(* the hands of its writer, unless it was lost in one of the three ways     *)
(* RowsHaveTheirFiles names: the order of puts and rows (AttachDocument),   *)
(* of restores and the load (importLedger), of a row and its file           *)
(* (DeleteDocument) loses none.                                             *)
THEOREM LoadedRowsHaveFiles == CopiesSpec => []RowsHaveTheirFiles
<1>1. AInv /\ Kept => RowsHaveTheirFiles
  BY RowsAreWhole DEF Kept
<1> QED
  BY <1>1, AlwaysAInv, AlwaysKept, PTL

(* What a copy holds, whatever it takes.                                    *)
GraphsOnFile ==
  [docs : UNION {[D -> Extensions] : D \in SUBSET Contents},
   links : SUBSET (Contents \X Targets), targets : SUBSET Targets]

CopySound ==
  /\ copy \in [step : {"none", "looking", "reading", "failed"}, graph : GraphsOnFile,
               todo : SUBSET Paths, path : Paths \cup {<<>>}]
  /\ CopiesLoad

LEMMA GraphOfTables ==
  ASSUME TypeOK PROVE Graph(docs, links, targets) \in GraphsOnFile /\ DocsInUse \subseteq Paths
<1>1. docs \in UNION {[D -> Extensions] : D \in SUBSET Contents}
  BY DEF TypeOK
<1>2. DocsInUse \subseteq Paths
  BY DEF TypeOK, DocsInUse, Row, Paths
<1> QED
  BY <1>1, <1>2 DEF TypeOK, Graph, GraphsOnFile

LEMMA NoCopySound ==
  ASSUME NEW c \in {NoCopy, FailedCopy}
  PROVE  /\ c \in [step : {"none", "looking", "reading", "failed"}, graph : GraphsOnFile,
                   todo : SUBSET Paths, path : Paths \cup {<<>>}]
         /\ c.graph.links = {}
<1> DEFINE none == [d \in {} |-> d]
<1>1. none \in UNION {[D -> Extensions] : D \in SUBSET Contents}
  <2>1. none \in [{} -> Extensions]
    OBVIOUS
  <2> QED
    BY <2>1
<1> HIDE DEF none
<1>2. [docs |-> none, links |-> {}, targets |-> {}] \in GraphsOnFile
  BY <1>1 DEF GraphsOnFile
<1>3. \E step \in {"none", "failed"} :
        c = [step |-> step, graph |-> [docs |-> none, links |-> {}, targets |-> {}],
             todo |-> {}, path |-> <<>>]
  BY DEF NoCopy, FailedCopy, Graph, none
<1> QED
  BY <1>2, <1>3

LEMMA StepCopySound ==
  ASSUME AInv, CopySound, [CopiesNext]_copyVars PROVE CopySound'
<1>1. CASE BeginCopy
  <2>1. Graph(docs, links, targets) \in GraphsOnFile /\ DocsInUse \subseteq Paths
    BY GraphOfTables DEF AInv, IInv
  <2>2. copy' \in [step : {"none", "looking", "reading", "failed"}, graph : GraphsOnFile,
                   todo : SUBSET Paths, path : Paths \cup {<<>>}]
    BY <1>1, <2>1 DEF BeginCopy
  <2>3. CopiesLoad'
    BY <1>1 DEF BeginCopy, CopiesLoad, Graph, AInv, IInv, LinksHang
  <2> QED
    BY <2>2, <2>3 DEF CopySound
<1>2. CASE copy' \in {NoCopy, FailedCopy}
  BY <1>2, NoCopySound DEF CopySound, CopiesLoad
<1>3. CASE copy' = copy
  BY <1>3 DEF CopySound, CopiesLoad
<1>4. ASSUME NEW p \in Paths, Look(p) PROVE CopySound'
  BY <1>4 DEF Look, CopySound, CopiesLoad
<1>5. ASSUME copy' = Copied PROVE CopySound'
  BY <1>5 DEF Copied, CopySound, CopiesLoad
<1>6. CASE Read
  BY <1>2, <1>5, <1>6 DEF Read
<1> QED
  BY <1>1, <1>2, <1>3, <1>4, <1>6 DEF CopiesNext, KillBeside, FinishCopy, copyVars

LEMMA AlwaysCopySound == CopiesSpec => []CopySound
<1>1. CopiesInit => CopySound
  BY NoCopySound DEF CopiesInit, CopySound, CopiesLoad
<1>2. AInv /\ CopySound /\ [CopiesNext]_copyVars => CopySound'
  BY StepCopySound
<1> QED
  BY <1>1, <1>2, AlwaysAInv, PTL DEF CopiesSpec

(* What a copy has taken loads again, whatever runs beside it.              *)
THEOREM CopiesAlwaysLoad == CopiesSpec => []CopiesLoad
<1>1. CopySound => CopiesLoad
  BY DEF CopySound
<1> QED
  BY <1>1, AlwaysCopySound, PTL

LEMMA CopiesPassOverTheDeleted ==
  ASSUME AInv, Kept, CopySound, [CopiesNext]_copyVars, NEW p \in DocsInUse \ lost
  PROVE  /\ copy.step = "looking" /\ p \in copy.todo \ copy'.todo => ~Copying'
         /\ copy'.step = "failed" => copy.step = "failed" \/ copy.path # p
<1>1. files[p] # "absent"
  <2>1. files[p] \in Intact /\ p \in Paths
    BY DEF DocsInUse, Row, Kept, RowsHave, Has, AInv, IInv, TypeOK, Paths
  <2> QED
    BY <2>1, EvidenceConstants DEF Intact
<1>2. CASE copy' = copy
  BY <1>2
<1>3. CASE copy' = NoCopy
  BY <1>3 DEF NoCopy, Copying
<1>4. CASE BeginCopy
  BY <1>4 DEF BeginCopy, Copying
<1>5. ASSUME NEW q \in Paths, Look(q)
      PROVE  /\ p \in copy.todo \ copy'.todo => FALSE
             /\ copy'.step # "failed"
  BY <1>1, <1>5 DEF Look, CopySound
<1>6. CASE Read
  BY <1>1, <1>6 DEF Read, Copied, FailedCopy, NoCopy, Copying, CopySound
<1> QED
  BY <1>2, <1>3, <1>4, <1>5, <1>6 DEF CopiesNext, KillBeside, FinishCopy, copyVars

(* An export or a backup of a running server loads, and passes over no file *)
(* of a document that is on file at that moment, nor fails over one, unless *)
(* that file is lost: in any interleaving, with kills anywhere.             *)
THEOREM CopiesLackOnlyTheDeleted == CopiesSpec => CopiesAreWhole
<1>1. AInv /\ Kept /\ CopySound /\ [CopiesNext]_copyVars =>
        [\A p \in DocsInUse \ lost :
           /\ copy.step = "looking" /\ p \in copy.todo \ copy'.todo => ~Copying'
           /\ copy'.step = "failed" => copy.step = "failed" \/ copy.path # p]_copyVars
  BY CopiesPassOverTheDeleted
<1> QED
  BY <1>1, AlwaysAInv, AlwaysKept, AlwaysCopySound, CopiesAlwaysLoad, PTL
     DEF CopiesSpec, CopiesAreWhole, OnlyTheDeletedIsMissing

-----------------------------------------------------------------------------
(* Numbers *)

(* Every set of numbers has a smallest one. *)
LEMMA Lowest ==
  ASSUME NEW T \in SUBSET Nat, T # {}
  PROVE  \E x \in T : \A y \in T : x <= y
<1> DEFINE R == OpToRel(<, Nat)
<1>1. IsWellFoundedOn(R, Nat)
  BY NatLessThanWellFounded
<1>2. \A x, y \in Nat : y < x => <<y, x>> \in R
  BY DEF OpToRel
<1> HIDE DEF R
<1>3. PICK x \in T : \A y \in T : <<y, x>> \notin R
  BY <1>1, WFMin
<1>4. \A y \in T : ~(y < x)
  BY <1>2, <1>3
<1> QED
  BY <1>3, <1>4

(* Induction, over the set of numbers of which a claim holds. *)
LEMMA Climbs ==
  ASSUME NEW n \in Nat, NEW T, 0 \in T, \A k \in 0..n : k < n /\ k \in T => k + 1 \in T
  PROVE  \A k \in 0..n : k \in T
<1> DEFINE B == {k \in 0..n : k \notin T}
<1>1. ASSUME B # {} PROVE FALSE
  <2>1. PICK k \in B : \A j \in B : k <= j
    <3>1. B \in SUBSET Nat
      OBVIOUS
    <3> HIDE DEF B
    <3> QED
      BY <1>1, <3>1, Lowest
  <2>2. k - 1 \in 0..n /\ k - 1 < n /\ (k - 1) + 1 = k /\ k - 1 < k
    BY <2>1
  <2>3. k - 1 \in T
    BY <2>1, <2>2
  <2> QED
    BY <2>1, <2>2, <2>3
<1> QED
  BY <1>1

LEMMA Descends ==
  ASSUME NEW n \in Nat, NEW T, n \in T, \A k \in 0..n : k < n /\ k + 1 \in T => k \in T
  PROVE  \A k \in 0..n : k \in T
<1> DEFINE U == {k \in 0..n : n - k \in T}
<1>1. 0 \in U
  OBVIOUS
<1>2. ASSUME NEW k \in 0..n, k < n, k \in U PROVE k + 1 \in U
  <2>1. n - (k + 1) \in 0..n /\ n - (k + 1) < n /\ (n - (k + 1)) + 1 = n - k /\ k + 1 \in 0..n
    BY <1>2
  <2> QED
    BY <1>2, <2>1
<1> HIDE DEF U
<1>3. \A k \in 0..n : k \in U
  BY <1>1, <1>2, Climbs
<1>4. \A k \in 0..n : n - k \in 0..n /\ n - (n - k) = k
  OBVIOUS
<1> QED
  BY <1>3, <1>4 DEF U

LEMMA MinOfTwo ==
  ASSUME NEW a \in Int, NEW b \in Int
  PROVE  Min({a, b}) = IF a <= b THEN a ELSE b
<1> DEFINE c == IF a <= b THEN a ELSE b
<1>1. c \in {a, b} /\ \A y \in {a, b} : c <= y
  OBVIOUS
<1>2. \A x \in {a, b} : (\A y \in {a, b} : x <= y) => x = c
  OBVIOUS
<1> QED
  BY <1>1, <1>2 DEF Min

LEMMA MinOfSome ==
  ASSUME NEW T \in SUBSET Nat, T # {} PROVE Min(T) \in T
BY Lowest DEF Min

LEMMA MaxOfOne ==
  ASSUME NEW a \in Int PROVE Max({a}) = a
BY DEF Max

-----------------------------------------------------------------------------
(* Packing *)

(* What FlattenSeq runs through: each part at the end of those before it.   *)
LEMMA Flattens ==
  ASSUME NEW S, NEW parts \in Seq(Seq(S)), parts # <<>>
  PROVE  \E f : /\ \A i \in 1..Len(parts) :
                     f[i] = IF i = 1 THEN parts[i] ELSE f[i - 1] \o parts[i]
                /\ FlattenSeq(parts) = f[Len(parts)]
<1> DEFINE n == Len(parts)
           Stage(g, i) == IF i = 1 THEN parts[i] ELSE g[i - 1] \o parts[i]
           Runs(g, m) == g = [i \in 1..m |-> Stage(g, i)]
           T == {m \in 0..n : \E g : Runs(g, m)}
<1>1. n \in Nat /\ n > 0
  OBVIOUS
<1>2. 0 \in T
  <2>1. Runs([i \in 1..0 |-> 0], 0)
    OBVIOUS
  <2> HIDE DEF Runs
  <2>2. \E g : Runs(g, 0)
    BY <2>1
  <2>3. 0 \in 0..n
    BY <1>1
  <2> QED
    BY <2>2, <2>3
<1>3. ASSUME NEW m \in 0..n, m < n, m \in T PROVE m + 1 \in T
  <2>1. PICK g : Runs(g, m)
    BY <1>3
  <2> DEFINE h == [i \in 1..(m + 1) |-> IF i = m + 1 THEN Stage(g, i) ELSE g[i]]
  <2>2. ASSUME NEW i \in 1..(m + 1) PROVE h[i] = Stage(h, i)
    <3>1. CASE i = m + 1
      <4>1. i # 1 => i - 1 \in 1..(m + 1) /\ i - 1 # m + 1
        BY <3>1
      <4> QED
        BY <3>1, <4>1
    <3>2. CASE i # m + 1
      <4>1. i \in 1..m /\ (i # 1 => i - 1 \in 1..(m + 1) /\ i - 1 # m + 1)
        BY <3>2
      <4>2. g[i] = Stage(g, i)
        BY <2>1, <4>1
      <4> QED
        BY <3>2, <4>1, <4>2
    <3> QED
      BY <3>1, <3>2
  <2>3. Runs(h, m + 1)
    BY <2>2
  <2>4. m + 1 \in 0..n
    BY <1>1, <1>3
  <2> QED
    BY <2>3, <2>4
<1>4. n \in T
  <2> HIDE DEF T, n
  <2>1. \A k \in 0..n : k \in T
    BY <1>1, <1>2, <1>3, Climbs
  <2> QED
    BY <1>1, <2>1
<1>5. \E g : Runs(g, n)
  BY <1>4 DEF T
<1> DEFINE f == CHOOSE g : Runs(g, n)
<1>6. Runs(f, n)
  BY <1>5
<1>7. FlattenSeq(parts) = f[n]
  BY <1>1 DEF FlattenSeq
<1> HIDE DEF f
<1>8. \A i \in 1..n : f[i] = Stage(f, i)
  BY <1>6
<1> QED
  BY <1>7, <1>8

IsBytes(b) ==
  /\ b = [size |-> b.size, blocks |-> b.blocks] /\ b.size \in Nat
  /\ b.blocks \in Seq(ToSet(b.blocks)) /\ Len(b.blocks) = Padded(b.size)
  /\ \A x \in ToSet(b.blocks) : x.head = {}
IsEntry(e) == e = [name |-> e.name, bytes |-> e.bytes] /\ IsBytes(e.bytes)

(* The header of an entry, and its blocks. *)
Part(e) == <<HeadBlock(Header(e))>> \o e.bytes.blocks

LEMMA PaddedIsNat ==
  ASSUME NEW n \in Nat PROVE Padded(n) \in Nat
BY DEF Padded, Block

(* One sequence after another. *)
IsJoin(u, s, t, S) ==
  /\ u \in Seq(S) /\ Len(u) = Len(s) + Len(t)
  /\ \A i \in 1..Len(s) : u[i] = s[i]
  /\ \A i \in 1..Len(t) : u[Len(s) + i] = t[i]

LEMMA Joined ==
  ASSUME NEW S, NEW s \in Seq(S), NEW t \in Seq(S)
  PROVE  IsJoin(s \o t, s, t, S)
<1> DEFINE b == s \o t
<1>1. /\ b \in Seq(S) /\ Len(b) = Len(s) + Len(t)
      /\ \A i \in 1..Len(s) + Len(t) : b[i] = IF i <= Len(s) THEN s[i] ELSE t[i - Len(s)]
  BY ConcatProperties, Zenon
<1>2. Len(s) \in Nat /\ Len(t) \in Nat
  OBVIOUS
<1> HIDE DEF b
<1>3. \A i \in 1..Len(s) : b[i] = s[i]
  BY <1>1, <1>2
<1>4. ASSUME NEW i \in 1..Len(t) PROVE b[Len(s) + i] = t[i]
  <2>1. Len(s) + i \in 1..Len(s) + Len(t) /\ ~(Len(s) + i <= Len(s)) /\ (Len(s) + i) - Len(s) = i
    BY <1>2
  <2> QED
    BY <1>1, <2>1
<1> QED
  BY <1>1, <1>3, <1>4 DEF b, IsJoin

LEMMA PartIs ==
  ASSUME NEW e, IsEntry(e), NEW S, HeadBlock(Header(e)) \in S, ToSet(e.bytes.blocks) \subseteq S
  PROVE  /\ Part(e) \in Seq(S) /\ Len(Part(e)) = 1 + Padded(e.bytes.size)
         /\ Part(e)[1] = HeadBlock(Header(e))
         /\ \A j \in 1..Padded(e.bytes.size) : Part(e)[1 + j] = e.bytes.blocks[j]
<1> DEFINE h == <<HeadBlock(Header(e))>>
           t == e.bytes.blocks
<1>1. h \in Seq(S) /\ Len(h) = 1 /\ h[1] = HeadBlock(Header(e))
  OBVIOUS
<1>2. t \in Seq(S) /\ Len(t) = Padded(e.bytes.size)
  BY DEF IsEntry, IsBytes, ToSet
<1>3. Part(e) = h \o t
  BY DEF Part
<1> HIDE DEF h, t
<1>4. IsJoin(h \o t, h, t, S)
  BY <1>1, <1>2, Joined
<1> QED
  BY <1>1, <1>2, <1>3, <1>4 DEF t, IsJoin

(* Where the header of each entry is, and past the last one.                *)
PadOf(E, k) == Padded(E[k].bytes.size)
IsLayout(E, at) ==
  /\ at[1] = 1
  /\ \A k \in 1..Len(E) + 1 : at[k] \in Nat /\ at[k] > 0
  /\ \A k \in 1..Len(E) : PadOf(E, k) \in Nat /\ at[k + 1] = at[k] + 1 + PadOf(E, k)
Lies(E, at, k, all) ==
  /\ all[at[k]] = HeadBlock(Header(E[k]))
  /\ \A j \in 1..PadOf(E, k) : all[at[k] + j] = E[k].bytes.blocks[j]
Within(E, at, i, k) == \E m \in 1..k : i = at[m] \/ \E j \in 1..PadOf(E, m) : i = at[m] + j

LEMMA Lays ==
  ASSUME NEW E, E \in Seq(ToSet(E)), E # <<>>, \A e \in ToSet(E) : IsEntry(e)
  PROVE  \E at, all, S :
           /\ PackTar(E) = [blocks |-> all, ragged |-> FALSE]
           /\ IsLayout(E, at)
           /\ all \in Seq(S) /\ Len(all) = at[Len(E) + 1] + 1
           /\ \A k \in 1..Len(E) : Lies(E, at, k, all)
           /\ all[at[Len(E) + 1]] = ZeroBlock /\ all[at[Len(E) + 1] + 1] = ZeroBlock
           /\ \A i \in 1..Len(all) :
                Within(E, at, i, Len(E)) \/ i \in {at[Len(E) + 1], at[Len(E) + 1] + 1}
<1> DEFINE n == Len(E)
           S == {HeadBlock(Header(e)) : e \in ToSet(E)}
                \cup (UNION {ToSet(e.bytes.blocks) : e \in ToSet(E)}) \cup {ZeroBlock}
           parts == [i \in 1..n |-> Part(E[i])]
<1>1. n \in Nat /\ n > 0 /\ \A i \in 1..n : E[i] \in ToSet(E) /\ IsEntry(E[i])
  BY DEF ToSet
<1>2. ASSUME NEW i \in 1..n
      PROVE  /\ Part(E[i]) \in Seq(S) /\ Len(Part(E[i])) = 1 + PadOf(E, i)
             /\ Part(E[i])[1] = HeadBlock(Header(E[i])) /\ PadOf(E, i) \in Nat
             /\ \A j \in 1..PadOf(E, i) : Part(E[i])[1 + j] = E[i].bytes.blocks[j]
  <2>1. HeadBlock(Header(E[i])) \in S /\ ToSet(E[i].bytes.blocks) \subseteq S
    BY <1>1
  <2>2. PadOf(E, i) \in Nat
    BY <1>1, PaddedIsNat DEF PadOf, IsEntry, IsBytes
  <2> HIDE DEF S
  <2> QED
    BY <1>1, <2>1, <2>2, PartIs DEF PadOf
<1>3. ZeroBlock \in S
  OBVIOUS
<1> HIDE DEF S
<1>4. parts \in Seq(Seq(S)) /\ Len(parts) = n /\ parts # <<>>
  <2>1. \A i \in 1..n : Part(E[i]) \in Seq(S)
    BY <1>2
  <2>2. parts \in Seq(Seq(S)) /\ Len(parts) = n
    BY <1>1, <2>1
  <2> HIDE DEF parts
  <2> QED
    BY <1>1, <2>2
<1>5. PICK f : /\ \A i \in 1..n : f[i] = IF i = 1 THEN Part(E[i]) ELSE f[i - 1] \o Part(E[i])
               /\ FlattenSeq(parts) = f[n]
  <2>1. \A i \in 1..n : parts[i] = Part(E[i])
    BY <1>1
  <2> HIDE DEF parts, n
  <2>2. PICK f : /\ \A i \in 1..Len(parts) :
                      f[i] = IF i = 1 THEN parts[i] ELSE f[i - 1] \o parts[i]
                 /\ FlattenSeq(parts) = f[Len(parts)]
    BY <1>4, Flattens
  <2>3. \A i \in 1..n : f[i] = IF i = 1 THEN Part(E[i]) ELSE f[i - 1] \o Part(E[i])
    BY <1>4, <2>1, <2>2
  <2> QED
    BY <1>4, <2>2, <2>3
<1> DEFINE before(k) == IF k = 0 THEN <<>> ELSE f[k]
           at == [k \in 1..n + 1 |-> 1 + Len(before(k - 1))]
           Fine(k) == /\ before(k) \in Seq(S)
                      /\ \A m \in 1..k : /\ at[m] \in 1..Len(before(k))
                                         /\ at[m + 1] = at[m] + 1 + PadOf(E, m)
                                         /\ at[m + 1] \in 1..Len(before(k)) + 1
                                         /\ Lies(E, at, m, before(k))
                      /\ \A i \in 1..Len(before(k)) : Within(E, at, i, k)
           T == {k \in 0..n : Fine(k)}
<1>6. \A k \in 0..n : at[k + 1] = 1 + Len(before(k))
  BY <1>1
<1>7. \A k \in 0..n : k < n => before(k + 1) = before(k) \o Part(E[k + 1])
  <2> TAKE k \in 0..n
  <2> HAVE k < n
  <2>1. k + 1 \in 1..n /\ (k + 1) - 1 = k
    BY <1>1
  <2>2. CASE k = 0
    <3>1. before(k + 1) = Part(E[1]) /\ before(k) = <<>> /\ Part(E[1]) \in Seq(S)
      BY <1>2, <1>5, <2>1, <2>2
    <3> QED
      BY <2>2, <3>1
  <2>3. CASE k # 0
    <3>1. before(k + 1) = f[k + 1] /\ before(k) = f[k] /\ k + 1 # 1
      BY <2>1, <2>3
    <3> QED
      BY <1>5, <2>1, <3>1
  <2> QED
    BY <2>2, <2>3
<1>8. before(0) = <<>>
  OBVIOUS
<1> HIDE DEF before, at
<1>9. 0 \in T
  <2>1. <<>> \in Seq(S) /\ Len(<<>>) = 0
    OBVIOUS
  <2>2. before(0) \in Seq(S) /\ Len(before(0)) = 0
    BY <1>8, <2>1
  <2>3. 1..0 = {}
    OBVIOUS
  <2> QED
    BY <1>1, <2>2, <2>3
<1>10. ASSUME NEW k \in 0..n, k < n, k \in T PROVE k + 1 \in T
  <2> DEFINE s == before(k)
             t == Part(E[k + 1])
             u == before(k + 1)
  <2>1. k + 1 \in 1..n /\ Fine(k) /\ k \in Nat
    BY <1>1, <1>10
  <2>2. s \in Seq(S) /\ t \in Seq(S) /\ Len(t) = 1 + PadOf(E, k + 1) /\ u = s \o t
        /\ PadOf(E, k + 1) \in Nat
    BY <1>2, <1>7, <1>10, <2>1
  <2>a. t[1] = HeadBlock(Header(E[k + 1]))
        /\ \A j \in 1..PadOf(E, k + 1) : t[1 + j] = E[k + 1].bytes.blocks[j]
    BY <1>2, <2>1
  <2>b. at[k + 1] = 1 + Len(s) /\ at[(k + 1) + 1] = 1 + Len(u)
    BY <1>6, <2>1
  <2> HIDE DEF s, t, u
  <2>c. IsJoin(s \o t, s, t, S)
    BY <2>2, Joined
  <2>3. /\ u \in Seq(S) /\ Len(u) = Len(s) + Len(t)
        /\ \A i \in 1..Len(s) : u[i] = s[i]
        /\ \A i \in 1..Len(t) : u[Len(s) + i] = t[i]
    BY <2>2, <2>c DEF IsJoin
  <2>4. Len(s) \in Nat /\ Len(u) = Len(s) + 1 + PadOf(E, k + 1)
    BY <2>2, <2>3
  <2>5. ASSUME NEW m \in 1..k
        PROVE  /\ at[m] \in 1..Len(u) /\ at[m + 1] = at[m] + 1 + PadOf(E, m)
               /\ at[m + 1] \in 1..Len(u) + 1 /\ Lies(E, at, m, u)
    <3>1. /\ at[m] \in 1..Len(s) /\ at[m + 1] = at[m] + 1 + PadOf(E, m)
          /\ at[m + 1] \in 1..Len(s) + 1 /\ Lies(E, at, m, s)
      BY <2>1 DEF s
    <3>2. m \in 1..n /\ PadOf(E, m) \in Nat
      BY <1>1, <1>2, <2>1
    <3>3. \A j \in 1..PadOf(E, m) : at[m] + j \in 1..Len(s)
      BY <2>4, <3>1, <3>2, SMTT(30)
    <3>4. Lies(E, at, m, u)
      BY <2>3, <3>1, <3>3 DEF Lies
    <3> QED
      BY <2>2, <2>4, <3>1, <3>4
  <2>6. /\ at[k + 1] \in 1..Len(u)
        /\ at[(k + 1) + 1] = at[k + 1] + 1 + PadOf(E, k + 1)
        /\ at[(k + 1) + 1] \in 1..Len(u) + 1 /\ Lies(E, at, k + 1, u)
    <3>1. u[at[k + 1]] = t[1]
      <4>1. 1 \in 1..Len(t)
        BY <2>2
      <4> QED
        BY <2>3, <2>4, <2>b, <4>1
    <3>2. ASSUME NEW j \in 1..PadOf(E, k + 1) PROVE u[at[k + 1] + j] = t[1 + j]
      <4>1. 1 + j \in 1..Len(t) /\ at[k + 1] + j = Len(s) + (1 + j)
        BY <2>2, <2>4, <2>b
      <4> QED
        BY <2>3, <4>1
    <3>3. at[k + 1] = Len(s) + 1 /\ at[(k + 1) + 1] = at[k + 1] + 1 + PadOf(E, k + 1)
      BY <2>2, <2>4, <2>b
    <3>4. Lies(E, at, k + 1, u)
      BY <2>a, <3>1, <3>2 DEF Lies
    <3> QED
      BY <2>2, <2>4, <3>3, <3>4
  <2>7. ASSUME NEW i \in 1..Len(u) PROVE Within(E, at, i, k + 1)
    <3>1. CASE i \in 1..Len(s)
      <4>1. Within(E, at, i, k)
        BY <2>1, <3>1 DEF s
      <4> QED
        BY <2>1, <4>1 DEF Within
    <3>2. CASE i \notin 1..Len(s)
      <4>1. i = at[k + 1] \/ \E j \in 1..PadOf(E, k + 1) : i = at[k + 1] + j
        <5>1. CASE i = Len(s) + 1
          BY <2>b, <2>4, <5>1
        <5>2. CASE i # Len(s) + 1
          <6>1. i - (Len(s) + 1) \in 1..PadOf(E, k + 1)
            BY <2>2, <2>4, <3>2, <5>2
          <6>2. i = at[k + 1] + (i - (Len(s) + 1))
            BY <2>b, <2>4
          <6> QED
            BY <6>1, <6>2
        <5> QED
          BY <5>1, <5>2
      <4> QED
        BY <2>1, <4>1 DEF Within
    <3> QED
      BY <3>1, <3>2
  <2>8. Fine(k + 1)
    <3>1. \A m \in 1..(k + 1) : m \in 1..k \/ m = k + 1
      BY <2>1
    <3> QED
      BY <2>3, <2>5, <2>6, <2>7, <3>1 DEF u
  <2> QED
    BY <2>1, <2>8
<1>11. Fine(n)
  <2> HIDE DEF T, n
  <2>1. \A k \in 0..n : k \in T
    BY <1>1, <1>9, <1>10, Climbs
  <2>2. n \in T
    BY <1>1, <2>1
  <2> QED
    BY <2>2 DEF T
<1> DEFINE zeros == <<ZeroBlock, ZeroBlock>>
           all == before(n) \o zeros
<1>12. /\ zeros \in Seq(S) /\ Len(zeros) = 2 /\ zeros[1] = ZeroBlock /\ zeros[2] = ZeroBlock
  BY <1>3
<1>13. at[n + 1] = 1 + Len(before(n)) /\ before(n) = f[n] /\ before(n) \in Seq(S)
       /\ Len(before(n)) \in Nat
  BY <1>1, <1>6, <1>11 DEF before
<1>14. PackTar(E) = [blocks |-> all, ragged |-> FALSE]
  <2>1. DOMAIN E = 1..n
    OBVIOUS
  <2> QED
    BY <1>5, <1>13, <2>1 DEF PackTar, Part
<1> HIDE DEF zeros
<1>15. /\ all \in Seq(S) /\ Len(all) = Len(before(n)) + 2
       /\ \A i \in 1..Len(before(n)) : all[i] = before(n)[i]
       /\ all[Len(before(n)) + 1] = ZeroBlock /\ all[Len(before(n)) + 2] = ZeroBlock
  <2>1. IsJoin(all, before(n), zeros, S)
    BY <1>12, <1>13, Joined
  <2> HIDE DEF all
  <2> QED
    BY <1>12, <1>13, <2>1 DEF IsJoin
<1> HIDE DEF all
<1>16. \A k \in 1..n : Lies(E, at, k, all)
  <2> TAKE k \in 1..n
  <2>1. /\ Lies(E, at, k, before(n)) /\ at[k] \in 1..Len(before(n)) /\ PadOf(E, k) \in Nat
        /\ at[k + 1] = at[k] + 1 + PadOf(E, k) /\ at[k + 1] \in 1..Len(before(n)) + 1
    BY <1>2, <1>11
  <2>2. \A j \in 1..PadOf(E, k) : at[k] + j \in 1..Len(before(n))
    BY <1>13, <2>1
  <2> QED
    BY <1>15, <2>1, <2>2 DEF Lies
<1>17. IsLayout(E, at)
  <2>1. at[1] = 1
    <3>1. 0 \in 0..n /\ 0 + 1 = 1 /\ Len(before(0)) = 0
      BY <1>1, <1>8
    <3> QED
      BY <1>6, <3>1
  <2>2. ASSUME NEW k \in 1..n + 1 PROVE at[k] \in Nat /\ at[k] > 0
    <3>1. k \in 1..n \/ k = n + 1
      BY <1>1
    <3> QED
      BY <1>11, <1>13, <3>1
  <2> QED
    BY <1>2, <1>11, <2>1, <2>2 DEF IsLayout
<1>18. \A i \in 1..Len(all) : Within(E, at, i, n) \/ i \in {at[n + 1], at[n + 1] + 1}
  <2> TAKE i \in 1..Len(all)
  <2>1. i \in 1..Len(before(n)) \/ i = Len(before(n)) + 1 \/ i = Len(before(n)) + 2
    BY <1>13, <1>15
  <2> QED
    BY <1>11, <1>13, <2>1
<1>19. Len(all) = at[n + 1] + 1 /\ all[at[n + 1]] = ZeroBlock /\ all[at[n + 1] + 1] = ZeroBlock
  BY <1>13, <1>15
<1> QED
  BY <1>14, <1>15, <1>16, <1>17, <1>18, <1>19

-----------------------------------------------------------------------------
(* Reading *)

HeadOf(blocks, i) == CHOOSE x \in blocks[i].head : TRUE
NextOf(blocks, i) == Min({i + Padded(HeadOf(blocks, i).size), Len(blocks)}) + 1

(* What is read from block i on, by what is read past it. *)
ReadFrom(blocks, read, i) ==
  IF i > Len(blocks) \/ blocks[i] = ZeroBlock THEN Accepted(<<>>)
  ELSE IF blocks[i].head = {} THEN Refused
  ELSE IF ~HeadOf(blocks, i).adds \/ ~ClaimsWhatIsThere(blocks, i) THEN Refused
  ELSE IF HeadOf(blocks, i).type = "file"
       THEN After(EntryAt(blocks, i), read[NextOf(blocks, i)])
  ELSE IF HeadOf(blocks, i).type = "directory" THEN read[NextOf(blocks, i)]
  ELSE Refused
Reads(blocks, read) == read = [i \in 1..(Len(blocks) + 1) |-> ReadFrom(blocks, read, i)]

IsTar(blocks) ==
  /\ blocks \in Seq(ToSet(blocks))
  /\ \A i \in 1..Len(blocks) : blocks[i].head # {} => HeadOf(blocks, i).size \in Nat

(* The reader moves on, and not past the end. *)
LEMMA NextIsAhead ==
  ASSUME NEW blocks, IsTar(blocks), NEW i \in 1..Len(blocks), blocks[i].head # {}
  PROVE  NextOf(blocks, i) \in (i + 1)..(Len(blocks) + 1)
<1> DEFINE p == Padded(HeadOf(blocks, i).size)
           m == Len(blocks)
<1>1. p \in Nat /\ m \in Nat
  <2>1. HeadOf(blocks, i).size \in Nat /\ blocks \in Seq(ToSet(blocks))
    BY DEF IsTar
  <2>2. p \in Nat
    BY <2>1, PaddedIsNat
  <2> QED
    BY <2>1, <2>2
<1>2. NextOf(blocks, i) = Min({i + p, m}) + 1
  BY DEF NextOf
<1> HIDE DEF p
<1>3. Min({i + p, m}) = IF i + p <= m THEN i + p ELSE m
  BY <1>1, MinOfTwo
<1> QED
  BY <1>1, <1>2, <1>3

LEMMA ReadsAhead ==
  ASSUME NEW blocks, IsTar(blocks), NEW i \in 1..(Len(blocks) + 1), NEW f, NEW g,
         \A j \in (i + 1)..(Len(blocks) + 1) : f[j] = g[j]
  PROVE  ReadFrom(blocks, f, i) = ReadFrom(blocks, g, i)
<1>1. Len(blocks) \in Nat
  BY DEF IsTar
<1>2. CASE i > Len(blocks)
  BY <1>2 DEF ReadFrom
<1>3. CASE ~(i > Len(blocks)) /\ blocks[i].head = {}
  BY <1>3 DEF ReadFrom
<1>4. CASE ~(i > Len(blocks)) /\ blocks[i].head # {}
  <2>1. NextOf(blocks, i) \in (i + 1)..(Len(blocks) + 1)
    BY <1>1, <1>4, NextIsAhead
  <2>2. f[NextOf(blocks, i)] = g[NextOf(blocks, i)]
    BY <2>1
  <2> QED
    BY <2>2 DEF ReadFrom
<1> QED
  BY <1>2, <1>3, <1>4

LEMMA ReadsExist ==
  ASSUME NEW blocks, IsTar(blocks)
  PROVE  \E read : Reads(blocks, read)
<1> DEFINE n == Len(blocks)
           Runs(g, k) == g = [i \in (n + 1 - k)..(n + 1) |-> ReadFrom(blocks, g, i)]
           T == {k \in 0..n : \E g : Runs(g, k)}
<1>1. n \in Nat
  BY DEF IsTar
<1> HIDE DEF n
<1>2. 0 \in T
  <2> DEFINE g == [i \in (n + 1)..(n + 1) |-> Accepted(<<>>)]
  <2>1. \A i \in (n + 1)..(n + 1) : ReadFrom(blocks, g, i) = Accepted(<<>>)
    BY <1>1 DEF ReadFrom, n
  <2>2. n + 1 - 0 = n + 1
    BY <1>1
  <2>3. Runs(g, 0)
    BY <2>1, <2>2
  <2> QED
    BY <1>1, <2>3
<1>3. ASSUME NEW k \in 0..n, k < n, k \in T PROVE k + 1 \in T
  <2>1. PICK g : Runs(g, k)
    BY <1>3
  <2> DEFINE j == n + 1 - (k + 1)
             h == [i \in j..(n + 1) |-> IF i = j THEN ReadFrom(blocks, g, i) ELSE g[i]]
  <2>2. j \in 1..n /\ j + 1 = n + 1 - k
    BY <1>1, <1>3
  <2> HIDE DEF j
  <2>3. ASSUME NEW i \in j..(n + 1) PROVE h[i] = ReadFrom(blocks, h, i)
    <3>1. i \in 1..(n + 1)
      BY <1>1, <2>2
    <3>2. \A m \in (i + 1)..(n + 1) : h[m] = g[m]
      BY <1>1, <2>2
    <3>3. ReadFrom(blocks, h, i) = ReadFrom(blocks, g, i)
      <4> HIDE DEF h
      <4> QED
        BY <3>1, <3>2, ReadsAhead DEF n
    <3>4. CASE i = j
      BY <3>3, <3>4
    <3>5. CASE i # j
      <4>1. i \in (n + 1 - k)..(n + 1)
        BY <1>1, <2>2, <3>5
      <4>2. g[i] = ReadFrom(blocks, g, i)
        BY <2>1, <4>1
      <4> QED
        BY <3>3, <3>5, <4>2
    <3> QED
      BY <3>4, <3>5
  <2>4. h = [i \in j..(n + 1) |-> ReadFrom(blocks, h, i)]
    <3>1. h = [i \in j..(n + 1) |-> h[i]]
      OBVIOUS
    <3> HIDE DEF h
    <3> QED
      BY <2>3, <3>1
  <2> HIDE DEF h
  <2>5. Runs(h, k + 1)
    BY <2>4 DEF j
  <2> QED
    BY <1>1, <1>3, <2>5
<1>4. \E g : Runs(g, n)
  <2> HIDE DEF T
  <2>1. \A k \in 0..n : k \in T
    BY <1>1, <1>2, <1>3, Climbs
  <2>2. n \in T
    BY <1>1, <2>1
  <2> QED
    BY <2>2 DEF T
<1>5. n + 1 - n = 1
  BY <1>1
<1> QED
  BY <1>4, <1>5 DEF Reads, n

LEMMA Unpacks ==
  ASSUME NEW a, IsTar(a.blocks)
  PROVE  \E read : /\ Reads(a.blocks, read)
                   /\ UnpackTar(a) = IF a.ragged \/ Len(a.blocks) = 0 THEN Refused ELSE read[1]
<1> DEFINE r == CHOOSE read : Reads(a.blocks, read)
<1>1. Reads(a.blocks, r)
  BY ReadsExist
<1>2. UnpackTar(a) = IF a.ragged \/ Len(a.blocks) = 0 THEN Refused ELSE r[1]
  BY DEF UnpackTar, Reads, ReadFrom, HeadOf, NextOf
<1> HIDE DEF r
<1> QED
  BY <1>1, <1>2

-----------------------------------------------------------------------------
(* Names *)

IsText(n) == n \in Seq(ToSet(n))
IsSegment(s) == s = [text |-> s.text, bytes |-> s.bytes, blank |-> s.blank, odd |-> s.odd]
IsPath(p) == IsText(p) /\ p # <<>> /\ \A s \in ToSet(p) : IsSegment(s)

LEMMA TextIs ==
  ASSUME NEW n, IsText(n)
  PROVE  Len(n) \in Nat /\ DOMAIN n = 1..Len(n) /\ n = [i \in 1..Len(n) |-> n[i]]
         /\ \A i \in 1..Len(n) : n[i] \in ToSet(n)
BY DEF IsText, ToSet

LEMMA IsTextOf ==
  ASSUME NEW S, NEW n \in Seq(S) PROVE IsText(n)
<1>1. n = [i \in 1..Len(n) |-> n[i]] /\ Len(n) \in Nat
  OBVIOUS
<1>2. \A i \in 1..Len(n) : n[i] \in ToSet(n)
  BY DEF ToSet
<1> QED
  BY <1>1, <1>2 DEF IsText

LEMMA SameText ==
  ASSUME NEW s, NEW t, IsText(s), IsText(t), Len(s) = Len(t), \A i \in 1..Len(s) : s[i] = t[i]
  PROVE  s = t
<1>1. s = [i \in 1..Len(s) |-> s[i]] /\ t = [i \in 1..Len(t) |-> t[i]]
  BY TextIs
<1> QED
  BY <1>1

LEMMA ReadTextIs ==
  ASSUME NEW n, IsText(n)
  PROVE  /\ IsText(ReadText(n)) /\ Len(ReadText(n)) = Len(n)
         /\ \A i \in 1..Len(n) : i # Len(n) => ReadText(n)[i] = n[i]
<1>1. Len(n) \in Nat /\ DOMAIN n = 1..Len(n)
  BY TextIs
<1> DEFINE last(i) == IF i = Len(n) /\ n[i].blank
                      THEN [n[i] EXCEPT !.blank = FALSE, !.bytes = @ - 1] ELSE n[i]
           S == {last(i) : i \in 1..Len(n)}
           r == [i \in 1..Len(n) |-> last(i)]
<1>2. ReadText(n) = r
  BY <1>1 DEF ReadText
<1>3. \A i \in 1..Len(n) : last(i) \in S
  OBVIOUS
<1>4. \A i \in 1..Len(n) : i # Len(n) => last(i) = n[i]
  OBVIOUS
<1> HIDE DEF last, S
<1>5. r \in Seq(S) /\ Len(r) = Len(n)
  BY <1>1, <1>3
<1>6. \A i \in 1..Len(n) : i # Len(n) => r[i] = n[i]
  BY <1>4
<1> HIDE DEF r
<1>7. IsText(r)
  BY <1>5, IsTextOf
<1> QED
  BY <1>2, <1>5, <1>6, <1>7

LEMMA ReadTextEnd ==
  ASSUME NEW n, NEW m, IsText(n), IsText(m), Len(n) # 0, Len(m) # 0, n[Len(n)] = m[Len(m)]
  PROVE  ReadText(n)[Len(n)] = ReadText(m)[Len(m)]
<1>1. Len(n) \in DOMAIN n /\ Len(m) \in DOMAIN m
  BY TextIs
<1> QED
  BY <1>1 DEF ReadText

LEMMA ReadTextTwice ==
  ASSUME NEW p, IsPath(p) PROVE ReadText(ReadText(p)) = ReadText(p)
<1> DEFINE r == ReadText(p)
           n == Len(p)
<1>1. IsText(p) /\ IsText(r) /\ Len(r) = n /\ n \in Nat /\ DOMAIN p = 1..n /\ DOMAIN r = 1..n
      /\ IsText(ReadText(r)) /\ Len(ReadText(r)) = n
  BY ReadTextIs, TextIs DEF IsPath
<1>2. ASSUME NEW i \in 1..n PROVE ReadText(r)[i] = r[i]
  <2>1. IsSegment(p[i])
    BY <1>1, <1>2, TextIs DEF IsPath
  <2>2. r[i] = IF i = n /\ p[i].blank
               THEN [p[i] EXCEPT !.blank = FALSE, !.bytes = @ - 1] ELSE p[i]
    BY <1>1 DEF ReadText
  <2>3. ReadText(r)[i] = IF i = n /\ r[i].blank
               THEN [r[i] EXCEPT !.blank = FALSE, !.bytes = @ - 1] ELSE r[i]
    BY <1>1 DEF ReadText
  <2> HIDE DEF r
  <2>4. CASE i = n /\ p[i].blank
    <3>1. r[i].blank = FALSE
      BY <2>1, <2>2, <2>4 DEF IsSegment
    <3> QED
      BY <2>3, <3>1
  <2>5. CASE ~(i = n /\ p[i].blank)
    BY <2>2, <2>3, <2>5
  <2> QED
    BY <2>4, <2>5
<1> HIDE DEF r, n
<1> QED
  BY <1>1, <1>2, SameText DEF r

LEMMA EntryNameIs ==
  ASSUME NEW p, IsText(p)
  PROVE  /\ IsText(EntryName(p)) /\ Len(EntryName(p)) = 1 + Len(p)
         /\ EntryName(p)[1] = Files
         /\ \A i \in 1..Len(p) : EntryName(p)[1 + i] = p[i]
<1> DEFINE S == {Files} \cup ToSet(p)
           h == <<Files>>
<1>1. h \in Seq(S) /\ p \in Seq(S) /\ Len(h) = 1 /\ h[1] = Files
  BY DEF IsText
<1> HIDE DEF S, h
<1>2. IsJoin(h \o p, h, p, S)
  BY <1>1, Joined
<1>3. EntryName(p) = h \o p
  BY DEF EntryName, h
<1>4. IsText(h \o p)
  BY <1>2, IsTextOf DEF IsJoin
<1> QED
  BY <1>1, <1>2, <1>3, <1>4 DEF IsJoin

LEMMA EntryNameRead ==
  ASSUME NEW p, IsPath(p) PROVE ReadText(EntryName(p)) = EntryName(ReadText(p))
<1> DEFINE n == EntryName(p)
           r == ReadText(p)
           m == EntryName(r)
<1>1. IsText(p) /\ Len(p) \in Nat /\ Len(p) # 0
  BY TextIs DEF IsPath
<1>2. /\ IsText(n) /\ Len(n) = 1 + Len(p) /\ n[1] = Files
      /\ \A i \in 1..Len(p) : n[1 + i] = p[i]
  BY <1>1, EntryNameIs
<1>3. IsText(r) /\ Len(r) = Len(p) /\ \A i \in 1..Len(p) : i # Len(p) => r[i] = p[i]
  BY <1>1, ReadTextIs
<1> HIDE DEF r, n
<1>4. /\ IsText(m) /\ Len(m) = 1 + Len(p) /\ m[1] = Files
      /\ \A i \in 1..Len(p) : m[1 + i] = r[i]
  BY <1>3, EntryNameIs
<1>5. /\ IsText(ReadText(n)) /\ Len(ReadText(n)) = 1 + Len(p)
      /\ \A i \in 1..Len(n) : i # Len(n) => ReadText(n)[i] = n[i]
  BY <1>2, ReadTextIs
<1>6. ReadText(n)[Len(n)] = r[Len(p)]
  <2>1. n[Len(n)] = p[Len(p)]
    BY <1>1, <1>2
  <2> QED
    BY <1>1, <1>2, <2>1, ReadTextEnd DEF r
<1> HIDE DEF m
<1>7. ASSUME NEW i \in 1..(1 + Len(p)) PROVE ReadText(n)[i] = m[i]
  <2>1. CASE i = 1
    BY <1>1, <1>2, <1>4, <1>5, <2>1
  <2>2. CASE i # 1
    <3>1. i - 1 \in 1..Len(p) /\ 1 + (i - 1) = i
      BY <1>1, <2>2
    <3>2. m[i] = r[i - 1] /\ n[i] = p[i - 1]
      BY <1>2, <1>4, <3>1
    <3>3. CASE i = 1 + Len(p)
      <4>1. i - 1 = Len(p)
        BY <1>1, <3>3
      <4> QED
        BY <1>2, <1>6, <3>2, <3>3, <4>1
    <3>4. CASE i # 1 + Len(p)
      <4>1. i - 1 # Len(p)
        BY <1>1, <3>4
      <4> QED
        BY <1>2, <1>3, <1>5, <3>1, <3>2, <3>4, <4>1
    <3> QED
      BY <3>3, <3>4
  <2> QED
    BY <2>1, <2>2
<1>8. ReadText(n) = m
  BY <1>4, <1>5, <1>7, SameText
<1> QED
  BY <1>8 DEF n, m, r

LEMMA EntryNameOnce ==
  ASSUME NEW p, NEW q, IsText(p), IsText(q), EntryName(p) = EntryName(q)
  PROVE  p = q
<1>1. /\ Len(EntryName(p)) = 1 + Len(p) /\ Len(EntryName(q)) = 1 + Len(q)
      /\ Len(p) \in Nat /\ Len(q) \in Nat
  BY EntryNameIs, TextIs
<1>2. Len(p) = Len(q)
  BY <1>1
<1>3. ASSUME NEW i \in 1..Len(p) PROVE p[i] = q[i]
  <2>1. EntryName(p)[1 + i] = p[i]
    BY EntryNameIs
  <2>2. EntryName(q)[1 + i] = q[i]
    BY <1>2, EntryNameIs
  <2> QED
    BY <2>1, <2>2
<1> QED
  BY <1>2, <1>3, SameText

LEMMA NameOfIs ==
  ASSUME NEW file
  PROVE  IsText(NameOf(file)) /\ Len(NameOf(file)) = 1 /\ ReadText(NameOf(file)) = NameOf(file)
<1> DEFINE s == [text |-> file, bytes |-> 12, blank |-> FALSE, odd |-> FALSE]
           n == <<s>>
<1>1. n \in Seq({s}) /\ Len(n) = 1 /\ n[1].blank = FALSE /\ NameOf(file) = n
  BY DEF NameOf
<1> HIDE DEF s, n
<1>2. IsText(n)
  BY <1>1, IsTextOf
<1>3. ReadText(n) = n
  <2>1. n = [i \in 1..Len(n) |-> n[i]] /\ DOMAIN n = 1..Len(n)
    BY <1>2, TextIs
  <2>2. \A i \in DOMAIN n : (IF i = Len(n) /\ n[i].blank
             THEN [n[i] EXCEPT !.blank = FALSE, !.bytes = @ - 1] ELSE n[i]) = n[i]
    BY <1>1, <2>1
  <2> QED
    BY <2>1, <2>2 DEF ReadText
<1> QED
  BY <1>1, <1>2, <1>3

(* A name kept in two fields is put together again. *)
LEMMA SplitNameBack ==
  ASSUME NEW n, IsText(n), NameFits(n)
  PROVE  SplitName(n).prefix \o ReadText(SplitName(n).name) = ReadText(n)
<1>1. Len(n) \in Nat /\ IsText(ReadText(n)) /\ Len(ReadText(n)) = Len(n)
      /\ \A i \in 1..Len(n) : i # Len(n) => ReadText(n)[i] = n[i]
  BY TextIs, ReadTextIs
<1>2. CASE SizeOf(n) <= NameBytes
  <2>1. SplitName(n).prefix = <<>> /\ SplitName(n).name = n
    BY <1>2 DEF SplitName
  <2>2. ReadText(n) \in Seq(ToSet(ReadText(n)))
    BY <1>1 DEF IsText
  <2> HIDE DEF SplitName
  <2> QED
    BY <2>1, <2>2
<1>3. CASE ~(SizeOf(n) <= NameBytes)
  <2> DEFINE k == Min(Splits(n))
             a == Front1(n, k)
             b == Rest(n, k)
             S == ToSet(n)
             c == ReadText(b)
  <2>1. Splits(n) # {} /\ Splits(n) \subseteq 1..(Len(n) - 1)
    BY <1>3 DEF NameFits, Splits
  <2>2. k \in 1..(Len(n) - 1)
    <3>1. Splits(n) \in SUBSET Nat
      BY <1>1, <2>1
    <3> QED
      BY <2>1, <3>1, MinOfSome
  <2>3. SplitName(n).prefix = a /\ SplitName(n).name = b
    BY <1>3 DEF SplitName
  <2> HIDE DEF k
  <2>4. n \in Seq(S) /\ Len(n) \in Nat /\ k \in Nat
    BY <1>1, <2>2 DEF IsText
  <2> HIDE DEF S
  <2>5. /\ a \in Seq(S) /\ Len(a) = k /\ \A i \in 1..k : a[i] = n[i]
    BY <2>2, <2>4 DEF Front1
  <2>6. /\ b \in Seq(S) /\ Len(b) = Len(n) - k /\ \A i \in 1..(Len(n) - k) : b[i] = n[k + i]
    BY <2>2, <2>4 DEF Rest
  <2> HIDE DEF a, b
  <2>7. IsText(a) /\ IsText(b)
    BY <2>5, <2>6, IsTextOf
  <2>8. /\ IsText(c) /\ Len(c) = Len(b)
        /\ \A i \in 1..Len(b) : i # Len(b) => c[i] = b[i]
    BY <2>7, ReadTextIs
  <2>9. c[Len(b)] = ReadText(n)[Len(n)]
    <3>1. b[Len(b)] = n[Len(n)] /\ Len(b) # 0 /\ Len(n) # 0
      <4>1. /\ Len(b) \in 1..(Len(n) - k) /\ k + Len(b) = Len(n)
            /\ Len(b) # 0 /\ Len(n) # 0
        BY <2>2, <2>4, <2>6
      <4>2. b[Len(b)] = n[k + Len(b)]
        BY <2>6, <4>1
      <4> QED
        BY <4>1, <4>2
    <3> QED
      BY <2>7, <3>1, ReadTextEnd
  <2> HIDE DEF c
  <2> DEFINE U == S \cup ToSet(c)
             j == a \o c
  <2>10. a \in Seq(U) /\ c \in Seq(U)
    BY <2>5, <2>8 DEF IsText
  <2> HIDE DEF U
  <2>11. IsJoin(j, a, c, U)
    BY <2>10, Joined
  <2> HIDE DEF j
  <2>12. IsText(j) /\ Len(j) = Len(n)
    <3>1. IsText(j)
      BY <2>11, IsTextOf DEF IsJoin
    <3> QED
      BY <2>2, <2>4, <2>5, <2>6, <2>8, <2>11, <3>1 DEF IsJoin
  <2>13. ASSUME NEW i \in 1..Len(n) PROVE j[i] = ReadText(n)[i]
    <3>1. CASE i \in 1..k
      <4>1. j[i] = a[i] /\ a[i] = n[i] /\ i # Len(n)
        BY <2>2, <2>4, <2>5, <2>11, <3>1 DEF IsJoin
      <4> QED
        BY <1>1, <4>1
    <3>2. CASE i \notin 1..k
      <4>1. i - k \in 1..Len(b) /\ k + (i - k) = i
        BY <2>2, <2>4, <2>6, <3>2
      <4>2. j[i] = c[i - k] /\ b[i - k] = n[i]
        <5>1. Len(a) = k /\ Len(c) = Len(b)
          BY <2>5, <2>8
        <5>2. j[k + (i - k)] = c[i - k]
          BY <2>11, <4>1, <5>1 DEF IsJoin
        <5>3. n[k + (i - k)] = b[i - k]
          BY <2>6, <4>1
        <5> QED
          BY <4>1, <5>2, <5>3
      <4>3. CASE i = Len(n)
        <5>1. i - k = Len(b)
          BY <2>2, <2>4, <2>6, <4>3
        <5> QED
          BY <2>9, <4>2, <4>3, <5>1
      <4>4. CASE i # Len(n)
        <5>1. i - k # Len(b)
          BY <2>2, <2>4, <2>6, <4>4
        <5> QED
          BY <1>1, <2>8, <4>1, <4>2, <4>4, <5>1
      <4> QED
        BY <4>3, <4>4
    <3> QED
      BY <3>1, <3>2
  <2>14. j = ReadText(n)
    BY <1>1, <2>12, <2>13, SameText
  <2> QED
    BY <2>3, <2>14 DEF j, c
<1> QED
  BY <1>2, <1>3

-----------------------------------------------------------------------------
(* What is packed is read back, and of what is left of it nothing but whole *)
(* entries. *)

IsParcel(E) ==
  /\ E \in Seq(ToSet(E)) /\ E # <<>>
  /\ \A e \in ToSet(E) : IsEntry(e) /\ IsText(e.name) /\ NameFits(e.name)

(* What is read of an entry: its name is trimmed. *)
Back(E) == [k \in 1..Len(E) |-> [name |-> ReadText(E[k].name), bytes |-> E[k].bytes]]
IsBack(E, k, entries) ==
  /\ IsText(entries) /\ Len(entries) <= Len(E) + 1 - k
  /\ \A j \in 1..Len(entries) : entries[j] = Back(E)[k - 1 + j]

Broken(h) == [h EXCEPT !.adds = FALSE]
Remains(E, at, blocks) ==
  /\ \A k \in 1..Len(E) : at[k] <= Len(blocks) =>
       /\ \E h \in {Header(E[k]), Broken(Header(E[k]))} : blocks[at[k]].head = {h}
       /\ \A j \in 1..PadOf(E, k) : at[k] + j <= Len(blocks) =>
            blocks[at[k] + j] = E[k].bytes.blocks[j]
  /\ at[Len(E) + 1] <= Len(blocks) => blocks[at[Len(E) + 1]] = ZeroBlock
(* Nothing is missing. *)
AllThere(E, at, blocks) ==
  /\ at[Len(E) + 1] <= Len(blocks)
  /\ \A k \in 1..Len(E) : blocks[at[k]].head = {Header(E[k])}

LEMMA PaddedFits ==
  ASSUME NEW n \in Nat, NEW m \in Nat
  PROVE  n <= m * Block <=> Padded(n) <= m
BY DEF Padded, Block

LEMMA HeaderIs ==
  ASSUME NEW e
  PROVE  \A h \in {Header(e), Broken(Header(e))} :
           /\ h.split = SplitName(e.name) /\ h.size = e.bytes.size /\ h.type = "file"
           /\ h.adds => h = Header(e)
BY DEF Header, Broken

LEMMA HeadOfOne ==
  ASSUME NEW blocks, NEW i, NEW h, blocks[i].head = {h}
  PROVE  HeadOf(blocks, i) = h /\ blocks[i].head # {} /\ blocks[i] # ZeroBlock
BY DEF HeadOf, ZeroBlock

(* A part of a sequence. *)
IsSlice(t, s, i, n, S) ==
  t \in Seq(S) /\ Len(t) = n /\ \A j \in 1..n : t[j] = s[i + j]

LEMMA Sliced ==
  ASSUME NEW S, NEW s \in Seq(S), NEW i \in Nat, NEW n \in Nat, i + n <= Len(s)
  PROVE  IsSlice(SubSeq(s, i + 1, i + n), s, i, n, S)
<1> DEFINE t == SubSeq(s, i + 1, i + n)
<1>1. i + 1 \in 1..(Len(s) + 1) /\ i + n \in i..Len(s) /\ Len(s) \in Nat
      /\ (i + n) - (i + 1) + 1 = n
  OBVIOUS
<1>2. t = [j \in 1..(1 + (i + n) - (i + 1)) |-> s[(i + 1) + j - 1]]
  OBVIOUS
<1>3. 1 + (i + n) - (i + 1) = n /\ \A j \in 1..n : (i + 1) + j - 1 = i + j /\ i + j \in 1..Len(s)
  BY <1>1
<1>4. t = [j \in 1..n |-> s[i + j]]
  BY <1>2, <1>3
<1> HIDE DEF t
<1>5. \A j \in 1..n : s[i + j] \in S
  BY <1>3
<1>6. t \in Seq(S) /\ Len(t) = n
  BY <1>4, <1>5
<1> QED
  BY <1>4, <1>6 DEF IsSlice, t

(* An entry all of whose blocks are there. *)
LEMMA EntryIsBack ==
  ASSUME NEW E, IsParcel(E), NEW at, IsLayout(E, at), NEW blocks, IsTar(blocks),
         Remains(E, at, blocks), NEW k \in 1..Len(E), at[k] + PadOf(E, k) <= Len(blocks)
  PROVE  EntryAt(blocks, at[k]) = Back(E)[k]
<1> DEFINE e == E[k]
           p == PadOf(E, k)
           i == at[k]
           m == Len(blocks)
           b == SubSeq(blocks, i + 1, Min({i + Padded(e.bytes.size), m}))
<1>1. IsEntry(e) /\ IsText(e.name) /\ NameFits(e.name)
  BY DEF IsParcel, ToSet
<1>2. p \in Nat /\ i \in Nat /\ i > 0 /\ m \in Nat /\ i <= m /\ p = Padded(e.bytes.size)
  <2>1. p \in Nat /\ i \in Nat /\ i > 0 /\ m \in Nat
    BY DEF IsLayout, IsTar, IsParcel
  <2> QED
    BY <2>1 DEF PadOf
<1>3. PICK h \in {Header(e), Broken(Header(e))} : blocks[i].head = {h}
  BY <1>2 DEF Remains
<1>4. h.split = SplitName(e.name) /\ h.size = e.bytes.size /\ HeadOf(blocks, i) = h
  <2> HIDE DEF e, i
  <2>1. HeadOf(blocks, i) = h
    BY <1>3, HeadOfOne
  <2> QED
    BY <1>3, <2>1, HeaderIs
<1>5. Min({i + p, m}) = i + p
  BY <1>2, MinOfTwo
<1>6. b = e.bytes.blocks
  <2>1. b = SubSeq(blocks, i + 1, i + p)
    BY <1>2, <1>5
  <2>2. blocks \in Seq(ToSet(blocks)) /\ i + 1 \in 1..(m + 1) /\ i + p \in i..m
    BY <1>2 DEF IsTar
  <2> HIDE DEF b
  <2>3. /\ b \in Seq(ToSet(blocks)) /\ Len(b) = p
        /\ \A j \in 1..p : b[j] = blocks[i + j]
    <3> HIDE DEF i, p, m
    <3>1. IsSlice(b, blocks, i, p, ToSet(blocks))
      BY <1>2, <2>1, <2>2, Sliced DEF m
    <3> QED
      BY <3>1 DEF IsSlice
  <2>4. IsText(b) /\ IsText(e.bytes.blocks) /\ Len(e.bytes.blocks) = p
    BY <1>1, <1>2, <2>3, IsTextOf DEF IsEntry, IsBytes, IsText
  <2>5. \A j \in 1..p : i + j <= m
    BY <1>2
  <2>6. \A j \in 1..p : b[j] = e.bytes.blocks[j]
    BY <1>2, <2>3, <2>5 DEF Remains
  <2> QED
    BY <2>3, <2>4, <2>6, SameText
<1>7. EntryAt(blocks, i) = [name |-> h.split.prefix \o ReadText(h.split.name),
                            bytes |-> [size |-> h.size, blocks |-> b]]
  BY <1>4 DEF EntryAt, HeadOf
<1>8. h.split.prefix \o ReadText(h.split.name) = ReadText(e.name)
  BY <1>1, <1>4, SplitNameBack
<1>9. e.bytes = [size |-> e.bytes.size, blocks |-> e.bytes.blocks]
  BY <1>1 DEF IsEntry, IsBytes
<1> HIDE DEF b
<1>10. EntryAt(blocks, i) = [name |-> ReadText(e.name), bytes |-> e.bytes]
  BY <1>4, <1>6, <1>7, <1>8, <1>9
<1> QED
  BY <1>10 DEF Back

LEMMA Prepends ==
  ASSUME NEW e, NEW r, IsText(r)
  PROVE  /\ IsText(<<e>> \o r) /\ Len(<<e>> \o r) = Len(r) + 1
         /\ (<<e>> \o r)[1] = e
         /\ \A j \in 1..Len(r) : (<<e>> \o r)[1 + j] = r[j]
<1> DEFINE S == {e} \cup ToSet(r)
           h == <<e>>
<1>1. h \in Seq(S) /\ r \in Seq(S) /\ Len(h) = 1 /\ h[1] = e
  BY DEF IsText
<1>2. Len(r) \in Nat
  BY TextIs
<1> HIDE DEF S
<1>3. IsJoin(h \o r, h, r, S)
  <2> HIDE DEF h
  <2> QED
    BY <1>1, Joined
<1>4. IsText(h \o r)
  BY <1>3, IsTextOf DEF IsJoin
<1> HIDE DEF h
<1>5. /\ Len(h \o r) = Len(r) + 1 /\ (h \o r)[1] = e
      /\ \A j \in 1..Len(r) : (h \o r)[1 + j] = r[j]
  BY <1>1, <1>2, <1>3 DEF IsJoin
<1> QED
  BY <1>4, <1>5 DEF h

(* From the header of entry k on. *)
LEMMA WalksOn ==
  ASSUME NEW E, IsParcel(E), NEW at, IsLayout(E, at), NEW blocks, IsTar(blocks),
         Remains(E, at, blocks), NEW read, Reads(blocks, read),
         NEW k \in 1..Len(E), at[k] <= Len(blocks) + 1,
         at[k + 1] <= Len(blocks) + 1 =>
           /\ read[at[k + 1]].ok => IsBack(E, k + 1, read[at[k + 1]].entries)
           /\ AllThere(E, at, blocks) =>
                read[at[k + 1]].ok /\ Len(read[at[k + 1]].entries) = Len(E) - k
  PROVE  /\ read[at[k]].ok => IsBack(E, k, read[at[k]].entries)
         /\ AllThere(E, at, blocks) /\ at[k + 1] <= Len(blocks) =>
              read[at[k]].ok /\ Len(read[at[k]].entries) = Len(E) + 1 - k
<1> DEFINE m == Len(blocks)
           i == at[k]
           p == PadOf(E, k)
           n == Len(E)
<1>1. /\ m \in Nat /\ i \in Nat /\ i > 0 /\ p \in Nat /\ n \in Nat /\ at[k + 1] = i + 1 + p
      /\ k \in 1..n
  BY DEF IsTar, IsLayout, IsParcel
<1>2. read[i] = ReadFrom(blocks, read, i)
  BY <1>1 DEF Reads
<1>3. CASE i > m
  <2>1. read[i] = Accepted(<<>>)
    BY <1>2, <1>3 DEF ReadFrom
  <2>2. read[i].entries = <<>>
    BY <2>1 DEF Accepted
  <2>3. IsText(<<>>) /\ Len(<<>>) = 0
    BY DEF IsText, ToSet
  <2>4. IsBack(E, k, read[i].entries)
    BY <1>1, <2>2, <2>3 DEF IsBack
  <2> QED
    BY <1>1, <1>3, <2>4
<1>4. CASE i <= m
  <2>1. PICK h \in {Header(E[k]), Broken(Header(E[k]))} : blocks[i].head = {h}
    BY <1>4 DEF Remains
  <2>2. /\ h.split = SplitName(E[k].name) /\ h.size = E[k].bytes.size /\ h.type = "file"
        /\ h.adds => h = Header(E[k])
    BY <2>1, HeaderIs
  <2>3. HeadOf(blocks, i) = h /\ blocks[i].head # {} /\ blocks[i] # ZeroBlock
    BY <2>1, HeadOfOne
  <2>4. ClaimsWhatIsThere(blocks, i) <=> h.size <= (m - i) * Block
    BY <2>3 DEF ClaimsWhatIsThere, HeadOf
  <2>5. h.size \in Nat /\ p = Padded(h.size) /\ m - i \in Nat
    <3>1. IsEntry(E[k])
      BY DEF IsParcel, ToSet
    <3>2. E[k].bytes.size \in Nat
      BY <3>1 DEF IsEntry, IsBytes
    <3> QED
      BY <1>1, <1>4, <2>2, <3>2 DEF PadOf
  <2>6. ClaimsWhatIsThere(blocks, i) <=> p <= m - i
    BY <2>4, <2>5, PaddedFits
  <2>7. CASE ~h.adds \/ ~ClaimsWhatIsThere(blocks, i)
    <3>1. read[i] = Refused
      BY <1>1, <1>2, <1>4, <2>3, <2>7 DEF ReadFrom
    <3>2. ~read[i].ok
      BY <3>1 DEF Refused
    <3>3. ~(AllThere(E, at, blocks) /\ at[k + 1] <= m)
      <4>1. CASE ~h.adds
        <5>1. Header(E[k]).adds
          BY DEF Header
        <5> QED
          BY <2>1, <4>1, <5>1 DEF AllThere
      <4>2. CASE ~ClaimsWhatIsThere(blocks, i)
        BY <1>1, <1>4, <2>6, <4>2
      <4> QED
        BY <2>7, <4>1, <4>2
    <3> QED
      BY <3>2, <3>3
  <2>8. CASE h.adds /\ ClaimsWhatIsThere(blocks, i)
    <3> DEFINE rest == read[at[k + 1]]
               e == EntryAt(blocks, i)
    <3>1. i + p <= m /\ at[k + 1] <= m + 1
      BY <1>1, <1>4, <2>6, <2>8
    <3>2. NextOf(blocks, i) = at[k + 1]
      <4>1. Min({i + p, m}) = i + p
        BY <1>1, <3>1, MinOfTwo
      <4> QED
        BY <1>1, <2>3, <2>5, <4>1 DEF NextOf
    <3>3. read[i] = After(e, rest)
      BY <1>1, <1>2, <1>4, <2>2, <2>3, <2>8, <3>2 DEF ReadFrom
    <3>4. e = Back(E)[k]
      BY <3>1, EntryIsBack
    <3> HIDE DEF e, rest
    <3>5. /\ rest.ok => IsBack(E, k + 1, rest.entries)
          /\ AllThere(E, at, blocks) => rest.ok /\ Len(rest.entries) = n - k
      BY <3>1 DEF rest
    <3>6. CASE ~rest.ok
      <4>1. read[i] = rest
        BY <3>3, <3>6 DEF After
      <4> QED
        BY <3>5, <3>6, <4>1
    <3>7. CASE rest.ok
      <4> DEFINE r == rest.entries
                 s == <<e>> \o r
      <4>1. read[i].ok /\ read[i].entries = s
        BY <3>3, <3>7 DEF After, Accepted
      <4>2. IsBack(E, k + 1, r)
        BY <3>5, <3>7
      <4>3. IsText(r) /\ Len(r) \in Nat /\ Len(r) <= n + 1 - (k + 1)
        BY <4>2, TextIs DEF IsBack
      <4> HIDE DEF r
      <4>4. /\ IsText(s) /\ Len(s) = Len(r) + 1 /\ s[1] = e
            /\ \A j \in 1..Len(r) : s[1 + j] = r[j]
        BY <4>3, Prepends
      <4> HIDE DEF s
      <4>5. ASSUME NEW j \in 1..Len(s) PROVE s[j] = Back(E)[k - 1 + j]
        <5>1. CASE j = 1
          <6>1. k - 1 + 1 = k
            BY <1>1
          <6> QED
            BY <3>4, <4>4, <5>1, <6>1
        <5>2. CASE j # 1
          <6>1. j - 1 \in 1..Len(r) /\ 1 + (j - 1) = j /\ (k + 1) - 1 + (j - 1) = k - 1 + j
            BY <1>1, <4>3, <4>4, <5>2
          <6>2. r[j - 1] = Back(E)[(k + 1) - 1 + (j - 1)]
            BY <4>2, <6>1 DEF IsBack
          <6> QED
            BY <4>4, <6>1, <6>2
        <5> QED
          BY <5>1, <5>2
      <4>6. IsBack(E, k, s)
        BY <1>1, <4>3, <4>4, <4>5 DEF IsBack
      <4>7. AllThere(E, at, blocks) => Len(s) = n + 1 - k
        <5>1. AllThere(E, at, blocks) => Len(r) = n - k
          BY <3>5 DEF r
        <5> QED
          BY <1>1, <4>3, <4>4, <5>1
      <4> QED
        BY <4>1, <4>6, <4>7
    <3> QED
      BY <3>6, <3>7
  <2> QED
    BY <2>7, <2>8
<1> QED
  BY <1>1, <1>3, <1>4

LEMMA WalkIs ==
  ASSUME NEW E, IsParcel(E), NEW at, IsLayout(E, at), NEW blocks, IsTar(blocks),
         Remains(E, at, blocks), NEW read, Reads(blocks, read)
  PROVE  /\ read[1].ok => IsBack(E, 1, read[1].entries)
         /\ AllThere(E, at, blocks) => read[1].ok /\ Len(read[1].entries) = Len(E)
<1> DEFINE n == Len(E)
           m == Len(blocks)
           Good(k) ==
             /\ at[k] <= at[n + 1]
             /\ at[k] <= m + 1 =>
                  /\ read[at[k]].ok => IsBack(E, k, read[at[k]].entries)
                  /\ AllThere(E, at, blocks) =>
                       read[at[k]].ok /\ Len(read[at[k]].entries) = n + 1 - k
           T == {k \in 0..n : Good(k + 1)}
<1>1. n \in Nat /\ m \in Nat /\ at[1] = 1 /\ \A k \in 1..(n + 1) : at[k] \in Nat /\ at[k] > 0
  BY DEF IsTar, IsParcel, IsLayout
<1>2. n \in T
  <2>1. at[n + 1] \in Nat /\ at[n + 1] > 0
    BY <1>1
  <2>2. ASSUME at[n + 1] <= m + 1 PROVE read[at[n + 1]] = Accepted(<<>>)
    <3>1. read[at[n + 1]] = ReadFrom(blocks, read, at[n + 1])
      BY <1>1, <2>1, <2>2 DEF Reads
    <3> QED
      BY <1>1, <2>1, <3>1 DEF ReadFrom, Remains
  <2>3. IsText(<<>>) /\ Len(<<>>) = 0
    BY DEF IsText, ToSet
  <2>4. Accepted(<<>>).ok /\ Accepted(<<>>).entries = <<>>
    BY DEF Accepted
  <2>5. IsBack(E, n + 1, <<>>)
    BY <1>1, <2>3 DEF IsBack
  <2>6. Good(n + 1)
    BY <1>1, <2>1, <2>2, <2>3, <2>4, <2>5
  <2> QED
    BY <1>1, <2>6
<1>3. ASSUME NEW j \in 0..n, j < n, j + 1 \in T PROVE j \in T
  <2> DEFINE k == j + 1
  <2>1. k \in 1..n /\ k + 1 \in 1..(n + 1) /\ k \in 1..(n + 1) /\ n + 1 - (k + 1) = n - k
    BY <1>1, <1>3
  <2>2. Good(k + 1)
    BY <1>3
  <2>3. at[k + 1] = at[k] + 1 + PadOf(E, k) /\ PadOf(E, k) \in Nat
    BY <2>1 DEF IsLayout
  <2> HIDE DEF k
  <2>4. at[k] <= at[n + 1]
    <3>1. at[k] \in Nat /\ at[k + 1] \in Nat /\ at[n + 1] \in Nat
      BY <1>1, <2>1
    <3> QED
      BY <2>2, <2>3, <3>1
  <2>5. ASSUME at[k] <= m + 1
        PROVE  /\ read[at[k]].ok => IsBack(E, k, read[at[k]].entries)
               /\ AllThere(E, at, blocks) =>
                    read[at[k]].ok /\ Len(read[at[k]].entries) = n + 1 - k
    <3>1. /\ read[at[k]].ok => IsBack(E, k, read[at[k]].entries)
          /\ AllThere(E, at, blocks) /\ at[k + 1] <= m =>
               read[at[k]].ok /\ Len(read[at[k]].entries) = n + 1 - k
      BY <2>1, <2>2, <2>5, WalksOn
    <3>2. AllThere(E, at, blocks) => at[k + 1] <= m
      <4>1. at[k + 1] \in Nat /\ at[n + 1] \in Nat
        BY <1>1, <2>1
      <4> QED
        BY <1>1, <2>2, <4>1 DEF AllThere
    <3> QED
      BY <3>1, <3>2
  <2>6. Good(k)
    BY <2>4, <2>5
  <2> QED
    BY <1>3, <2>6 DEF k
<1>4. Good(1)
  <2> HIDE DEF T, n
  <2>1. \A k \in 0..n : k \in T
    BY <1>1, <1>2, <1>3, Descends
  <2>2. 0 \in T
    BY <1>1, <2>1
  <2> QED
    BY <2>2 DEF T
<1> QED
  BY <1>1, <1>4

(* What a block of a parcel may be. *)
OfParcel(E, b) ==
  b = ZeroBlock \/ \E e \in ToSet(E) : b = HeadBlock(Header(e)) \/ b \in ToSet(e.bytes.blocks)

LEMMA Packs ==
  ASSUME NEW E, IsParcel(E)
  PROVE  \E at, all :
           /\ PackTar(E) = [blocks |-> all, ragged |-> FALSE]
           /\ IsLayout(E, at) /\ IsText(all) /\ Len(all) = at[Len(E) + 1] + 1
           /\ Remains(E, at, all) /\ AllThere(E, at, all)
           /\ \A i \in 1..Len(all) : OfParcel(E, all[i])
<1>1. E \in Seq(ToSet(E)) /\ E # <<>> /\ \A e \in ToSet(E) : IsEntry(e)
  BY DEF IsParcel
<1>2. PICK at, all, S :
           /\ PackTar(E) = [blocks |-> all, ragged |-> FALSE]
           /\ IsLayout(E, at)
           /\ all \in Seq(S) /\ Len(all) = at[Len(E) + 1] + 1
           /\ \A k \in 1..Len(E) : Lies(E, at, k, all)
           /\ all[at[Len(E) + 1]] = ZeroBlock /\ all[at[Len(E) + 1] + 1] = ZeroBlock
           /\ \A i \in 1..Len(all) :
                Within(E, at, i, Len(E)) \/ i \in {at[Len(E) + 1], at[Len(E) + 1] + 1}
  BY <1>1, Lays
<1>3. IsText(all)
  BY <1>2, IsTextOf
<1>4. Len(E) \in Nat /\ Len(E) + 1 \in 1..(Len(E) + 1) /\ at[Len(E) + 1] \in Nat
  BY <1>1, <1>2 DEF IsLayout
<1>5. \A k \in 1..Len(E) : all[at[k]].head = {Header(E[k])}
  <2> TAKE k \in 1..Len(E)
  <2>1. all[at[k]] = HeadBlock(Header(E[k]))
    BY <1>2 DEF Lies
  <2> QED
    BY <2>1 DEF HeadBlock
<1>6. AllThere(E, at, all)
  BY <1>2, <1>4, <1>5 DEF AllThere
<1>7. Remains(E, at, all)
  BY <1>2, <1>5 DEF Remains, Lies
<1>8. ASSUME NEW i \in 1..Len(all) PROVE OfParcel(E, all[i])
  <2>1. CASE i \in {at[Len(E) + 1], at[Len(E) + 1] + 1}
    BY <1>2, <2>1 DEF OfParcel
  <2>2. CASE Within(E, at, i, Len(E))
    <3>1. PICK m \in 1..Len(E) : i = at[m] \/ \E j \in 1..PadOf(E, m) : i = at[m] + j
      BY <2>2 DEF Within
    <3>2. E[m] \in ToSet(E) /\ Lies(E, at, m, all) /\ IsEntry(E[m])
      BY <1>1, <1>2 DEF ToSet
    <3>3. CASE i = at[m]
      BY <3>2, <3>3 DEF Lies, OfParcel
    <3>4. CASE i # at[m]
      <4>1. PICK j \in 1..PadOf(E, m) : i = at[m] + j
        BY <3>1, <3>4
      <4>2. all[i] = E[m].bytes.blocks[j]
        BY <3>2, <4>1 DEF Lies
      <4>3. j \in DOMAIN E[m].bytes.blocks
        BY <3>2 DEF IsEntry, IsBytes, PadOf
      <4>4. all[i] \in ToSet(E[m].bytes.blocks)
        BY <4>2, <4>3 DEF ToSet
      <4> QED
        BY <3>2, <4>4 DEF OfParcel
    <3> QED
      BY <3>3, <3>4
  <2> QED
    BY <1>2, <2>1, <2>2
<1> QED
  BY <1>2, <1>3, <1>6, <1>7, <1>8

-----------------------------------------------------------------------------
(* An archive as it may arrive: its headers carry names of the export, and  *)
(* whoever finds rows in it finds rows of V. *)

IsHeader(h) ==
  h = [split |-> h.split, size |-> h.size, type |-> h.type, adds |-> h.adds] /\ h.size \in Nat
IsHead(E, b) ==
  \E h : b.head = {h} /\ IsHeader(h) /\ \E k \in 1..Len(E) : h.split = SplitName(E[k].name)
HoldsOnly(V, b) == \A x \in b.data : "legs" \in DOMAIN x[1] => x[1] \in V
SoundBlock(E, V, b) == (b.head # {} => IsHead(E, b)) /\ HoldsOnly(V, b)
SoundTar(E, V, blocks) ==
  IsText(blocks) /\ \A i \in 1..Len(blocks) : SoundBlock(E, V, blocks[i])

LEMMA SoundIsTar ==
  ASSUME NEW E, NEW V, NEW blocks, SoundTar(E, V, blocks)
  PROVE  IsTar(blocks)
<1>1. ASSUME NEW i \in 1..Len(blocks), blocks[i].head # {} PROVE HeadOf(blocks, i).size \in Nat
  <2>1. PICK h : blocks[i].head = {h} /\ h.size \in Nat
    BY <1>1 DEF SoundTar, SoundBlock, IsHead, IsHeader
  <2> QED
    BY <2>1, HeadOfOne
<1> QED
  BY <1>1 DEF SoundTar, IsTar, IsText

(* A parcel whose names are those of another is as sound as its contents.   *)
LEMMA PacksSoundly ==
  ASSUME NEW E, NEW V, NEW F, IsParcel(F),
         \A e \in ToSet(F) : /\ \E k \in 1..Len(E) : e.name = E[k].name
                             /\ \A b \in ToSet(e.bytes.blocks) : HoldsOnly(V, b)
  PROVE  SoundTar(E, V, PackTar(F).blocks) /\ PackTar(F).blocks # <<>> /\ ~PackTar(F).ragged
<1>1. PICK at, all :
        /\ PackTar(F) = [blocks |-> all, ragged |-> FALSE]
        /\ IsLayout(F, at) /\ IsText(all) /\ Len(all) = at[Len(F) + 1] + 1
        /\ \A i \in 1..Len(all) : OfParcel(F, all[i])
  BY Packs
<1>2. ASSUME NEW i \in 1..Len(all) PROVE SoundBlock(E, V, all[i])
  <2>1. CASE all[i] = ZeroBlock
    BY <2>1 DEF ZeroBlock, SoundBlock, HoldsOnly
  <2>2. ASSUME NEW e \in ToSet(F), all[i] = HeadBlock(Header(e)) PROVE SoundBlock(E, V, all[i])
    <3>1. all[i].head = {Header(e)} /\ all[i].data = {}
      BY <2>2 DEF HeadBlock
    <3>2. Header(e).split = SplitName(e.name) /\ IsHeader(Header(e))
      BY DEF Header, IsHeader, IsParcel, IsEntry, IsBytes
    <3>3. PICK k \in 1..Len(E) : e.name = E[k].name
      OBVIOUS
    <3>4. IsHead(E, all[i])
      BY <3>1, <3>2, <3>3 DEF IsHead
    <3> QED
      BY <3>1, <3>4 DEF SoundBlock, HoldsOnly
  <2>3. ASSUME NEW e \in ToSet(F), all[i] \in ToSet(e.bytes.blocks)
        PROVE  SoundBlock(E, V, all[i])
    <3>1. all[i].head = {}
      BY <2>3 DEF IsParcel, IsEntry, IsBytes
    <3> QED
      BY <2>3, <3>1 DEF SoundBlock
  <2> QED
    BY <1>1, <2>1, <2>2, <2>3 DEF OfParcel
<1>3. all # <<>>
  <2>1. Len(F) + 1 \in 1..(Len(F) + 1)
    BY DEF IsParcel
  <2>2. at[Len(F) + 1] \in Nat
    BY <1>1, <2>1 DEF IsLayout
  <2> QED
    BY <1>1, <2>2
<1> QED
  BY <1>1, <1>2, <1>3 DEF SoundTar

(* An entry read from such an archive. *)
IsRead(E, blocks, e) ==
  /\ \E k \in 1..Len(E) : e.name = ReadText(E[k].name)
  /\ e.bytes.blocks # <<>> => e.bytes.blocks[1] \in ToSet(blocks)

LEMMA EntryIsRead ==
  ASSUME NEW E, IsParcel(E), NEW V, NEW blocks, SoundTar(E, V, blocks),
         NEW i \in 1..Len(blocks), blocks[i].head # {}
  PROVE  IsRead(E, blocks, EntryAt(blocks, i))
<1>a. IsHead(E, blocks[i])
  BY DEF SoundTar, SoundBlock
<1>b. PICK h : /\ blocks[i].head = {h} /\ h.size \in Nat
               /\ \E k \in 1..Len(E) : h.split = SplitName(E[k].name)
  BY <1>a DEF IsHead, IsHeader
<1>1. PICK k \in 1..Len(E) :
        blocks[i].head = {h} /\ h.size \in Nat /\ h.split = SplitName(E[k].name)
  BY <1>b
<1>2. IsText(E[k].name) /\ NameFits(E[k].name)
  BY DEF IsParcel, ToSet
<1> DEFINE e == EntryAt(blocks, i)
           m == Len(blocks)
           p == Padded(h.size)
           b == SubSeq(blocks, i + 1, Min({i + p, m}))
<1>3. /\ e.name = h.split.prefix \o ReadText(h.split.name)
      /\ e.bytes.blocks = b
  <2>1. HeadOf(blocks, i) = h
    BY <1>1, HeadOfOne
  <2> QED
    BY <2>1 DEF EntryAt, HeadOf
<1>4. e.name = ReadText(E[k].name)
  BY <1>1, <1>2, <1>3, SplitNameBack
<1>5. ASSUME b # <<>> PROVE b[1] \in ToSet(blocks)
  <2>1. p \in Nat /\ m \in Nat /\ i \in 1..m /\ blocks \in Seq(ToSet(blocks))
    <3>1. p \in Nat
      BY <1>1, PaddedIsNat
    <3>2. IsText(blocks)
      BY DEF SoundTar
    <3> QED
      BY <3>1, <3>2, TextIs DEF IsText
  <2>2. Min({i + p, m}) \in i..m
    <3>1. Min({i + p, m}) = IF i + p <= m THEN i + p ELSE m
      <4> HIDE DEF p, m
      <4> QED
        BY <2>1, MinOfTwo
    <3> QED
      BY <2>1, <3>1
  <2> DEFINE c == Min({i + p, m}) - i
  <2>3. c \in Nat /\ i + c <= m /\ Min({i + p, m}) = i + c
    BY <2>1, <2>2
  <2> HIDE DEF c
  <2>4. IsSlice(SubSeq(blocks, i + 1, i + c), blocks, i, c, ToSet(blocks))
    <3>1. blocks \in Seq(ToSet(blocks)) /\ i \in Nat /\ c \in Nat /\ i + c <= Len(blocks)
      BY <2>1, <2>3
    <3> QED
      BY <3>1, Sliced
  <2>5. IsSlice(b, blocks, i, c, ToSet(blocks))
    BY <2>3, <2>4
  <2> HIDE DEF b
  <2> QED
    BY <1>5, <2>5 DEF IsSlice
<1> HIDE DEF e, b
<1>6. IsRead(E, blocks, e)
  BY <1>3, <1>4, <1>5 DEF IsRead
<1> QED
  BY <1>6 DEF e

LEMMA AllAreRead ==
  ASSUME NEW E, IsParcel(E), NEW V, NEW blocks, SoundTar(E, V, blocks), Len(blocks) # 0,
         NEW read, Reads(blocks, read), read[1].ok
  PROVE  /\ IsText(read[1].entries)
         /\ \A j \in 1..Len(read[1].entries) : IsRead(E, blocks, read[1].entries[j])
<1> DEFINE n == Len(blocks)
           AreRead(s) == IsText(s) /\ \A j \in 1..Len(s) : IsRead(E, blocks, s[j])
           U == {i \in 1..(n + 1) : read[i].ok => AreRead(read[i].entries)}
           (* from every block but the first k on *)
           T == {k \in 0..n : \A i \in (k + 1)..(n + 1) : i \in U}
<1>1. IsTar(blocks) /\ n \in Nat /\ n > 0
  <2>1. IsTar(blocks) /\ IsText(blocks)
    BY SoundIsTar DEF SoundTar
  <2> QED
    BY <2>1, TextIs
<1>2. ASSUME NEW i \in 1..(n + 1), \A m \in (i + 1)..(n + 1) : m \in U PROVE i \in U
  <2> DEFINE rest == read[NextOf(blocks, i)]
             e == EntryAt(blocks, i)
  <2>1. read[i] = ReadFrom(blocks, read, i)
    BY <1>1 DEF Reads
  <2>2. CASE i > n \/ blocks[i] = ZeroBlock
    <3>1. read[i] = Accepted(<<>>)
      BY <2>1, <2>2 DEF ReadFrom
    <3>2. read[i].entries = <<>>
      BY <3>1 DEF Accepted
    <3>3. IsText(<<>>) /\ Len(<<>>) = 0
      BY DEF IsText, ToSet
    <3>4. AreRead(read[i].entries)
      BY <3>2, <3>3
    <3> QED
      BY <3>4
  <2>3. CASE ~(i > n \/ blocks[i] = ZeroBlock) /\ blocks[i].head = {}
    <3>1. read[i] = Refused
      BY <2>1, <2>3 DEF ReadFrom
    <3> QED
      BY <3>1 DEF Refused
  <2>4. CASE ~(i > n \/ blocks[i] = ZeroBlock) /\ blocks[i].head # {}
    <3>1. i \in 1..n
      BY <1>1, <2>4
    <3>2. NextOf(blocks, i) \in (i + 1)..(n + 1)
      BY <1>1, <2>4, <3>1, NextIsAhead
    <3>3. rest.ok => AreRead(rest.entries)
      BY <1>2, <3>2
    <3>4. IsRead(E, blocks, e)
      BY <2>4, <3>1, EntryIsRead
    <3>5. read[i] \in {Refused, rest, After(e, rest)}
      BY <2>1, <2>4 DEF ReadFrom
    <3> HIDE DEF rest, e
    <3>6. CASE read[i] \in {Refused, rest} \/ ~rest.ok
      <4>1. read[i] \in {Refused, rest}
        BY <3>5, <3>6 DEF After
      <4> QED
        BY <3>3, <4>1 DEF Refused
    <3>7. CASE read[i] = After(e, rest) /\ rest.ok
      <4> DEFINE r == rest.entries
                 s == <<e>> \o r
      <4>1. read[i].entries = s
        BY <3>7 DEF After, Accepted
      <4>2. AreRead(r)
        BY <3>3, <3>7
      <4> HIDE DEF r
      <4>3. /\ IsText(s) /\ Len(s) = Len(r) + 1 /\ s[1] = e /\ Len(r) \in Nat
            /\ \A j \in 1..Len(r) : s[1 + j] = r[j]
        <5>1. IsText(r) /\ Len(r) \in Nat
          BY <4>2, TextIs
        <5> QED
          BY <5>1, Prepends
      <4> HIDE DEF s
      <4>4. ASSUME NEW j \in 1..Len(s) PROVE IsRead(E, blocks, s[j])
        <5>1. CASE j = 1
          BY <3>4, <4>3, <5>1
        <5>2. CASE j # 1
          <6>1. j - 1 \in 1..Len(r) /\ 1 + (j - 1) = j
            BY <4>3, <5>2
          <6> QED
            BY <4>2, <4>3, <6>1
        <5> QED
          BY <5>1, <5>2
      <4> QED
        BY <4>1, <4>3, <4>4
    <3> QED
      BY <3>5, <3>6, <3>7
  <2> QED
    BY <2>2, <2>3, <2>4
<1> HIDE DEF U
<1>3. n \in T
  <2>1. \A i \in (n + 1)..(n + 1) : i \in 1..(n + 1) /\ (i + 1)..(n + 1) = {}
    BY <1>1
  <2>2. \A i \in (n + 1)..(n + 1) : i \in U
    BY <1>2, <2>1
  <2> QED
    BY <1>1, <2>2
<1>4. ASSUME NEW k \in 0..n, k < n, k + 1 \in T PROVE k \in T
  <2>1. \A i \in ((k + 1) + 1)..(n + 1) : i \in U
    BY <1>4
  <2>2. k + 1 \in U
    BY <1>1, <1>2, <1>4, <2>1
  <2>3. \A i \in (k + 1)..(n + 1) : i = k + 1 \/ i \in ((k + 1) + 1)..(n + 1)
    BY <1>1
  <2> QED
    BY <1>4, <2>1, <2>2, <2>3
<1>5. 1 \in U
  <2> HIDE DEF T, n
  <2>1. \A k \in 0..n : k \in T
    BY <1>1, <1>3, <1>4, Descends
  <2>2. 0 \in T
    BY <1>1, <2>1
  <2> QED
    BY <1>1, <2>2 DEF T
<1> QED
  BY <1>5 DEF U

(* The three ways an archive is read: untouched, with something missing or  *)
(* broken, and as it comes. *)
LEMMA WholeIsRead ==
  ASSUME NEW E, IsParcel(E), NEW V, SoundTar(E, V, PackTar(E).blocks)
  PROVE  UnpackTar(PackTar(E)).ok /\ UnpackTar(PackTar(E)).entries = Back(E)
<1>1. PICK at, all :
        /\ PackTar(E) = [blocks |-> all, ragged |-> FALSE]
        /\ IsLayout(E, at) /\ IsText(all) /\ Len(all) = at[Len(E) + 1] + 1
        /\ Remains(E, at, all) /\ AllThere(E, at, all)
  BY Packs
<1> DEFINE a == PackTar(E)
<1>2. a.blocks = all /\ a.ragged = FALSE
  BY <1>1
<1>3. IsTar(all)
  BY <1>2, SoundIsTar
<1> HIDE DEF a
<1>4. PICK read : /\ Reads(a.blocks, read)
                  /\ UnpackTar(a) = IF a.ragged \/ Len(a.blocks) = 0 THEN Refused ELSE read[1]
  BY <1>2, <1>3, Unpacks
<1>5. Len(all) # 0 /\ Len(E) \in Nat
  <2>1. Len(E) \in Nat /\ Len(E) + 1 \in 1..(Len(E) + 1)
    BY DEF IsParcel
  <2>2. at[Len(E) + 1] \in Nat
    BY <1>1, <2>1 DEF IsLayout
  <2> QED
    BY <1>1, <2>1, <2>2
<1>6. UnpackTar(a) = read[1]
  BY <1>2, <1>4, <1>5
<1>7. Reads(all, read)
  BY <1>2, <1>4
<1>8. /\ read[1].ok => IsBack(E, 1, read[1].entries)
      /\ AllThere(E, at, all) => read[1].ok /\ Len(read[1].entries) = Len(E)
  BY <1>1, <1>3, <1>7, WalkIs
<1> DEFINE s == read[1].entries
<1>9. read[1].ok /\ IsBack(E, 1, s) /\ Len(s) = Len(E)
  BY <1>1, <1>8
<1>10. IsText(Back(E)) /\ Len(Back(E)) = Len(E)
  <2> DEFINE back(k) == [name |-> ReadText(E[k].name), bytes |-> E[k].bytes]
             S == {back(k) : k \in 1..Len(E)}
  <2>1. \A k \in 1..Len(E) : back(k) \in S
    OBVIOUS
  <2> HIDE DEF back, S
  <2>2. [k \in 1..Len(E) |-> back(k)] \in Seq(S) /\ Len([k \in 1..Len(E) |-> back(k)]) = Len(E)
    BY <1>5, <2>1
  <2>3. Back(E) = [k \in 1..Len(E) |-> back(k)]
    BY DEF Back, back
  <2> QED
    BY <2>2, <2>3, IsTextOf
<1> HIDE DEF s
<1>11. s = Back(E)
  <2>1. \A j \in 1..Len(s) : s[j] = Back(E)[j]
    <3> TAKE j \in 1..Len(s)
    <3>1. 1 - 1 + j = j
      BY <1>5, <1>9
    <3>2. s[j] = Back(E)[1 - 1 + j]
      BY <1>9 DEF IsBack
    <3> QED
      BY <3>1, <3>2
  <2> QED
    BY <1>9, <1>10, <2>1, SameText DEF IsBack
<1> QED
  BY <1>6, <1>9, <1>11 DEF s, a

LEMMA RestIsRead ==
  ASSUME NEW E, IsParcel(E), NEW V, NEW a, SoundTar(E, V, a.blocks),
         NEW at, IsLayout(E, at), Remains(E, at, a.blocks), UnpackTar(a).ok
  PROVE  IsBack(E, 1, UnpackTar(a).entries)
<1>1. IsTar(a.blocks)
  BY SoundIsTar
<1>2. PICK read : /\ Reads(a.blocks, read)
                  /\ UnpackTar(a) = IF a.ragged \/ Len(a.blocks) = 0 THEN Refused ELSE read[1]
  BY <1>1, Unpacks
<1>3. UnpackTar(a) = read[1]
  BY <1>2 DEF Refused
<1> DEFINE blocks == a.blocks
<1>4. IsTar(blocks) /\ Remains(E, at, blocks) /\ Reads(blocks, read)
  BY <1>1, <1>2
<1> HIDE DEF blocks
<1>5. read[1].ok => IsBack(E, 1, read[1].entries)
  BY <1>4, WalkIs
<1> QED
  BY <1>3, <1>5

LEMMA SoundIsRead ==
  ASSUME NEW E, IsParcel(E), NEW V, NEW a, SoundTar(E, V, a.blocks), UnpackTar(a).ok
  PROVE  /\ IsText(UnpackTar(a).entries)
         /\ \A j \in 1..Len(UnpackTar(a).entries) :
              IsRead(E, a.blocks, UnpackTar(a).entries[j])
<1>1. IsTar(a.blocks)
  BY SoundIsTar
<1>2. PICK read : /\ Reads(a.blocks, read)
                  /\ UnpackTar(a) = IF a.ragged \/ Len(a.blocks) = 0 THEN Refused ELSE read[1]
  BY <1>1, Unpacks
<1>3. UnpackTar(a) = read[1] /\ ~a.ragged /\ Len(a.blocks) # 0
  BY <1>2 DEF Refused
<1> DEFINE blocks == a.blocks
<1>4. SoundTar(E, V, blocks) /\ Len(blocks) # 0 /\ Reads(blocks, read) /\ read[1].ok
  BY <1>2, <1>3
<1> HIDE DEF blocks
<1>5. /\ IsText(read[1].entries)
      /\ \A j \in 1..Len(read[1].entries) : IsRead(E, blocks, read[1].entries[j])
  BY <1>4, AllAreRead
<1> QED
  BY <1>3, <1>5 DEF blocks

-----------------------------------------------------------------------------
(* What is done to an archive *)

LEMMA HeaderFields ==
  ASSUME NEW h, IsHeader(h)
  PROVE  DOMAIN h = {"split", "size", "type", "adds"} /\ h.size \in Nat
BY DEF IsHeader

LEMMA HeaderBroken ==
  ASSUME NEW h, IsHeader(h) PROVE IsHeader(Broken(h)) /\ Broken(h).split = h.split
<1>1. PICK g : g = [h EXCEPT !.adds = FALSE]
  OBVIOUS
<1>2. DOMAIN h = {"split", "size", "type", "adds"} /\ h.size \in Nat
  BY HeaderFields
<1>3. g = [split |-> h.split, size |-> h.size, type |-> h.type, adds |-> FALSE]
  BY <1>1, <1>2
<1>4. IsHeader(g) /\ g.split = h.split
  BY <1>2, <1>3 DEF IsHeader
<1> QED
  BY <1>1, <1>4 DEF Broken

LEMMA HeaderRetyped ==
  ASSUME NEW h, IsHeader(h), NEW kind
  PROVE  /\ IsHeader([h EXCEPT !.type = kind, !.size = 0])
         /\ [h EXCEPT !.type = kind, !.size = 0].split = h.split
<1>1. PICK g : g = [h EXCEPT !.type = kind, !.size = 0]
  OBVIOUS
<1>2. DOMAIN h = {"split", "size", "type", "adds"}
  BY HeaderFields
<1>3. g = [split |-> h.split, size |-> 0, type |-> kind, adds |-> h.adds]
  BY <1>1, <1>2
<1>4. IsHeader(g) /\ g.split = h.split
  BY <1>3 DEF IsHeader
<1> QED
  BY <1>1, <1>4

LEMMA CutIsSound ==
  ASSUME NEW E, NEW V, NEW all, SoundTar(E, V, all), NEW m \in 0..Len(all)
  PROVE  /\ SoundTar(E, V, Front1(all, m))
         /\ \A at : Remains(E, at, all) /\ IsLayout(E, at) /\ IsParcel(E) =>
              Remains(E, at, Front1(all, m))
<1> DEFINE cut == Front1(all, m)
<1>1. IsText(all) /\ all \in Seq(ToSet(all)) /\ Len(all) \in Nat
  BY TextIs DEF SoundTar, IsText
<1>2. cut \in Seq(ToSet(all)) /\ Len(cut) = m /\ \A i \in 1..m : cut[i] = all[i]
  <2>1. m \in Nat /\ 0 + m <= Len(all) /\ 0 + 1 = 1 /\ 0 + m = m
    BY <1>1
  <2>2. IsSlice(SubSeq(all, 0 + 1, 0 + m), all, 0, m, ToSet(all))
    BY <1>1, <2>1, Sliced
  <2>3. IsSlice(cut, all, 0, m, ToSet(all))
    BY <2>1, <2>2 DEF Front1
  <2> HIDE DEF cut
  <2>4. \A i \in 1..m : 0 + i = i
    BY <2>1
  <2> QED
    BY <2>3, <2>4 DEF IsSlice
<1> HIDE DEF cut
<1>3. IsText(cut)
  BY <1>2, IsTextOf
<1>4. SoundTar(E, V, cut)
  <2>1. \A i \in 1..m : i \in 1..Len(all)
    BY <1>1
  <2> QED
    BY <1>2, <1>3, <2>1 DEF SoundTar
<1>5. ASSUME NEW at, Remains(E, at, all), IsLayout(E, at), IsParcel(E)
      PROVE  Remains(E, at, cut)
  <2>1. Len(E) \in Nat /\ \A k \in 1..(Len(E) + 1) : at[k] \in Nat /\ at[k] > 0
    BY <1>5 DEF IsLayout, IsParcel
  <2>2. ASSUME NEW k \in 1..(Len(E) + 1), at[k] <= m
        PROVE  at[k] <= Len(all) /\ cut[at[k]] = all[at[k]]
    BY <1>1, <1>2, <2>1, <2>2
  <2>3. ASSUME NEW k \in 1..Len(E), at[k] <= m, NEW j \in 1..PadOf(E, k), at[k] + j <= m
        PROVE  at[k] + j <= Len(all) /\ cut[at[k] + j] = all[at[k] + j]
    <3>1. PadOf(E, k) \in Nat /\ at[k] \in Nat
      BY <1>5, <2>1 DEF IsLayout
    <3>2. at[k] + j \in 1..m
      BY <2>3, <3>1
    <3> QED
      BY <1>1, <1>2, <3>2
  <2>4. \A k \in 1..Len(E) : k \in 1..(Len(E) + 1)
    BY <2>1
  <2>5. Len(E) + 1 \in 1..(Len(E) + 1)
    BY <2>1
  <2> QED
    BY <1>2, <1>5, <2>2, <2>3, <2>4, <2>5 DEF Remains
<1> QED
  BY <1>4, <1>5 DEF cut

LEMMA SmudgeIsSound ==
  ASSUME NEW E, NEW V, NEW all, SoundTar(E, V, all), NEW i \in 1..Len(all), all[i].head # {}
  PROVE  LET smudged == [all EXCEPT ![i] = HeadBlock(Broken(HeadOf(all, i)))]
         IN  /\ SoundTar(E, V, smudged)
             /\ \A at : Remains(E, at, all) /\ AllThere(E, at, all) /\ IsParcel(E)
                          /\ IsLayout(E, at) =>
                  Remains(E, at, smudged)
<1> DEFINE h == HeadOf(all, i)
           new == HeadBlock(Broken(h))
           smudged == [all EXCEPT ![i] = new]
<1>1. IsText(all) /\ Len(all) \in Nat /\ DOMAIN all = 1..Len(all)
  BY TextIs DEF SoundTar
<1>2. new.head = {Broken(h)} /\ new.data = {}
  BY DEF HeadBlock
<1>3. SoundBlock(E, V, new)
  <2>1. IsHead(E, all[i])
    BY DEF SoundTar, SoundBlock
  <2>2. PICK g : /\ all[i].head = {g} /\ IsHeader(g)
                 /\ \E k \in 1..Len(E) : g.split = SplitName(E[k].name)
    BY <2>1 DEF IsHead
  <2>3. h = g
    BY <2>2, HeadOfOne
  <2> HIDE DEF h, new
  <2>4. IsHeader(Broken(g)) /\ Broken(g).split = g.split
    BY <2>2, HeaderBroken
  <2>5. IsHead(E, new)
    BY <1>2, <2>2, <2>3, <2>4 DEF IsHead
  <2> QED
    BY <1>2, <2>5 DEF SoundBlock, HoldsOnly
<1> HIDE DEF new, h
<1>4. /\ IsText(smudged) /\ Len(smudged) = Len(all)
      /\ \A j \in 1..Len(all) : smudged[j] = IF j = i THEN new ELSE all[j]
  <2> DEFINE S == ToSet(all) \cup {new}
  <2>1. all \in Seq(S)
    BY <1>1 DEF IsText
  <2>2. smudged \in Seq(S) /\ Len(smudged) = Len(all)
    <3> HIDE DEF S
    <3>1. new \in S
      BY DEF S
    <3> QED
      BY <1>1, <2>1, <3>1
  <2>3. IsText(smudged)
    BY <2>2, IsTextOf
  <2> QED
    BY <1>1, <2>2, <2>3
<1> HIDE DEF smudged
<1>5. SoundTar(E, V, smudged)
  BY <1>3, <1>4 DEF SoundTar
<1>6. ASSUME NEW at, Remains(E, at, all), AllThere(E, at, all), IsParcel(E), IsLayout(E, at)
      PROVE  Remains(E, at, smudged)
  <2>1. /\ Len(E) \in Nat /\ \A k \in 1..(Len(E) + 1) : at[k] \in Nat /\ at[k] > 0
        /\ \A k \in 1..Len(E) : PadOf(E, k) \in Nat
    <3>1. Len(E) \in Nat
      BY <1>6, TextIs DEF IsParcel, IsText
    <3>2. \A k \in 1..(Len(E) + 1) : at[k] \in Nat /\ at[k] > 0
      BY <1>6 DEF IsLayout
    <3>3. \A k \in 1..Len(E) : PadOf(E, k) \in Nat
      BY <1>6 DEF IsLayout
    <3> QED
      BY <3>1, <3>2, <3>3
  <2>2. ASSUME NEW k \in 1..Len(E), at[k] <= Len(all)
        PROVE  \E g \in {Header(E[k]), Broken(Header(E[k]))} : smudged[at[k]].head = {g}
    <3>1. all[at[k]].head = {Header(E[k])} /\ at[k] \in 1..Len(all)
      BY <1>6, <2>1, <2>2 DEF AllThere
    <3>2. CASE at[k] = i
      <4>1. h = Header(E[k])
        BY <3>1, <3>2, HeadOfOne DEF h
      <4> QED
        BY <1>2, <1>4, <3>2, <4>1
    <3>3. CASE at[k] # i
      BY <1>4, <3>1, <3>3
    <3> QED
      BY <3>2, <3>3
  <2>3. ASSUME NEW k \in 1..Len(E), at[k] <= Len(all), NEW j \in 1..PadOf(E, k),
               at[k] + j <= Len(all)
        PROVE  smudged[at[k] + j] = E[k].bytes.blocks[j]
    <3>1. all[at[k] + j] = E[k].bytes.blocks[j] /\ at[k] + j \in 1..Len(all)
      <4>1. at[k] \in Nat /\ at[k] > 0 /\ PadOf(E, k) \in Nat
        BY <2>1
      <4> QED
        BY <1>6, <2>3, <4>1 DEF Remains
    <3>2. E[k].bytes.blocks[j].head = {}
      <4>1. IsBytes(E[k].bytes)
        BY <1>6 DEF IsParcel, IsEntry, ToSet
      <4>2. j \in DOMAIN E[k].bytes.blocks
        BY <4>1 DEF IsBytes, PadOf
      <4> QED
        BY <4>1, <4>2 DEF IsBytes, ToSet
    <3> QED
      BY <1>4, <3>1, <3>2
  <2>4. at[Len(E) + 1] <= Len(all) => smudged[at[Len(E) + 1]] = ZeroBlock
    <3>1. Len(E) + 1 \in 1..(Len(E) + 1) /\ ZeroBlock.head = {}
      BY <2>1 DEF ZeroBlock
    <3> QED
      BY <1>1, <1>4, <1>6, <2>1, <3>1 DEF Remains
  <2> QED
    BY <1>4, <2>2, <2>3, <2>4 DEF Remains
<1> QED
  BY <1>5, <1>6 DEF smudged, new, h

LEMMA RepackIsSound ==
  ASSUME NEW E, NEW V, NEW all, SoundTar(E, V, all), NEW i \in 1..Len(all), all[i].head # {},
         NEW type
  PROVE  SoundTar(E, V, Front1(all, i - 1)
                          \o <<HeadBlock([HeadOf(all, i) EXCEPT !.type = type, !.size = 0])>>
                          \o Rest(all, i - 1))
<1> DEFINE h == HeadOf(all, i)
           g == [h EXCEPT !.type = type, !.size = 0]
           new == HeadBlock(g)
           a == Front1(all, i - 1)
           b == <<new>>
           c == Rest(all, i - 1)
           S == {new} \cup ToSet(all)
<1>1. IsText(all) /\ Len(all) \in Nat /\ all \in Seq(S)
  BY TextIs DEF SoundTar, IsText
<1>2. SoundBlock(E, V, new)
  <2>1. IsHead(E, all[i])
    BY DEF SoundTar, SoundBlock
  <2>2. PICK f : /\ all[i].head = {f} /\ IsHeader(f)
                 /\ \E k \in 1..Len(E) : f.split = SplitName(E[k].name)
    BY <2>1 DEF IsHead
  <2>3. h = f
    BY <2>2, HeadOfOne
  <2> HIDE DEF h
  <2>4. IsHeader(g) /\ g.split = f.split
    BY <2>2, <2>3, HeaderRetyped
  <2> HIDE DEF g
  <2>5. new.head = {g} /\ new.data = {}
    BY DEF HeadBlock
  <2> HIDE DEF new
  <2>6. IsHead(E, new)
    BY <2>2, <2>4, <2>5 DEF IsHead
  <2> QED
    BY <2>5, <2>6 DEF SoundBlock, HoldsOnly
<1> HIDE DEF new
<1>3. new \in S
  OBVIOUS
<1> HIDE DEF S
<1>4. a \in Seq(S) /\ Len(a) = i - 1 /\ \A j \in 1..(i - 1) : a[j] = all[j]
  <2>1. i - 1 \in Nat /\ 0 + (i - 1) <= Len(all) /\ 0 + 1 = 1 /\ 0 + (i - 1) = i - 1
    BY <1>1
  <2>2. IsSlice(SubSeq(all, 0 + 1, 0 + (i - 1)), all, 0, i - 1, S)
    BY <1>1, <2>1, Sliced
  <2>3. IsSlice(a, all, 0, i - 1, S)
    BY <2>1, <2>2 DEF Front1
  <2> HIDE DEF a
  <2>4. \A j \in 1..(i - 1) : 0 + j = j
    BY <2>1
  <2> QED
    BY <2>3, <2>4 DEF IsSlice
<1>5. /\ c \in Seq(S) /\ Len(c) = Len(all) - (i - 1)
      /\ \A j \in 1..(Len(all) - (i - 1)) : c[j] = all[(i - 1) + j]
  <2> DEFINE n == Len(all) - (i - 1)
  <2>1. i - 1 \in Nat /\ n \in Nat /\ (i - 1) + n <= Len(all) /\ (i - 1) + n = Len(all)
    BY <1>1
  <2> HIDE DEF n
  <2>2. IsSlice(SubSeq(all, (i - 1) + 1, (i - 1) + n), all, i - 1, n, S)
    BY <1>1, <2>1, Sliced
  <2>3. IsSlice(c, all, i - 1, n, S)
    BY <2>1, <2>2 DEF Rest
  <2> HIDE DEF c
  <2> QED
    BY <2>3 DEF IsSlice, n
<1>6. b \in Seq(S) /\ Len(b) = 1 /\ b[1] = new
  BY <1>3
<1> HIDE DEF a, b, c
<1>7. IsJoin(a \o b, a, b, S)
  BY <1>4, <1>6, Joined
<1> DEFINE ab == a \o b
<1>8. /\ ab \in Seq(S) /\ Len(ab) = i
      /\ \A j \in 1..i : ab[j] = IF j = i THEN new ELSE all[j]
  <2> HIDE DEF ab
  <2>1. IsJoin(ab, a, b, S)
    BY <1>7 DEF ab
  <2>2. ASSUME NEW j \in 1..i PROVE ab[j] = IF j = i THEN new ELSE all[j]
    <3>1. CASE j = i
      <4>1. 1 \in 1..Len(b) /\ Len(a) + 1 = j
        BY <1>1, <1>4, <1>6, <3>1
      <4> QED
        BY <1>6, <2>1, <3>1, <4>1 DEF IsJoin
    <3>2. CASE j # i
      <4>1. j \in 1..(i - 1)
        BY <3>2
      <4> QED
        BY <1>4, <2>1, <3>2, <4>1 DEF IsJoin
    <3> QED
      BY <3>1, <3>2
  <2> QED
    BY <1>1, <1>4, <1>6, <2>1, <2>2 DEF IsJoin
<1> HIDE DEF ab
<1>9. IsJoin(ab \o c, ab, c, S)
  BY <1>5, <1>8, Joined
<1> DEFINE d == ab \o c
<1>10. IsText(d)
  BY <1>9, IsTextOf DEF IsJoin
<1>11. ASSUME NEW j \in 1..Len(d) PROVE SoundBlock(E, V, d[j])
  <2> HIDE DEF d
  <2>1. IsJoin(d, ab, c, S)
    BY <1>9 DEF d
  <2>2. CASE j \in 1..i
    <3>1. d[j] = ab[j]
      BY <1>8, <2>1, <2>2 DEF IsJoin
    <3> QED
      BY <1>1, <1>2, <1>8, <2>2, <3>1 DEF SoundTar
  <2>3. CASE j \notin 1..i
    <3>1. /\ j - i \in 1..(Len(all) - (i - 1)) /\ i + (j - i) = j
      BY <1>1, <1>5, <1>8, <2>1, <2>3 DEF IsJoin
    <3>2. d[j] = c[j - i]
      BY <1>5, <1>8, <2>1, <3>1 DEF IsJoin
    <3>3. c[j - i] = all[(i - 1) + (j - i)] /\ (i - 1) + (j - i) \in 1..Len(all)
      BY <1>1, <1>5, <3>1
    <3> QED
      BY <3>2, <3>3 DEF SoundTar
  <2> QED
    BY <2>2, <2>3
<1>12. SoundTar(E, V, d)
  <2> HIDE DEF d
  <2> QED
    BY <1>10, <1>11 DEF SoundTar
<1> QED
  BY <1>12 DEF a, b, c, ab, d, new, g, h

-----------------------------------------------------------------------------
(* What an export packs *)

(* Rows listed in the order of their ids are listed in one way only.        *)
LEMMA OneOrder ==
  ASSUME NEW s, NEW t, IsText(s), IsText(t), Len(s) = Len(t), ToSet(s) = ToSet(t),
         Ascending(s), Ascending(t), \A l \in ToSet(s) : l.id \in Nat
  PROVE  s = t
<1> DEFINE n == Len(s)
           B == {i \in 1..n : s[i] # t[i]}
<1>1. /\ n \in Nat /\ DOMAIN s = 1..n /\ DOMAIN t = 1..n
      /\ \A i \in 1..n : s[i] \in ToSet(s) /\ t[i] \in ToSet(s)
      /\ \A l \in ToSet(s) : (\E i \in 1..n : l = s[i]) /\ (\E i \in 1..n : l = t[i])
  BY TextIs DEF ToSet
<1>2. \A i, j \in 1..n : i < j => s[i].id < s[j].id /\ t[i].id < t[j].id
  BY <1>1 DEF Ascending
<1>3. ASSUME B # {} PROVE FALSE
  <2>1. PICK i \in B : \A j \in B : i <= j
    <3>1. B \in SUBSET Nat
      BY <1>1
    <3> HIDE DEF B
    <3> QED
      BY <1>3, <3>1, Lowest
  <2>2. \A j \in 1..n : j < i => s[j] = t[j]
    BY <2>1
  <2>3. i \in 1..n /\ s[i] # t[i]
    BY <2>1
  <2>4. s[i].id \in Nat /\ t[i].id \in Nat
    BY <1>1, <2>3
  <2>5. t[i].id < s[i].id
    <3>1. PICK j \in 1..n : s[i] = t[j]
      BY <1>1, <2>3
    <3>2. ~(j < i)
      BY <1>2, <2>2, <2>3, <2>4, <3>1
    <3>3. i < j
      BY <1>1, <2>3, <3>1, <3>2
    <3> QED
      BY <1>2, <2>3, <3>1, <3>3
  <2>6. s[i].id < t[i].id
    <3>1. PICK j \in 1..n : t[i] = s[j]
      BY <1>1, <2>3
    <3>2. ~(j < i)
      BY <1>2, <2>2, <2>3, <2>4, <3>1
    <3>3. i < j
      BY <1>1, <2>3, <3>1, <3>2
    <3> QED
      BY <1>2, <2>3, <3>1, <3>3
  <2> QED
    BY <2>4, <2>5, <2>6
<1>4. \A i \in 1..n : s[i] = t[i]
  BY <1>3
<1> QED
  BY <1>4, SameText

LEMMA RowsAre ==
  ASSUME NEW d \in Installs
  PROVE  /\ d = [accounts |-> d.accounts, payouts |-> d.payouts, legs |-> d.legs,
                 fees |-> d.fees, schedules |-> d.schedules, docs |-> d.docs,
                 links |-> d.links]
         /\ IsText(d.legs) /\ Ascending(d.legs) /\ (\A l \in ToSet(d.legs) : l.id \in Nat)
         /\ Resolves(d) /\ Constructs(d) /\ IsFiniteSet(d.docs)
<1>1. \A l \in ToSet(d.legs) : l.id \in LegIds(d)
  BY DEF LegIds, Legs, ToSet
<1> QED
  BY <1>1, InstallsAssumption DEF IsText, Resolves

LEMMA SnapshotIsIt ==
  ASSUME NEW d \in Installs PROVE Snapshot(d) = d
<1> DEFINE legs == d.legs
           n == Len(legs)
           Fits(s) == Ascending(s) /\ ToSet(s) = ToSet(legs)
           s == InOrder(legs)
<1>1. IsText(legs) /\ Ascending(legs) /\ \A l \in ToSet(legs) : l.id \in Nat
  BY RowsAre
<1>2. n \in Nat /\ legs = [i \in 1..n |-> legs[i]] /\ \A i \in 1..n : legs[i] \in ToSet(legs)
  BY <1>1, TextIs
<1>3. legs \in [1..n -> ToSet(legs)] /\ Fits(legs)
  BY <1>1, <1>2
<1>4. s = CHOOSE q \in [1..n -> ToSet(legs)] : Fits(q)
  BY DEF InOrder
<1> HIDE DEF Fits, s, legs
<1>5. s \in [1..n -> ToSet(legs)] /\ Fits(s)
  BY <1>3, <1>4
<1>6. s \in Seq(ToSet(legs)) /\ Len(s) = n
  BY <1>2, <1>5
<1>7. IsText(s)
  BY <1>6, IsTextOf
<1>8. s = legs
  BY <1>1, <1>5, <1>6, <1>7, OneOrder DEF Fits
<1>9. PICK e : e = [d EXCEPT !.legs = s]
  OBVIOUS
<1>10. DOMAIN d = {"accounts", "payouts", "legs", "fees", "schedules", "docs", "links"}
       /\ d = [i \in DOMAIN d |-> d[i]]
  BY RowsAre
<1>11. e = d
  <2>1. DOMAIN e = DOMAIN d /\ e = [i \in DOMAIN d |-> e[i]]
    BY <1>9
  <2>2. ASSUME NEW i \in DOMAIN d PROVE e[i] = d[i]
    BY <1>8, <1>9, <1>10 DEF legs
  <2> QED
    BY <1>10, <2>1, <2>2
<1> QED
  BY <1>9, <1>11 DEF Snapshot, s, legs

(* SetToSeq lists every member of a finite set. *)
LEMMA ListsAll ==
  ASSUME NEW S, IsFiniteSet(S)
  PROVE  IsText(SetToSeq(S)) /\ ToSet(SetToSeq(S)) = S /\ SetToSeq(S) \in Seq(S)
<1> DEFINE n == Cardinality(S)
           f == SetToSeq(S)
<1>1. n \in Nat /\ ExistsBijection(1..n, S)
  BY FS_CardinalityType
<1>2. PICK g : g \in Bijection(1..n, S)
  BY <1>1 DEF ExistsBijection
<1>3. g \in [1..n -> S] /\ IsInjective(g)
  BY <1>2 DEF Bijection, Injection, Surjection
<1>4. f = CHOOSE h \in [1..n -> S] : IsInjective(h)
  BY DEF SetToSeq
<1> HIDE DEF f
<1>5. f \in [1..n -> S] /\ IsInjective(f)
  BY <1>3, <1>4
<1>6. f \in Injection(1..n, S)
  BY <1>5 DEF Injection
<1>7. IsFiniteSet(1..n) /\ Cardinality(1..n) = n
  BY <1>1, FS_Interval
<1> HIDE DEF n
<1>8. f \in Surjection(1..n, S)
  <2>1. Cardinality(1..n) = Cardinality(S) <=> f \in Surjection(1..n, S)
    BY <1>6, FS_Injection
  <2> QED
    BY <1>7, <2>1 DEF n
<1>9. \A x \in S : \E i \in 1..n : f[i] = x
  BY <1>8 DEF Surjection
<1>10. f \in Seq(S)
  BY <1>1, <1>5
<1>11. ToSet(f) = S
  BY <1>5, <1>9 DEF ToSet
<1> QED
  BY <1>10, <1>11, IsTextOf DEF f

DocEntry(x, f) == [name |-> EntryName(x.path), bytes |-> f[x.path]]

LEMMA DocEntriesAre ==
  ASSUME NEW d \in Installs, NEW f
  PROVE  LET s == DocEntries(d, f)
         IN  /\ IsText(s)
             /\ \A k \in 1..Len(s) : \E x \in Included(d, f) : s[k] = DocEntry(x, f)
             /\ \A x \in Included(d, f) : \E k \in 1..Len(s) : s[k] = DocEntry(x, f)
<1> DEFINE I == Included(d, f)
           S == {DocEntry(x, f) : x \in I}
           map == [x \in I |-> DocEntry(x, f)]
           s == SetToSeq(S)
<1>1. IsFiniteSet(I)
  <2>1. I \subseteq d.docs /\ IsFiniteSet(d.docs)
    BY RowsAre DEF Included
  <2> QED
    BY <2>1, FS_Subset
<1>2. DocEntries(d, f) = s
  BY DEF DocEntries, DocEntry
<1>3. map \in Surjection(I, S)
  BY DEF Surjection
<1> HIDE DEF I, map
<1>4. IsFiniteSet(S)
  <2> HIDE DEF S
  <2> QED
    BY <1>1, <1>3, FS_Surjection
<1> HIDE DEF S
<1>5. IsText(s) /\ ToSet(s) = S
  BY <1>4, ListsAll
<1> HIDE DEF s
<1>6. DOMAIN s = 1..Len(s)
  BY <1>5, TextIs
<1>7. \A k \in 1..Len(s) : \E x \in I : s[k] = DocEntry(x, f)
  BY <1>5, <1>6 DEF S, ToSet
<1>8. \A x \in I : \E k \in 1..Len(s) : s[k] = DocEntry(x, f)
  BY <1>5, <1>6 DEF S, ToSet
<1> QED
  BY <1>2, <1>5, <1>7, <1>8 DEF I

(* The manifest, the rows, and each document that has its bytes. *)
IsLetter(E, d, f) ==
  /\ IsText(E) /\ Len(E) >= 2
  /\ \E included, missing :
       E[1] = [name |-> NameOf("manifest.json"), bytes |-> Json(Manifest(included, missing))]
  /\ E[2] = [name |-> NameOf("ledger.json"), bytes |-> Json(d)]
  /\ \A k \in 3..Len(E) : \E x \in Included(d, f) : E[k] = DocEntry(x, f)
  /\ \A x \in Included(d, f) : \E k \in 3..Len(E) : E[k] = DocEntry(x, f)

LEMMA EntriesAreALetter ==
  ASSUME NEW d \in Installs, NEW f
  PROVE  IsLetter(Entries(d, f), d, f)
<1> DEFINE m == Manifest(Cardinality(Included(d, f)), Cardinality(d.docs \ Included(d, f)))
           a == [name |-> NameOf("manifest.json"), bytes |-> Json(m)]
           b == [name |-> NameOf("ledger.json"), bytes |-> Json(d)]
           h == <<a, b>>
           s == DocEntries(d, f)
           S == {a, b} \cup ToSet(s)
           E == Entries(d, f)
<1>1. /\ IsText(s)
      /\ \A k \in 1..Len(s) : \E x \in Included(d, f) : s[k] = DocEntry(x, f)
      /\ \A x \in Included(d, f) : \E k \in 1..Len(s) : s[k] = DocEntry(x, f)
  BY DocEntriesAre
<1>2. E = h \o s
  BY SnapshotIsIt DEF Entries, ToDump
<1>3. \E included, missing :
        a = [name |-> NameOf("manifest.json"), bytes |-> Json(Manifest(included, missing))]
  OBVIOUS
<1> HIDE DEF a, m
<1>4. h \in Seq(S) /\ s \in Seq(S) /\ Len(h) = 2 /\ h[1] = a /\ h[2] = b
  <2>1. s \in Seq(ToSet(s))
    BY <1>1 DEF IsText
  <2> HIDE DEF b, s
  <2> QED
    BY <2>1
<1> HIDE DEF h, s, S, b, E
<1>5. IsJoin(E, h, s, S)
  BY <1>2, <1>4, Joined
<1>6. IsText(E) /\ Len(s) \in Nat
  BY <1>1, <1>5, IsTextOf, TextIs DEF IsJoin
<1>7. Len(E) = 2 + Len(s) /\ E[1] = a /\ E[2] = b
  BY <1>4, <1>5 DEF IsJoin
<1>8. \A k \in 1..Len(s) : E[2 + k] = s[k]
  BY <1>4, <1>5 DEF IsJoin
<1>9. \A k \in 3..Len(E) : \E x \in Included(d, f) : E[k] = DocEntry(x, f)
  <2> TAKE k \in 3..Len(E)
  <2>1. k - 2 \in 1..Len(s) /\ 2 + (k - 2) = k
    BY <1>6, <1>7
  <2> QED
    BY <1>1, <1>8, <2>1
<1>10. \A x \in Included(d, f) : \E k \in 3..Len(E) : E[k] = DocEntry(x, f)
  <2> TAKE x \in Included(d, f)
  <2>1. PICK k \in 1..Len(s) : s[k] = DocEntry(x, f)
    BY <1>1
  <2>2. 2 + k \in 3..Len(E)
    BY <1>6, <1>7
  <2> QED
    BY <1>8, <2>1, <2>2
<1>11. IsLetter(E, d, f)
  BY <1>3, <1>6, <1>7, <1>9, <1>10 DEF IsLetter, b
<1> QED
  BY <1>11 DEF E

(* Only the bytes of a ledger's own documents are packed. *)
OwnFiles(d, f) == \A p \in DOMAIN f : \E x \in d.docs : x.path = p /\ f[p] \in x.sha

LEMMA SameEntries ==
  ASSUME NEW d, NEW f, NEW g, DOMAIN g = {x.path : x \in Included(d, f)},
         \A p \in DOMAIN g : g[p] = f[p]
  PROVE  Entries(d, g) = Entries(d, f)
<1>1. Included(d, g) = Included(d, f)
  BY DEF Included
<1>2. \A x \in Included(d, f) : g[x.path] = f[x.path]
  OBVIOUS
<1>3. {[name |-> EntryName(x.path), bytes |-> g[x.path]] : x \in Included(d, f)}
      = {[name |-> EntryName(x.path), bytes |-> f[x.path]] : x \in Included(d, f)}
  BY <1>2
<1>4. DocEntries(d, g) = DocEntries(d, f)
  BY <1>1, <1>3 DEF DocEntries
<1> QED
  BY <1>1, <1>4, Zenon DEF Entries

LEMMA DocIs ==
  ASSUME NEW d \in Installs, NEW x \in d.docs
  PROVE  /\ IsPath(x.path)
         /\ \A b, c \in x.sha : IsDocument(b) /\ b = c
BY DocsAssumption DEF IsPath, IsText, IsSegment

LEMMA SameDoc ==
  ASSUME NEW d \in Installs, NEW e \in Installs, NEW x \in d.docs, NEW y \in e.docs,
         ReadText(x.path) = ReadText(y.path)
  PROVE  x.sha = y.sha /\ (d = e => x = y)
BY DocsAssumption

LEMMA IncludedIs ==
  ASSUME NEW d \in Installs, NEW f, OwnFiles(d, f), NEW x \in Included(d, f)
  PROVE  x \in d.docs /\ x.path \in DOMAIN f /\ f[x.path] \in x.sha
<1>1. x \in d.docs /\ x.path \in DOMAIN f
  BY DEF Included
<1>2. PICK y \in d.docs : y.path = x.path /\ f[x.path] \in y.sha
  BY <1>1 DEF OwnFiles
<1>3. x = y
  BY <1>1, <1>2, SameDoc
<1> QED
  BY <1>1, <1>2, <1>3

LEMMA JsonIs ==
  ASSUME NEW v
  PROVE  /\ IsBytes(Json(v)) /\ Json(v).blocks # <<>> /\ Json(v).blocks[1] = DataBlock(v, 1)
         /\ \A b \in ToSet(Json(v).blocks) : \E part : b = DataBlock(v, part)
<1> DEFINE n == Padded(700)
           blocks == [p \in 1..n |-> DataBlock(v, p)]
           S == {DataBlock(v, p) : p \in 1..n}
<1>1. n = 2
  BY DEF Padded, Block
<1>2. Json(v) = [size |-> 700, blocks |-> blocks]
  BY DEF Json, Content
<1>3. \A p \in 1..n : DataBlock(v, p) \in S
  OBVIOUS
<1> HIDE DEF S, n
<1>4. blocks \in Seq(S) /\ Len(blocks) = n
  BY <1>1, <1>3
<1>5. blocks[1] = DataBlock(v, 1)
  BY <1>1
<1>6. \A b \in ToSet(blocks) : \E part : b = DataBlock(v, part)
  BY DEF ToSet
<1> HIDE DEF blocks
<1>7. IsText(blocks)
  BY <1>4, IsTextOf
<1>8. \A b \in ToSet(blocks) : b.head = {}
  BY <1>6 DEF DataBlock
<1>9. IsBytes(Json(v))
  BY <1>2, <1>4, <1>7, <1>8 DEF IsBytes, IsText, n
<1>10. Len(blocks) = 2
  BY <1>1, <1>4
<1>11. blocks # <<>>
  BY <1>10
<1> QED
  BY <1>2, <1>5, <1>6, <1>9, <1>11

LEMMA JsonHolds ==
  ASSUME NEW v, NEW V, "legs" \in DOMAIN v => v \in V
  PROVE  \A b \in ToSet(Json(v).blocks) : HoldsOnly(V, b)
<1> TAKE b \in ToSet(Json(v).blocks)
<1>1. PICK part : b = DataBlock(v, part)
  BY JsonIs
<1>2. b.data = {<<v, part>>} /\ <<v, part>>[1] = v
  BY <1>1 DEF DataBlock
<1> QED
  BY <1>2 DEF HoldsOnly

LEMMA DocumentHolds ==
  ASSUME NEW b, IsDocument(b), NEW V
  PROVE  IsBytes(b) /\ \A x \in ToSet(b.blocks) : HoldsOnly(V, x)
BY DEF IsDocument, IsBytes, HoldsOnly

LEMMA ManifestIs ==
  ASSUME NEW included, NEW missing
  PROVE  LET m == Manifest(included, missing)
         IN  /\ "legs" \notin DOMAIN m /\ "format" \in DOMAIN m /\ m.version = 1
             /\ "legs" \notin DOMAIN [m EXCEPT !.version = 2]
<1> DEFINE m == Manifest(included, missing)
<1>1. DOMAIN m = {"format", "version", "included", "missing"} /\ m.version = 1
  BY DEF Manifest
<1> HIDE DEF m
<1>2. DOMAIN [m EXCEPT !.version = 2] = DOMAIN m
  OBVIOUS
<1> QED
  BY <1>1, <1>2 DEF m

LEMMA LetterIsParcel ==
  ASSUME NEW d \in Installs, NEW f, OwnFiles(d, f), NEW E, IsLetter(E, d, f), Packable(E)
  PROVE  /\ IsParcel(E)
         /\ \A e \in ToSet(E) : \A b \in ToSet(e.bytes.blocks) : HoldsOnly({d}, b)
<1>1. IsText(E) /\ Len(E) \in Nat /\ Len(E) >= 2 /\ DOMAIN E = 1..Len(E)
  BY TextIs DEF IsLetter
<1>2. ASSUME NEW k \in 1..Len(E)
      PROVE  /\ E[k] = [name |-> E[k].name, bytes |-> E[k].bytes]
             /\ IsText(E[k].name) /\ IsBytes(E[k].bytes)
             /\ \A b \in ToSet(E[k].bytes.blocks) : HoldsOnly({d}, b)
  <2>1. CASE k = 1
    <3>1. PICK included, missing :
            E[1] = [name |-> NameOf("manifest.json"), bytes |-> Json(Manifest(included, missing))]
      BY DEF IsLetter
    <3>2. "legs" \notin DOMAIN Manifest(included, missing)
      BY ManifestIs
    <3>3. \A b \in ToSet(Json(Manifest(included, missing)).blocks) : HoldsOnly({d}, b)
      BY <3>2, JsonHolds
    <3> DEFINE n == NameOf("manifest.json")
               b == Json(Manifest(included, missing))
    <3>4. IsText(n) /\ IsBytes(b)
      BY NameOfIs, JsonIs
    <3>5. E[k] = [name |-> n, bytes |-> b] /\ \A x \in ToSet(b.blocks) : HoldsOnly({d}, x)
      BY <2>1, <3>1, <3>3
    <3> HIDE DEF n, b
    <3> QED
      BY <3>4, <3>5
  <2>2. CASE k = 2
    <3>1. E[2] = [name |-> NameOf("ledger.json"), bytes |-> Json(d)]
      BY DEF IsLetter
    <3>2. \A b \in ToSet(Json(d).blocks) : HoldsOnly({d}, b)
      BY JsonHolds
    <3> DEFINE n == NameOf("ledger.json")
               b == Json(d)
    <3>4. IsText(n) /\ IsBytes(b)
      BY NameOfIs, JsonIs
    <3>5. E[k] = [name |-> n, bytes |-> b] /\ \A x \in ToSet(b.blocks) : HoldsOnly({d}, x)
      BY <2>2, <3>1, <3>2
    <3> HIDE DEF n, b
    <3> QED
      BY <3>4, <3>5
  <2>3. CASE k # 1 /\ k # 2
    <3>1. PICK x \in Included(d, f) : E[k] = DocEntry(x, f)
      BY <1>1, <2>3 DEF IsLetter
    <3>2. x \in d.docs /\ f[x.path] \in x.sha
      BY IncludedIs
    <3>3. IsText(x.path) /\ IsDocument(f[x.path])
      BY <3>2, DocIs DEF IsPath
    <3>4. IsBytes(f[x.path]) /\ \A b \in ToSet(f[x.path].blocks) : HoldsOnly({d}, b)
      BY <3>3, DocumentHolds
    <3>5. IsText(EntryName(x.path))
      BY <3>3, EntryNameIs
    <3> DEFINE n == EntryName(x.path)
               b == f[x.path]
    <3>6. IsText(n) /\ IsBytes(b)
      BY <3>4, <3>5
    <3>7. E[k] = [name |-> n, bytes |-> b] /\ \A y \in ToSet(b.blocks) : HoldsOnly({d}, y)
      BY <3>1, <3>4 DEF DocEntry
    <3> HIDE DEF n, b
    <3>8. E[k].name = n /\ E[k].bytes = b
      BY <3>7
    <3>9. E[k] = [name |-> E[k].name, bytes |-> E[k].bytes]
      BY <3>7
    <3> QED
      BY <3>6, <3>7, <3>8, <3>9
  <2> QED
    BY <2>1, <2>2, <2>3
<1>3. \A e \in ToSet(E) : \E k \in 1..Len(E) : e = E[k]
  BY <1>1 DEF ToSet
<1>4. \A k \in 1..Len(E) : NameFits(E[k].name)
  BY <1>1 DEF Packable
<1>5. E # <<>>
  BY <1>1
<1>6. IsParcel(E)
  BY <1>1, <1>2, <1>3, <1>4, <1>5 DEF IsParcel, IsEntry, IsText
<1> QED
  BY <1>2, <1>3, <1>6

-----------------------------------------------------------------------------
(* What an import finds in an archive *)

LEMMA MaxOfSome ==
  ASSUME NEW n \in Nat, NEW T, T \subseteq 1..n, T # {} PROVE Max(T) \in T
<1> DEFINE U == {n - x : x \in T}
<1>1. U \in SUBSET Nat /\ U # {}
  <2>1. PICK z \in T : TRUE
    OBVIOUS
  <2>2. n - z \in U
    BY <2>1
  <2>3. \A x \in T : n - x \in Nat
    OBVIOUS
  <2> QED
    BY <2>2, <2>3
<1>2. PICK u \in U : \A y \in U : u <= y
  <2> HIDE DEF U
  <2> QED
    BY <1>1, Lowest
<1>3. PICK x \in T : u = n - x
  BY <1>2
<1>4. \A y \in T : x >= y
  <2> TAKE y \in T
  <2>1. n - y \in U
    OBVIOUS
  <2>2. n - x <= n - y
    BY <1>2, <1>3, <2>1
  <2>3. x \in 1..n /\ y \in 1..n
    BY <1>3
  <2> QED
    BY <2>2, <2>3
<1> QED
  BY <1>4 DEF Max

(* A name is looked up in an entry that carries it. *)
LEMMA BytesAreNamed ==
  ASSUME NEW entries, IsText(entries), NEW name, Named(entries, name) # {}
  PROVE  \E j \in 1..Len(entries) :
           entries[j].name = name /\ Bytes(entries, name) = entries[j].bytes
<1>1. Len(entries) \in Nat /\ DOMAIN entries = 1..Len(entries)
  BY TextIs
<1>2. Named(entries, name) \subseteq 1..Len(entries)
  BY <1>1 DEF Named
<1>3. Max(Named(entries, name)) \in Named(entries, name)
  BY <1>1, <1>2, MaxOfSome
<1> QED
  BY <1>1, <1>3 DEF Named, Bytes

(* A value is parsed from its own JSON, and from nothing else. *)
LEMMA JsonParses ==
  ASSUME NEW v, NEW field
  PROVE  Parsed(Json(v), field) = IF field \in DOMAIN v THEN {v} ELSE {}
<1>1. Json(v).blocks # <<>> /\ Json(v).blocks[1].data = {<<v, 1>>}
  <2>1. Json(v).blocks # <<>> /\ Json(v).blocks[1] = DataBlock(v, 1)
    BY JsonIs
  <2>2. DataBlock(v, 1).data = {<<v, 1>>}
    BY DEF DataBlock
  <2> QED
    BY <2>1, <2>2
<1>2. (CHOOSE x \in {<<v, 1>>} : TRUE)[1] = v
  <2>1. (CHOOSE x \in {<<v, 1>>} : TRUE) = <<v, 1>>
    OBVIOUS
  <2> QED
    BY <2>1
<1> QED
  BY <1>1, <1>2 DEF Parsed

LEMMA ParsedIsHeld ==
  ASSUME NEW V, NEW bytes, bytes.blocks # <<>> => HoldsOnly(V, bytes.blocks[1]),
         NEW v \in Parsed(bytes, "legs")
  PROVE  v \in V
<1>1. bytes.blocks # <<>> /\ bytes.blocks[1].data # {}
  BY DEF Parsed
<1> DEFINE x == CHOOSE y \in bytes.blocks[1].data : TRUE
<1>2. x \in bytes.blocks[1].data
  BY <1>1
<1>3. "legs" \in DOMAIN x[1] /\ v = x[1]
  BY DEF Parsed
<1> HIDE DEF x
<1> QED
  BY <1>1, <1>2, <1>3 DEF HoldsOnly

(* The names of an export: one for each document, which no other has. *)
LEMMA NamesAreApart ==
  /\ NameOf("manifest.json") # NameOf("ledger.json")
  /\ \A p, file : IsPath(p) => EntryName(p) # NameOf(file)
<1>1. \A file : NameOf(file)[1].text = file
  BY DEF NameOf
<1>2. ASSUME NEW p, NEW file, IsPath(p) PROVE EntryName(p) # NameOf(file)
  <2>1. IsText(p) /\ p # <<>>
    BY <1>2 DEF IsPath
  <2>2. Len(p) \in Nat /\ Len(p) # 0
    BY <2>1 DEF IsText
  <2>3. Len(EntryName(p)) = 1 + Len(p)
    BY <2>1, EntryNameIs
  <2>4. Len(NameOf(file)) = 1
    BY NameOfIs
  <2>5. Len(EntryName(p)) # Len(NameOf(file))
    BY <2>2, <2>3, <2>4
  <2> QED
    BY <2>5
<1> QED
  BY <1>1, <1>2

(* The name of an entry of a document, as it is read. *)
LEMMA DocNameRead ==
  ASSUME NEW d \in Installs, NEW x \in d.docs
  PROVE  /\ IsPath(x.path) /\ IsText(ReadText(x.path))
         /\ ReadText(EntryName(x.path)) = EntryName(ReadText(x.path))
         /\ \A file : ReadText(EntryName(x.path)) # NameOf(file)
<1>1. IsPath(x.path)
  BY DocIs
<1>2. IsText(x.path) /\ x.path # <<>>
  BY <1>1 DEF IsPath
<1>3. IsText(ReadText(x.path)) /\ Len(ReadText(x.path)) = Len(x.path)
  BY <1>2, ReadTextIs
<1>4. ReadText(EntryName(x.path)) = EntryName(ReadText(x.path))
  BY <1>1, EntryNameRead
<1>5. Len(EntryName(ReadText(x.path))) = 1 + Len(x.path)
  BY <1>3, EntryNameIs
<1>6. Len(x.path) \in Nat /\ Len(x.path) # 0
  BY <1>2 DEF IsText
<1>7. \A file : Len(NameOf(file)) = 1
  BY NameOfIs
<1>8. \A file : EntryName(ReadText(x.path)) # NameOf(file)
  <2>1. Len(EntryName(ReadText(x.path))) # 1
    BY <1>5, <1>6
  <2> QED
    BY <1>7, <2>1
<1> QED
  BY <1>1, <1>3, <1>4, <1>8

LEMMA NamedDoc ==
  ASSUME NEW d \in Installs, NEW f, NEW E, IsLetter(E, d, f), NEW y \in d.docs,
         NEW k \in 1..Len(E), ReadText(E[k].name) = EntryName(y.path)
  PROVE  y \in Included(d, f) /\ E[k] = DocEntry(y, f)
<1>1. IsPath(y.path) /\ IsText(y.path)
  BY DocIs DEF IsPath
<1>2. \A file : ReadText(E[k].name) # NameOf(file)
  BY <1>1, NamesAreApart
<1>3. k # 1 /\ k # 2
  <2>1. \A file : ReadText(NameOf(file)) = NameOf(file)
    BY NameOfIs
  <2> QED
    BY <1>2, <2>1 DEF IsLetter
<1>4. PICK x \in Included(d, f) : E[k] = DocEntry(x, f)
  <2>1. k \in 3..Len(E)
    BY <1>3
  <2> QED
    BY <2>1 DEF IsLetter
<1>5. x \in d.docs /\ E[k].name = EntryName(x.path)
  BY <1>4 DEF Included, DocEntry
<1>6. IsPath(x.path) /\ IsText(ReadText(x.path))
      /\ ReadText(EntryName(x.path)) = EntryName(ReadText(x.path))
  BY <1>5, DocNameRead
<1>7. ReadText(x.path) = y.path
  <2>1. EntryName(ReadText(x.path)) = EntryName(y.path)
    BY <1>5, <1>6
  <2> QED
    BY <1>1, <1>6, <2>1, EntryNameOnce
<1>8. ReadText(x.path) = ReadText(y.path)
  <2>1. ReadText(ReadText(x.path)) = ReadText(x.path)
    BY <1>6, ReadTextTwice
  <2> QED
    BY <1>7, <2>1
<1>9. x = y
  BY <1>5, <1>8, SameDoc
<1> QED
  BY <1>4, <1>9

(* The entries of a letter, whose rows may be others.                       *)
IsEdition(F, E, v) ==
  /\ Len(F) = Len(E) /\ \A k \in 1..Len(E) : F[k].name = E[k].name
  /\ F[2].bytes = Json(v)
  /\ \A k \in 1..Len(E) : k # 2 => F[k].bytes = E[k].bytes

LEMMA BackIs ==
  ASSUME NEW F, IsText(F)
  PROVE  /\ IsText(Back(F)) /\ Len(Back(F)) = Len(F) /\ DOMAIN Back(F) = 1..Len(F)
         /\ \A j \in 1..Len(F) : Back(F)[j].name = ReadText(F[j].name)
                                 /\ Back(F)[j].bytes = F[j].bytes
<1> DEFINE entry(k) == [name |-> ReadText(F[k].name), bytes |-> F[k].bytes]
           S == {entry(k) : k \in 1..Len(F)}
<1>1. Back(F) = [k \in 1..Len(F) |-> entry(k)]
  BY DEF Back
<1>2. Len(F) \in Nat
  BY TextIs
<1>3. \A k \in 1..Len(F) : entry(k) \in S
  OBVIOUS
<1>4. \A k \in 1..Len(F) : entry(k).name = ReadText(F[k].name) /\ entry(k).bytes = F[k].bytes
  OBVIOUS
<1> HIDE DEF S, entry
<1>5. Back(F) \in Seq(S) /\ Len(Back(F)) = Len(F)
  BY <1>1, <1>2, <1>3
<1>6. IsText(Back(F))
  BY <1>5, IsTextOf
<1> QED
  BY <1>1, <1>4, <1>5, <1>6

(* What an import makes of all of them. *)
LEMMA EditionIsFound ==
  ASSUME NEW d \in Installs, NEW f, NEW E, IsLetter(E, d, f), NEW v, NEW F, IsText(F),
         IsEdition(F, E, v)
  PROVE  /\ DumpOf(Back(F)) = (IF "legs" \in DOMAIN v THEN {v} ELSE {})
         /\ ManifestOf(Back(F)) # {}
         /\ \A y \in d.docs : Named(Back(F), EntryName(y.path)) # {} =>
              /\ y \in Included(d, f)
              /\ Bytes(Back(F), EntryName(y.path)) = f[y.path]
<1> DEFINE entries == Back(F)
           n == Len(E)
<1>1. n \in Nat /\ n >= 2 /\ IsText(E)
  BY TextIs DEF IsLetter
<1>2. /\ IsText(entries) /\ Len(entries) = n /\ DOMAIN entries = 1..n
      /\ \A j \in 1..n : entries[j].name = ReadText(E[j].name) /\ entries[j].bytes = F[j].bytes
  BY BackIs DEF IsEdition
<1>3. /\ entries[1].name = NameOf("manifest.json") /\ entries[2].name = NameOf("ledger.json")
      /\ \A k \in 3..n : \A file : entries[k].name # NameOf(file)
  <2>1. \A file : ReadText(NameOf(file)) = NameOf(file)
    BY NameOfIs
  <2>2. entries[1].name = NameOf("manifest.json") /\ entries[2].name = NameOf("ledger.json")
    <3>1. 1 \in 1..n /\ 2 \in 1..n
      BY <1>1
    <3> QED
      BY <1>2, <2>1, <3>1 DEF IsLetter
  <2>3. ASSUME NEW k \in 3..n, NEW file PROVE entries[k].name # NameOf(file)
    <3>1. PICK x \in Included(d, f) : E[k] = DocEntry(x, f)
      BY DEF IsLetter
    <3>2. x \in d.docs /\ E[k].name = EntryName(x.path)
      BY <3>1 DEF Included, DocEntry
    <3>3. ReadText(EntryName(x.path)) # NameOf(file)
      BY <3>2, DocNameRead
    <3> QED
      BY <1>1, <1>2, <3>2, <3>3
  <2> QED
    BY <2>2, <2>3
<1>4. Named(entries, NameOf("manifest.json")) = {1}
  BY <1>1, <1>2, <1>3, NamesAreApart DEF Named
<1>5. Named(entries, NameOf("ledger.json")) = {2}
  BY <1>1, <1>2, <1>3, NamesAreApart DEF Named
<1>6. DumpOf(entries) = IF "legs" \in DOMAIN v THEN {v} ELSE {}
  <2>1. Bytes(entries, NameOf("ledger.json")) = Json(v)
    <3>1. 2 \in 1..n
      BY <1>1
    <3>2. Max({2}) = 2
      BY MaxOfOne
    <3> QED
      BY <1>2, <1>5, <3>1, <3>2 DEF Bytes, IsEdition
  <2> QED
    BY <1>5, <2>1, JsonParses DEF DumpOf, ParsedEntry
<1>7. ManifestOf(entries) # {}
  <2>1. PICK included, missing : E[1].bytes = Json(Manifest(included, missing))
    BY DEF IsLetter
  <2>2. Bytes(entries, NameOf("manifest.json")) = Json(Manifest(included, missing))
    <3>1. 1 \in 1..n
      BY <1>1
    <3>2. Max({1}) = 1
      BY MaxOfOne
    <3>3. entries[1].bytes = E[1].bytes
      BY <1>2, <3>1 DEF IsEdition
    <3> QED
      BY <1>4, <2>1, <3>2, <3>3 DEF Bytes
  <2>3. "format" \in DOMAIN Manifest(included, missing) /\ Manifest(included, missing).version = 1
    BY ManifestIs
  <2> DEFINE m == Manifest(included, missing)
  <2> HIDE DEF m
  <2>4. Parsed(Json(m), "format") = {m}
    BY <2>3, JsonParses DEF m
  <2>5. ManifestOf(entries) = {w \in {m} : w.version <= 1}
    BY <1>4, <2>2, <2>4 DEF ManifestOf, ParsedEntry, m
  <2>6. m.version <= 1
    BY <2>3 DEF m
  <2> QED
    BY <2>5, <2>6
<1>8. ASSUME NEW y \in d.docs, Named(entries, EntryName(y.path)) # {}
      PROVE  y \in Included(d, f) /\ Bytes(entries, EntryName(y.path)) = f[y.path]
  <2>1. PICK j \in 1..Len(entries) : /\ entries[j].name = EntryName(y.path)
                           /\ Bytes(entries, EntryName(y.path)) = entries[j].bytes
    <3> HIDE DEF entries
    <3> QED
      BY <1>2, <1>8, BytesAreNamed
  <2>2. j \in 1..n /\ ReadText(E[j].name) = EntryName(y.path)
    BY <1>2, <2>1
  <2>3. y \in Included(d, f) /\ E[j] = DocEntry(y, f)
    BY <2>2, NamedDoc
  <2>4. j # 2
    BY <1>2, <1>3, <2>1, <2>2, DocIs, NamesAreApart
  <2>5. entries[j].bytes = f[y.path]
    BY <1>2, <2>2, <2>3, <2>4 DEF IsEdition, DocEntry
  <2> QED
    BY <2>1, <2>3, <2>5
<1> HIDE DEF entries
<1>9. /\ DumpOf(entries) = (IF "legs" \in DOMAIN v THEN {v} ELSE {})
      /\ ManifestOf(entries) # {}
      /\ \A y \in d.docs : Named(entries, EntryName(y.path)) # {} =>
           /\ y \in Included(d, f)
           /\ Bytes(entries, EntryName(y.path)) = f[y.path]
  BY <1>6, <1>7, <1>8
<1> QED
  BY <1>9 DEF entries

(* What an import makes of an archive that is sound, whatever is left of it. *)
LEMMA SoundIsFound ==
  ASSUME NEW d \in Installs, NEW f, NEW E, IsLetter(E, d, f), IsParcel(E),
         NEW V, NEW a, SoundTar(E, V, a.blocks), UnpackTar(a).ok
  PROVE  LET entries == UnpackTar(a).entries
         IN  /\ DumpOf(entries) \subseteq V
             /\ \A y \in d.docs : Named(entries, EntryName(y.path)) # {} => y \in Included(d, f)
<1> DEFINE entries == UnpackTar(a).entries
<1>1. IsText(entries) /\ \A j \in 1..Len(entries) : IsRead(E, a.blocks, entries[j])
  BY SoundIsRead
<1> HIDE DEF entries
<1>2. \A name : Named(entries, name) # {} => \E j \in 1..Len(entries) :
        entries[j].name = name /\ Bytes(entries, name) = entries[j].bytes
  BY <1>1, BytesAreNamed
<1>3. ASSUME NEW v \in DumpOf(entries) PROVE v \in V
  <2> DEFINE name == NameOf("ledger.json")
             bytes == Bytes(entries, name)
  <2>1. Named(entries, name) # {} /\ v \in Parsed(bytes, "legs")
    BY DEF DumpOf, ParsedEntry
  <2> HIDE DEF name
  <2>2. PICK j \in 1..Len(entries) : bytes = entries[j].bytes
    BY <1>2, <2>1
  <2> HIDE DEF bytes
  <2>3. bytes.blocks # <<>> => bytes.blocks[1] \in ToSet(a.blocks)
    BY <1>1, <2>2 DEF IsRead
  <2>4. \A b \in ToSet(a.blocks) : HoldsOnly(V, b)
    <3>1. DOMAIN a.blocks = 1..Len(a.blocks)
      BY TextIs DEF SoundTar
    <3> QED
      BY <3>1 DEF SoundTar, SoundBlock, ToSet
  <2> QED
    BY <2>1, <2>3, <2>4, ParsedIsHeld
<1>4. ASSUME NEW y \in d.docs, Named(entries, EntryName(y.path)) # {}
      PROVE  y \in Included(d, f)
  <2>1. PICK j \in 1..Len(entries) : entries[j].name = EntryName(y.path)
    BY <1>2, <1>4
  <2>2. PICK k \in 1..Len(E) : ReadText(E[k].name) = EntryName(y.path)
    BY <1>1, <2>1 DEF IsRead
  <2> QED
    BY <2>2, NamedDoc
<1>5. /\ DumpOf(entries) \subseteq V
      /\ \A y \in d.docs : Named(entries, EntryName(y.path)) # {} => y \in Included(d, f)
  BY <1>3, <1>4
<1> QED
  BY <1>5 DEF entries

-----------------------------------------------------------------------------
(* An archive on its way *)

LEMMA Exchanged ==
  ASSUME NEW E, IsParcel(E), NEW k \in 1..Len(E), NEW bytes, IsBytes(bytes)
  PROVE  LET F == [E EXCEPT ![k] = [name |-> E[k].name, bytes |-> bytes]]
         IN  /\ IsParcel(F) /\ Len(F) = Len(E)
             /\ \A j \in 1..Len(E) : F[j].name = E[j].name
             /\ \A j \in 1..Len(E) : F[j].bytes = IF j = k THEN bytes ELSE E[j].bytes
<1> DEFINE new == [name |-> E[k].name, bytes |-> bytes]
           F == [E EXCEPT ![k] = new]
           S == ToSet(E) \cup {new}
<1>1. IsText(E) /\ E # <<>>
  BY DEF IsParcel, IsText
<1>2. Len(E) \in Nat /\ DOMAIN E = 1..Len(E) /\ \A j \in 1..Len(E) : E[j] \in ToSet(E)
  BY <1>1, TextIs
<1>3. \A e \in ToSet(E) : IsEntry(e) /\ IsText(e.name) /\ NameFits(e.name)
  BY DEF IsParcel
<1>4. IsEntry(new) /\ IsText(new.name) /\ NameFits(new.name)
  <2>1. new = [name |-> new.name, bytes |-> new.bytes] /\ new.bytes = bytes /\ new.name = E[k].name
    OBVIOUS
  <2> HIDE DEF new
  <2> QED
    BY <1>2, <1>3, <2>1 DEF IsEntry
<1>5. new.name = E[k].name /\ new.bytes = bytes
  OBVIOUS
<1> HIDE DEF new
<1>6. E \in Seq(S) /\ new \in S
  BY <1>1 DEF IsText
<1>7. F \in Seq(S) /\ Len(F) = Len(E) /\ \A j \in 1..Len(E) : F[j] = IF j = k THEN new ELSE E[j]
  <2> HIDE DEF S
  <2> QED
    BY <1>2, <1>6
<1> HIDE DEF F
<1>8. IsText(F) /\ F # <<>>
  <2>1. IsText(F)
    BY <1>7, IsTextOf
  <2>2. Len(F) # 0
    BY <1>2, <1>7
  <2> QED
    BY <2>1, <2>2
<1>9. \A e \in ToSet(F) : e = new \/ e \in ToSet(E)
  <2>1. DOMAIN F = 1..Len(E)
    BY <1>7, <1>8, TextIs
  <2> QED
    BY <1>2, <1>7, <2>1 DEF ToSet
<1>10. IsParcel(F)
  BY <1>3, <1>4, <1>8, <1>9 DEF IsParcel, IsText
<1>11. \A j \in 1..Len(E) : F[j].name = E[j].name
  BY <1>5, <1>7
<1>12. \A j \in 1..Len(E) : F[j].bytes = IF j = k THEN bytes ELSE E[j].bytes
  BY <1>5, <1>7
<1> QED
  BY <1>7, <1>10, <1>11, <1>12 DEF F, new

(* Everything in the entries of E is a row of V, or none. *)
HoldOnly(V, E) == \A e \in ToSet(E) : \A b \in ToSet(e.bytes.blocks) : HoldsOnly(V, b)

LEMMA WithIsSound ==
  ASSUME NEW E, IsParcel(E), NEW V, HoldOnly(V, E), NEW k \in 1..Len(E), NEW bytes,
         IsBytes(bytes), \A b \in ToSet(bytes.blocks) : HoldsOnly(V, b)
  PROVE  LET F == [E EXCEPT ![k] = [name |-> E[k].name, bytes |-> bytes]]
         IN  SoundTar(E, V, PackTar(F).blocks) /\ ~PackTar(F).ragged
<1> DEFINE F == [E EXCEPT ![k] = [name |-> E[k].name, bytes |-> bytes]]
<1>1. /\ IsParcel(F) /\ Len(F) = Len(E)
      /\ \A j \in 1..Len(E) : F[j].name = E[j].name
      /\ \A j \in 1..Len(E) : F[j].bytes = IF j = k THEN bytes ELSE E[j].bytes
  BY Exchanged
<1> HIDE DEF F
<1>2. ASSUME NEW e \in ToSet(F)
      PROVE  /\ \E j \in 1..Len(E) : e.name = E[j].name
             /\ \A b \in ToSet(e.bytes.blocks) : HoldsOnly(V, b)
  <2>1. IsText(F) /\ IsText(E)
    BY <1>1 DEF IsParcel, IsText
  <2>2. DOMAIN F = 1..Len(E) /\ \A j \in 1..Len(E) : E[j] \in ToSet(E)
    BY <1>1, <2>1, TextIs
  <2>3. PICK j \in 1..Len(E) : e = F[j]
    BY <2>2 DEF ToSet
  <2> QED
    BY <1>1, <2>2, <2>3 DEF HoldOnly
<1>3. SoundTar(E, V, PackTar(F).blocks) /\ ~PackTar(F).ragged
  BY <1>1, <1>2, PacksSoundly
<1> QED
  BY <1>3 DEF F

LEMMA WithoutIsSound ==
  ASSUME NEW E, IsParcel(E), Len(E) >= 2, NEW V, HoldOnly(V, E), NEW k \in 1..Len(E)
  PROVE  LET F == Front1(E, k - 1) \o Rest(E, k)
         IN  SoundTar(E, V, PackTar(F).blocks) /\ ~PackTar(F).ragged
<1> DEFINE a == Front1(E, k - 1)
           b == Rest(E, k)
           F == a \o b
           S == ToSet(E)
           n == Len(E)
<1>1. IsText(E) /\ E \in Seq(S)
  BY DEF IsParcel, IsText
<1>2. n \in Nat /\ DOMAIN E = 1..n /\ \A j \in 1..n : E[j] \in S
  BY <1>1, TextIs
<1>3. \A e \in S : IsEntry(e) /\ IsText(e.name) /\ NameFits(e.name)
  BY DEF IsParcel
<1> HIDE DEF S
<1>4. IsSlice(a, E, 0, k - 1, S)
  <2>1. 0 \in Nat /\ k - 1 \in Nat /\ 0 + (k - 1) <= Len(E) /\ 0 + 1 = 1 /\ 0 + (k - 1) = k - 1
    BY <1>2
  <2>2. IsSlice(SubSeq(E, 0 + 1, 0 + (k - 1)), E, 0, k - 1, S)
    BY <1>1, <2>1, Sliced
  <2> QED
    BY <2>1, <2>2 DEF Front1
<1>5. IsSlice(b, E, k, n - k, S)
  <2>1. k \in Nat /\ n - k \in Nat /\ k + (n - k) <= Len(E) /\ k + (n - k) = n
    BY <1>2
  <2>2. IsSlice(SubSeq(E, k + 1, k + (n - k)), E, k, n - k, S)
    BY <1>1, <2>1, Sliced
  <2> QED
    BY <2>1, <2>2 DEF Rest
<1> HIDE DEF a, b
<1>6. IsJoin(a \o b, a, b, S)
  BY <1>4, <1>5, Joined DEF IsSlice
<1>7. F \in Seq(S) /\ Len(F) = n - 1
  BY <1>2, <1>4, <1>5, <1>6 DEF IsJoin, IsSlice
<1> HIDE DEF F
<1>8. IsText(F) /\ F # <<>>
  <2>1. IsText(F)
    BY <1>7, IsTextOf
  <2>2. Len(F) # 0
    BY <1>2, <1>7
  <2> QED
    BY <2>1, <2>2
<1>9. ToSet(F) \subseteq S
  BY <1>7 DEF ToSet
<1>10. IsParcel(F)
  BY <1>3, <1>8, <1>9 DEF IsParcel, IsText
<1>11. ASSUME NEW e \in ToSet(F)
       PROVE  /\ \E j \in 1..Len(E) : e.name = E[j].name
              /\ \A x \in ToSet(e.bytes.blocks) : HoldsOnly(V, x)
  <2>1. e \in S
    BY <1>9
  <2> QED
    BY <1>2, <2>1 DEF HoldOnly, S, ToSet
<1>12. \A e \in ToSet(F) : /\ \E j \in 1..Len(E) : e.name = E[j].name
                          /\ \A x \in ToSet(e.bytes.blocks) : HoldsOnly(V, x)
  BY <1>11
<1>13. SoundTar(E, V, PackTar(F).blocks) /\ ~PackTar(F).ragged
  BY <1>10, <1>12, PacksSoundly, ZenonT(60)
<1> QED
  BY <1>13 DEF F, a, b

(* The invariant.  Before an export the ledger is one an install holds, with *)
(* its own files.  Afterwards the archive is the one that was packed, what   *)
(* is left of it, an edition of it, or at least one whose headers carry its  *)
(* names and whose only rows are its own.                                    *)
Letter == IsLetter(Sent, packed.ledger, packed.files)
OnWay ==
  /\ packed.ledger \in Ledgers /\ OwnFiles(packed.ledger, packed.files) /\ Packable(Sent)
  /\ changes = {} => archive = PackTar(Sent)
  /\ changes \subseteq {"cut", "smudged"} =>
       archive.ragged \/ \E at : IsLayout(Sent, at) /\ Remains(Sent, at, archive.blocks)
  /\ \/ SoundTar(Sent, {packed.ledger}, archive.blocks)
     \/ /\ changes = {"edited"}
        /\ \E d \in Edits(packed.ledger) : archive = With(2, Json(d))
BeforeExport == ledger \in Ledgers /\ OwnFiles(ledger, store) /\ changes = {}

(* What is on file, wherever it came from. *)
StoreIsSound ==
  \A p \in DOMAIN store : \E d \in Ledgers : \E x \in d.docs : x.path = p /\ store[p] \in x.sha
LedgerIsSound ==
  /\ Resolves(ledger) /\ CurrenciesUsed(ledger) \subseteq known
  /\ \A y \in ledger.docs : \E d \in Installs : \E x \in d.docs :
       x.path = y.path /\ y.sha \in {x.sha, {}}

FormatInv ==
  /\ IF archive = NoTar THEN BeforeExport ELSE OnWay
  /\ StoreIsSound /\ LedgerIsSound

LEMMA SentIs ==
  ASSUME OnWay
  PROVE  /\ packed.ledger \in Installs /\ Letter /\ IsParcel(Sent) /\ IsText(Sent)
         /\ Len(Sent) >= 2 /\ DOMAIN Sent = 1..Len(Sent) /\ HoldOnly({packed.ledger}, Sent)
<1>1. packed.ledger \in Installs /\ OwnFiles(packed.ledger, packed.files) /\ Packable(Sent)
  BY DEF OnWay, Installs
<1>2. Letter
  BY <1>1, EntriesAreALetter DEF Letter, Sent
<1> DEFINE E == Sent
           d == packed.ledger
           f == packed.files
<1>3. d \in Installs /\ OwnFiles(d, f) /\ Packable(E) /\ IsLetter(E, d, f)
  BY <1>1, <1>2 DEF Letter
<1> HIDE DEF E, d, f
<1>4. /\ IsParcel(E)
      /\ \A e \in ToSet(E) : \A b \in ToSet(e.bytes.blocks) : HoldsOnly({d}, b)
  BY <1>3, LetterIsParcel
<1>5. IsText(E) /\ Len(E) >= 2 /\ DOMAIN E = 1..Len(E)
  BY <1>3, TextIs DEF IsLetter
<1> QED
  BY <1>1, <1>2, <1>4, <1>5 DEF HoldOnly, E, d, f

(* An export nobody changed, and one whose rows were: all entries arrive.   *)
LEMMA EditionIsRead ==
  ASSUME NEW E, IsParcel(E), Len(E) >= 2, NEW v
  PROVE  LET F == [E EXCEPT ![2] = [name |-> E[2].name, bytes |-> Json(v)]]
         IN  /\ IsText(F) /\ IsEdition(F, E, v)
             /\ UnpackTar(PackTar(F)).ok /\ UnpackTar(PackTar(F)).entries = Back(F)
<1> DEFINE F == [E EXCEPT ![2] = [name |-> E[2].name, bytes |-> Json(v)]]
           V == {b[1] : b \in UNION {x.data : x \in UNION {ToSet(e.bytes.blocks) : e \in ToSet(F)}}}
<1>1. IsText(E) /\ Len(E) \in Nat
  BY TextIs DEF IsParcel, IsText
<1>2. 2 \in 1..Len(E)
  BY <1>1
<1>3. IsBytes(Json(v))
  BY JsonIs
<1>4. /\ IsParcel(F) /\ Len(F) = Len(E)
      /\ \A j \in 1..Len(E) : F[j].name = E[j].name
      /\ \A j \in 1..Len(E) : F[j].bytes = IF j = 2 THEN Json(v) ELSE E[j].bytes
  BY <1>2, <1>3, Exchanged
<1> HIDE DEF F
<1>5. IsText(F) /\ IsEdition(F, E, v)
  BY <1>2, <1>4 DEF IsEdition, IsParcel, IsText
<1>6. \A e \in ToSet(F) : \A b \in ToSet(e.bytes.blocks) : HoldsOnly(V, b)
  BY DEF HoldsOnly
<1> HIDE DEF V
<1>7. \A e \in ToSet(F) : \E j \in 1..Len(F) : e.name = F[j].name
  <2>1. DOMAIN F = 1..Len(F)
    BY <1>5, TextIs
  <2> QED
    BY <2>1 DEF ToSet
<1>8. SoundTar(F, V, PackTar(F).blocks)
  BY <1>4, <1>6, <1>7, PacksSoundly
<1>9. UnpackTar(PackTar(F)).ok /\ UnpackTar(PackTar(F)).entries = Back(F)
  BY <1>4, <1>8, WholeIsRead
<1> QED
  BY <1>5, <1>9 DEF F

LEMMA SentIsRead ==
  ASSUME OnWay, changes = {}
  PROVE  Unpacked.ok /\ Unpacked.entries = Back(Sent)
<1>1. IsParcel(Sent) /\ IsText(Sent) /\ DOMAIN Sent = 1..Len(Sent)
      /\ HoldOnly({packed.ledger}, Sent) /\ archive = PackTar(Sent)
  BY SentIs DEF OnWay
<1> DEFINE E == Sent
           V == {packed.ledger}
<1>2. IsParcel(E) /\ HoldOnly(V, E) /\ \A e \in ToSet(E) : \E j \in 1..Len(E) : e.name = E[j].name
  BY <1>1 DEF ToSet
<1> HIDE DEF E, V
<1>3. SoundTar(E, V, PackTar(E).blocks)
  BY <1>2, PacksSoundly DEF HoldOnly
<1>4. UnpackTar(PackTar(E)).ok /\ UnpackTar(PackTar(E)).entries = Back(E)
  BY <1>2, <1>3, WholeIsRead
<1> QED
  BY <1>1, <1>4 DEF Unpacked, E

(* The core: what an import may restore at a path is what that path names.  *)
LEMMA RestoredIsNamed ==
  ASSUME OnWay, Unpacked.ok, NEW d \in DumpOf(Unpacked.entries),
         VerifyFiles(d, Unpacked.entries)
  PROVE  /\ d = packed.ledger \/ changes = {"edited"}
         /\ \A y \in d.docs : \E z \in packed.ledger.docs :
              /\ z.path = y.path /\ y.sha \in {z.sha, {}}
              /\ Named(Unpacked.entries, EntryName(y.path)) # {} =>
                   Bytes(Unpacked.entries, EntryName(y.path)) \in z.sha
<1> DEFINE e == packed.ledger
           f == packed.files
           E == Sent
           a == archive
           entries == UnpackTar(a).entries
<1>1. /\ e \in Ledgers /\ e \in Installs /\ OwnFiles(e, f) /\ IsLetter(E, e, f)
      /\ IsParcel(E) /\ Len(E) >= 2
  BY SentIs DEF OnWay, Letter
<1>2. d \in DumpOf(entries) /\ VerifyFiles(d, entries) /\ UnpackTar(a).ok
  BY DEF Unpacked
<1>3. ASSUME NEW y \in d.docs, Named(entries, EntryName(y.path)) # {}, y.sha # {}
      PROVE  Bytes(entries, EntryName(y.path)) \in y.sha
  BY <1>2, <1>3 DEF VerifyFiles
<1>4. CASE SoundTar(E, {e}, a.blocks)
  <2> HIDE DEF e, f, E, a
  <2>1. /\ DumpOf(entries) \subseteq {e}
        /\ \A y \in e.docs : Named(entries, EntryName(y.path)) # {} => y \in Included(e, f)
    BY <1>1, <1>2, <1>4, SoundIsFound
  <2>2. d = e
    BY <1>2, <2>1
  <2>3. ASSUME NEW y \in d.docs, Named(entries, EntryName(y.path)) # {}
        PROVE  Bytes(entries, EntryName(y.path)) \in y.sha
    <3>1. y \in Included(e, f)
      BY <2>1, <2>2, <2>3
    <3>2. y.sha # {}
      BY <1>1, <3>1, IncludedIs
    <3> QED
      BY <1>3, <2>3, <3>2
  <2> QED
    BY <2>2, <2>3 DEF Unpacked, e, a
<1>5. CASE changes = {"edited"} /\ \E v \in Edits(e) : a = With(2, Json(v))
  <2>1. PICK v \in Edits(e) : a = With(2, Json(v))
    BY <1>5
  <2> DEFINE F == [E EXCEPT ![2] = [name |-> E[2].name, bytes |-> Json(v)]]
  <2>2. a = PackTar(F)
    BY <2>1 DEF With
  <2> HIDE DEF e, f, E, a
  <2>3. /\ IsText(F) /\ IsEdition(F, E, v)
        /\ UnpackTar(PackTar(F)).ok /\ UnpackTar(PackTar(F)).entries = Back(F)
    BY <1>1, EditionIsRead
  <2> HIDE DEF F
  <2>4. entries = Back(F)
    BY <2>2, <2>3
  <2>5. /\ DumpOf(entries) = (IF "legs" \in DOMAIN v THEN {v} ELSE {})
        /\ \A y \in e.docs : Named(entries, EntryName(y.path)) # {} =>
             y \in Included(e, f) /\ Bytes(entries, EntryName(y.path)) = f[y.path]
    BY <1>1, <2>3, <2>4, EditionIsFound
  <2>6. d = v
    BY <1>2, <2>5
  <2>7. ASSUME NEW y \in d.docs
        PROVE  \E z \in e.docs : /\ z.path = y.path /\ y.sha \in {z.sha, {}}
                                 /\ Named(entries, EntryName(y.path)) # {} =>
                                      Bytes(entries, EntryName(y.path)) \in z.sha
    <3>1. PathIsInside(y.path)
      BY <1>2 DEF VerifyFiles
    <3>2. PICK z \in e.docs : z.path = y.path /\ y.sha \in {z.sha, {}}
      BY <1>1, <2>6, <3>1, EditsAssumption
    <3>3. ASSUME Named(entries, EntryName(y.path)) # {}
          PROVE  Bytes(entries, EntryName(y.path)) \in z.sha
      <4>1. z \in Included(e, f) /\ Bytes(entries, EntryName(y.path)) = f[z.path]
        BY <2>5, <3>2, <3>3
      <4> QED
        BY <1>1, <4>1, IncludedIs
    <3> QED
      BY <3>2, <3>3
  <2> QED
    BY <1>5, <2>7 DEF Unpacked, e, a
<1> QED
  BY <1>4, <1>5 DEF OnWay

(* A parcel as it is packed. *)
LEMMA WayStarts ==
  ASSUME NEW E, IsParcel(E), NEW V, HoldOnly(V, E)
  PROVE  /\ SoundTar(E, V, PackTar(E).blocks)
         /\ DOMAIN PackTar(E) = {"blocks", "ragged"} /\ ~PackTar(E).ragged
         /\ PackTar(E).blocks # <<>>
         /\ \E at : /\ IsLayout(E, at) /\ Remains(E, at, PackTar(E).blocks)
                    /\ AllThere(E, at, PackTar(E).blocks)
<1>1. \A e \in ToSet(E) : \E j \in 1..Len(E) : e.name = E[j].name
  <2>1. DOMAIN E = 1..Len(E)
    BY TextIs DEF IsParcel, IsText
  <2> QED
    BY <2>1 DEF ToSet
<1>2. SoundTar(E, V, PackTar(E).blocks) /\ PackTar(E).blocks # <<>> /\ ~PackTar(E).ragged
  <2>1. \A e \in ToSet(E) : /\ \E j \in 1..Len(E) : e.name = E[j].name
                           /\ \A b \in ToSet(e.bytes.blocks) : HoldsOnly(V, b)
    BY <1>1 DEF HoldOnly
  <2> QED
    BY <2>1, PacksSoundly
<1>3. PICK at, all : /\ PackTar(E) = [blocks |-> all, ragged |-> FALSE]
                     /\ IsLayout(E, at) /\ Remains(E, at, all) /\ AllThere(E, at, all)
  BY Packs
<1>4. DOMAIN PackTar(E) = {"blocks", "ragged"} /\ PackTar(E).blocks = all
  BY <1>3
<1> QED
  BY <1>2, <1>3, <1>4

LEMMA NotNoTar ==
  ASSUME NEW a, a.blocks # <<>> \/ ~a.ragged PROVE a # NoTar
BY DEF NoTar

LEMMA OwnIsSound ==
  ASSUME ledger \in Installs, CurrenciesUsed(ledger) \subseteq known PROVE LedgerIsSound
<1>1. Resolves(ledger)
  BY RowsAre
<1> QED
  BY <1>1 DEF LedgerIsSound

LEMMA FormatStarts ==
  ASSUME FormatInit PROVE FormatInv
<1>1. PICK with \in SUBSET {x \in ledger.docs : x.sha # {}} :
        store = [p \in {x.path : x \in with} |->
                   CHOOSE b \in UNION {x.sha : x \in {y \in with : y.path = p}} : TRUE]
  BY DEF FormatInit
<1>2. ASSUME NEW p \in DOMAIN store
      PROVE  \E x \in ledger.docs : x.path = p /\ store[p] \in x.sha
  <2> DEFINE S == UNION {x.sha : x \in {y \in with : y.path = p}}
  <2>1. PICK x \in with : x.path = p
    BY <1>1
  <2>2. x.sha # {} /\ x.sha \subseteq S
    BY <2>1
  <2>3. store[p] = CHOOSE b \in S : TRUE
    BY <1>1
  <2>4. store[p] \in S
    <3> HIDE DEF S
    <3> QED
      BY <2>2, <2>3
  <2>5. PICK y \in with : y.path = p /\ store[p] \in y.sha
    BY <2>4
  <2> QED
    BY <2>5
<1>3. ledger \in Ledgers /\ ledger \in Installs /\ OwnFiles(ledger, store)
  BY <1>2 DEF FormatInit, Installs, OwnFiles
<1>4. StoreIsSound
  BY <1>2, <1>3 DEF StoreIsSound
<1>5. LedgerIsSound
  BY <1>3, OwnIsSound, LedgersAssumption DEF FormatInit
<1> QED
  BY <1>3, <1>4, <1>5 DEF FormatInv, BeforeExport, FormatInit

LEMMA ExportKeeps ==
  ASSUME FormatInv, Export PROVE FormatInv'
<1>1. archive = NoTar /\ BeforeExport
  BY DEF FormatInv, Export
<1>2. StoreIsSound' /\ LedgerIsSound'
  BY DEF FormatInv, Export, StoreIsSound, LedgerIsSound
<1>3. CASE archive' = archive
  <2>1. BeforeExport'
    BY <1>1 DEF Export, BeforeExport
  <2> QED
    BY <1>1, <1>2, <1>3, <2>1 DEF FormatInv
<1>4. CASE archive' # archive
  <2> DEFINE d == ledger
             f == store
             g == [p \in {x.path : x \in Included(d, f)} |-> f[p]]
             E == Entries(d, f)
  <2>1. /\ Packable(E) /\ archive' = PackTar(E) /\ changes' = {}
        /\ packed' = [ledger |-> d, files |-> g]
    BY <1>4 DEF Export
  <2>2. d \in Ledgers /\ d \in Installs /\ OwnFiles(d, f)
    BY <1>1 DEF BeforeExport, Installs
  <2>3. OwnFiles(d, g)
    BY <2>2 DEF OwnFiles, Included
  <2>4. Entries(d, g) = E
    <3>1. DOMAIN g = {x.path : x \in Included(d, f)} /\ \A p \in DOMAIN g : g[p] = f[p]
      OBVIOUS
    <3> HIDE DEF d, f, g
    <3> QED
      BY <3>1, SameEntries DEF d, f
  <2> HIDE DEF g
  <2>5. Sent' = E /\ packed'.ledger = d /\ packed'.files = g
    <3>1. packed'.ledger = d /\ packed'.files = g
      BY <2>1
    <3> QED
      BY <2>4, <3>1 DEF Sent
  <2>6. IsLetter(E, d, f)
    BY <2>2, EntriesAreALetter
  <2> HIDE DEF E, d, f
  <2>7. IsParcel(E) /\ HoldOnly({d}, E)
    BY <2>1, <2>2, <2>6, LetterIsParcel DEF HoldOnly
  <2>8. /\ SoundTar(E, {d}, PackTar(E).blocks)
        /\ ~PackTar(E).ragged
        /\ \E at : IsLayout(E, at) /\ Remains(E, at, PackTar(E).blocks)
    BY <2>7, WayStarts
  <2>9. OnWay'
    BY <2>1, <2>2, <2>3, <2>5, <2>8 DEF OnWay
  <2>10. archive' # NoTar
    BY <2>1, <2>8, NotNoTar
  <2> QED
    BY <1>2, <2>9, <2>10 DEF FormatInv
<1> QED
  BY <1>3, <1>4

(* What happens on the way touches the archive alone. *)
LEMMA ChangeKeeps ==
  ASSUME FormatInv, NEW kind, kind \notin {"edited"}, NEW a, Changed(kind, a),
         a.blocks # <<>> \/ ~a.ragged,
         SoundTar(Sent, {packed.ledger}, a.blocks),
         kind \in {"cut", "smudged"} =>
           a.ragged \/ \E at : IsLayout(Sent, at) /\ Remains(Sent, at, a.blocks)
  PROVE  FormatInv'
<1>1. OnWay /\ archive' = a /\ changes' = {kind} /\ packed' = packed /\ Sent' = Sent
  BY DEF FormatInv, Changed, Sent
<1>2. OnWay'
  BY <1>1 DEF OnWay
<1>3. archive' # NoTar
  BY <1>1, NotNoTar
<1>4. StoreIsSound' /\ LedgerIsSound'
  BY DEF FormatInv, Changed, StoreIsSound, LedgerIsSound
<1> QED
  BY <1>2, <1>3, <1>4 DEF FormatInv

(* Before anything happened to it. *)
LEMMA StillWhole ==
  ASSUME FormatInv, archive # NoTar, changes = {}
  PROVE  /\ IsParcel(Sent) /\ Len(Sent) >= 2 /\ DOMAIN Sent = 1..Len(Sent)
         /\ HoldOnly({packed.ledger}, Sent)
         /\ SoundTar(Sent, {packed.ledger}, archive.blocks)
         /\ DOMAIN archive = {"blocks", "ragged"} /\ ~archive.ragged /\ archive.blocks # <<>>
         /\ IsText(archive.blocks)
         /\ \E at : /\ IsLayout(Sent, at) /\ Remains(Sent, at, archive.blocks)
                    /\ AllThere(Sent, at, archive.blocks)
<1>1. OnWay /\ archive = PackTar(Sent)
  BY DEF FormatInv, OnWay
<1>2. IsParcel(Sent) /\ Len(Sent) >= 2 /\ DOMAIN Sent = 1..Len(Sent)
      /\ HoldOnly({packed.ledger}, Sent)
  BY <1>1, SentIs
<1> DEFINE E == Sent
           V == {packed.ledger}
<1> HIDE DEF E, V
<1>3. IsParcel(E) /\ HoldOnly(V, E)
  BY <1>2 DEF E, V
<1>4. /\ SoundTar(E, V, PackTar(E).blocks)
      /\ DOMAIN PackTar(E) = {"blocks", "ragged"} /\ ~PackTar(E).ragged
      /\ PackTar(E).blocks # <<>>
      /\ \E at : /\ IsLayout(E, at) /\ Remains(E, at, PackTar(E).blocks)
                 /\ AllThere(E, at, PackTar(E).blocks)
  BY <1>3, WayStarts
<1> QED
  BY <1>1, <1>2, <1>4 DEF SoundTar, E, V

LEMMA CutKeeps ==
  ASSUME FormatInv, NEW n \in DOMAIN Blocks, Cut(n - 1) PROVE FormatInv'
<1> DEFINE b == Front1(archive.blocks, n - 1)
<1>1. PICK a : a = [archive EXCEPT !.blocks = Front1(@, n - 1)]
  OBVIOUS
<1>2. Changed("cut", a) /\ archive # NoTar /\ changes = {}
  BY <1>1 DEF Cut, Changed
<1>3. /\ SoundTar(Sent, {packed.ledger}, archive.blocks) /\ IsParcel(Sent)
      /\ DOMAIN archive = {"blocks", "ragged"} /\ ~archive.ragged /\ IsText(archive.blocks)
      /\ \E at : IsLayout(Sent, at) /\ Remains(Sent, at, archive.blocks)
  BY <1>2, StillWhole
<1>4. a.blocks = b /\ a.ragged = archive.ragged
  BY <1>1, <1>3
<1>5. n - 1 \in 0..Len(archive.blocks)
  <2>1. Len(archive.blocks) \in Nat /\ DOMAIN archive.blocks = 1..Len(archive.blocks)
    BY <1>3, TextIs
  <2> QED
    BY <2>1 DEF Blocks
<1> DEFINE E == Sent
           V == {packed.ledger}
           all == archive.blocks
<1>6. SoundTar(E, V, all) /\ n - 1 \in 0..Len(all) /\ IsParcel(E)
  BY <1>3, <1>5
<1> HIDE DEF E, V, all
<1>7. /\ SoundTar(E, V, Front1(all, n - 1))
      /\ \A at : Remains(E, at, all) /\ IsLayout(E, at) /\ IsParcel(E) =>
           Remains(E, at, Front1(all, n - 1))
  BY <1>6, CutIsSound
<1>8. SoundTar(Sent, {packed.ledger}, b)
      /\ \E at : IsLayout(Sent, at) /\ Remains(Sent, at, b)
  BY <1>3, <1>7 DEF E, V, all
<1> HIDE DEF b
<1> QED
  BY <1>2, <1>3, <1>4, <1>8, ChangeKeeps

LEMMA CutShortKeeps ==
  ASSUME FormatInv, CutShort PROVE FormatInv'
<1>1. PICK a : a = [archive EXCEPT !.ragged = TRUE]
  OBVIOUS
<1>2. Changed("cut", a) /\ archive # NoTar /\ changes = {}
  BY <1>1 DEF CutShort, Changed
<1>3. /\ SoundTar(Sent, {packed.ledger}, archive.blocks)
      /\ DOMAIN archive = {"blocks", "ragged"} /\ archive.blocks # <<>>
  BY <1>2, StillWhole
<1>4. a.blocks = archive.blocks /\ a.ragged = TRUE
  BY <1>1, <1>3
<1> QED
  BY <1>2, <1>3, <1>4, ChangeKeeps

LEMMA SmudgeKeeps ==
  ASSUME FormatInv, NEW i \in Heads, Smudge(i) PROVE FormatInv'
<1> DEFINE new == HeadBlock([HeadAt(i) EXCEPT !.adds = FALSE])
           b == [archive.blocks EXCEPT ![i] = new]
<1>1. PICK a : a = [archive EXCEPT !.blocks = [archive.blocks EXCEPT ![i] = new]]
  OBVIOUS
<1>2. Changed("smudged", a) /\ archive # NoTar /\ changes = {}
  BY <1>1 DEF Smudge, Changed
<1>3. /\ SoundTar(Sent, {packed.ledger}, archive.blocks) /\ IsParcel(Sent)
      /\ DOMAIN archive = {"blocks", "ragged"} /\ ~archive.ragged /\ IsText(archive.blocks)
      /\ \E at : IsLayout(Sent, at) /\ Remains(Sent, at, archive.blocks)
                 /\ AllThere(Sent, at, archive.blocks)
  BY <1>2, StillWhole
<1>4. a.blocks = b /\ a.ragged = archive.ragged
  BY <1>1, <1>3
<1>5. i \in 1..Len(archive.blocks) /\ archive.blocks[i].head # {}
  BY <1>3, TextIs DEF Heads, Blocks
<1>6. new = HeadBlock(Broken(HeadOf(archive.blocks, i)))
  BY DEF HeadAt, Blocks, HeadOf, Broken
<1> DEFINE E == Sent
           V == {packed.ledger}
           all == archive.blocks
           smudged == [all EXCEPT ![i] = HeadBlock(Broken(HeadOf(all, i)))]
<1>7. SoundTar(E, V, all) /\ i \in 1..Len(all) /\ all[i].head # {} /\ b = smudged
  BY <1>3, <1>5, <1>6
<1> HIDE DEF E, V, all
<1>8. /\ SoundTar(E, V, smudged)
      /\ \A at : Remains(E, at, all) /\ AllThere(E, at, all) /\ IsParcel(E)
                   /\ IsLayout(E, at) =>
           Remains(E, at, smudged)
  BY <1>7, SmudgeIsSound
<1> HIDE DEF smudged, b
<1>9. SoundTar(Sent, {packed.ledger}, b)
      /\ \E at : IsLayout(Sent, at) /\ Remains(Sent, at, b)
  BY <1>3, <1>7, <1>8 DEF E, V, all
<1> QED
  BY <1>2, <1>3, <1>4, <1>9, ChangeKeeps

LEMMA RepackKeeps ==
  ASSUME FormatInv, NEW i \in Heads, NEW type, Repack(i, type) PROVE FormatInv'
<1> DEFINE b == Front1(archive.blocks, i - 1)
                  \o <<HeadBlock([HeadAt(i) EXCEPT !.type = type, !.size = 0])>>
                  \o Rest(archive.blocks, i - 1)
<1>1. PICK a : a = [archive EXCEPT !.blocks = b]
  OBVIOUS
<1>2. Changed("repacked", a) /\ archive # NoTar /\ changes = {}
  BY <1>1 DEF Repack, Changed
<1>3. /\ SoundTar(Sent, {packed.ledger}, archive.blocks)
      /\ DOMAIN archive = {"blocks", "ragged"} /\ ~archive.ragged /\ IsText(archive.blocks)
  BY <1>2, StillWhole
<1>4. a.blocks = b /\ a.ragged = archive.ragged
  <2> HIDE DEF b
  <2> QED
    BY <1>1, <1>3
<1>5. i \in 1..Len(archive.blocks) /\ archive.blocks[i].head # {}
  BY <1>3, TextIs DEF Heads, Blocks
<1>6. HeadAt(i) = HeadOf(archive.blocks, i)
  BY DEF HeadAt, Blocks, HeadOf
<1> DEFINE E == Sent
           V == {packed.ledger}
           all == archive.blocks
<1>7. SoundTar(E, V, all) /\ i \in 1..Len(all) /\ all[i].head # {}
  BY <1>3, <1>5
<1> HIDE DEF E, V, all
<1>8. SoundTar(E, V, Front1(all, i - 1)
                       \o <<HeadBlock([HeadOf(all, i) EXCEPT !.type = type, !.size = 0])>>
                       \o Rest(all, i - 1))
  BY <1>7, RepackIsSound
<1>9. SoundTar(Sent, {packed.ledger}, b)
  BY <1>6, <1>8 DEF E, V, all
<1> HIDE DEF b
<1> QED
  BY <1>2, <1>3, <1>4, <1>9, ChangeKeeps

LEMMA LeaveKeeps ==
  ASSUME FormatInv, NEW k \in DOMAIN Sent, Leave(k) PROVE FormatInv'
<1> DEFINE E == Sent
           V == {packed.ledger}
           a == PackTar(Front1(E, k - 1) \o Rest(E, k))
<1>1. Changed("left out", a) /\ archive # NoTar /\ changes = {}
  BY DEF Leave, Changed
<1>2. IsParcel(E) /\ Len(E) >= 2 /\ HoldOnly(V, E) /\ k \in 1..Len(E)
  BY <1>1, StillWhole
<1> HIDE DEF E, V
<1>3. SoundTar(E, V, a.blocks) /\ ~a.ragged
  BY <1>2, WithoutIsSound
<1> HIDE DEF a
<1> QED
  BY <1>1, <1>3, ChangeKeeps DEF E, V

LEMMA WithKeeps ==
  ASSUME FormatInv, NEW k \in DOMAIN Sent, NEW bytes, IsBytes(bytes),
         \A b \in ToSet(bytes.blocks) : HoldsOnly({packed.ledger}, b),
         NEW kind \in {"swapped", "newer"}, Changed(kind, With(k, bytes))
  PROVE  FormatInv'
<1> DEFINE E == Sent
           V == {packed.ledger}
           a == PackTar([E EXCEPT ![k] = [name |-> E[k].name, bytes |-> bytes]])
<1>1. Changed(kind, a) /\ archive # NoTar /\ changes = {}
  BY DEF With, Changed
<1>2. IsParcel(E) /\ HoldOnly(V, E) /\ k \in 1..Len(E)
      /\ \A b \in ToSet(bytes.blocks) : HoldsOnly(V, b)
  BY <1>1, StillWhole
<1> HIDE DEF E, V
<1>3. SoundTar(E, V, a.blocks) /\ ~a.ragged
  BY <1>2, WithIsSound
<1> HIDE DEF a
<1> QED
  BY <1>1, <1>3, ChangeKeeps DEF E, V

LEMMA EditKeeps ==
  ASSUME FormatInv, NEW d \in Edits(packed.ledger), Edit(d) PROVE FormatInv'
<1>1. /\ OnWay /\ archive' = With(2, Json(d)) /\ changes' = {"edited"}
      /\ packed' = packed /\ Sent' = Sent /\ archive # NoTar /\ changes = {}
  BY DEF FormatInv, Edit, Changed, Sent
<1>2. With(2, Json(d))' = With(2, Json(d))
  BY <1>1 DEF With
<1>3. OnWay'
  BY <1>1, <1>2 DEF OnWay
<1>4. archive' # NoTar
  <2>1. ~With(2, Json(d)).ragged
    BY DEF With, PackTar
  <2> QED
    BY <1>1, <2>1, NotNoTar
<1>5. StoreIsSound' /\ LedgerIsSound'
  BY DEF FormatInv, Edit, Changed, StoreIsSound, LedgerIsSound
<1> QED
  BY <1>3, <1>4, <1>5 DEF FormatInv

LEMMA OnTheWayKeeps ==
  ASSUME FormatInv, OnTheWay PROVE FormatInv'
<1>1. ASSUME NEW k \in DOMAIN Sent, NEW x \in ledger.docs, NEW bytes \in x.sha, Swap(k, bytes)
      PROVE  FormatInv'
  <2>1. PICK d \in Installs : \E y \in d.docs : x.sha \in {y.sha, {}}
    BY DEF FormatInv, LedgerIsSound
  <2>2. PICK y \in d.docs : bytes \in y.sha
    BY <2>1
  <2>3. IsDocument(bytes)
    BY <2>2, DocIs
  <2>4. IsBytes(bytes) /\ \A b \in ToSet(bytes.blocks) : HoldsOnly({packed.ledger}, b)
    BY <2>3, DocumentHolds
  <2> QED
    BY <1>1, <2>4, WithKeeps DEF Swap
<1>2. ASSUME Newer PROVE FormatInv'
  <2> DEFINE m == [Manifest(0, 0) EXCEPT !.version = 2]
  <2>1. "legs" \notin DOMAIN m
    BY ManifestIs
  <2>2. Changed("newer", With(1, Json(m)))
    BY <1>2 DEF Newer
  <2> HIDE DEF m
  <2>3. IsBytes(Json(m)) /\ \A b \in ToSet(Json(m).blocks) : HoldsOnly({packed.ledger}, b)
    BY <2>1, JsonIs, JsonHolds
  <2>4. 1 \in DOMAIN Sent
    <3>1. archive # NoTar /\ changes = {}
      BY <2>2 DEF Changed
    <3>2. Len(Sent) >= 2 /\ DOMAIN Sent = 1..Len(Sent) /\ IsParcel(Sent)
      BY <3>1, StillWhole
    <3>3. Len(Sent) \in Nat
      BY <3>2 DEF IsParcel
    <3> QED
      BY <3>2, <3>3
  <2> QED
    BY <2>2, <2>3, <2>4, WithKeeps
<1> QED
  BY <1>1, <1>2, CutKeeps, CutShortKeeps, SmudgeKeeps, RepackKeeps, LeaveKeeps, EditKeeps
     DEF OnTheWay

LEMMA BringKeeps ==
  ASSUME FormatInv, NEW d \in Elsewhere, NEW k \in SUBSET Currencies,
         CurrenciesUsed(d) \subseteq k, Bring(d, k)
  PROVE  FormatInv'
<1>1. archive' # NoTar /\ OnWay'
  BY DEF FormatInv, Bring, OnWay, Sent, With
<1>2. StoreIsSound'
  BY DEF Bring, NoFiles, StoreIsSound
<1>3. LedgerIsSound'
  <2>1. ledger' = d /\ known' = k /\ d \in Installs
    BY DEF Bring, Installs
  <2>2. Resolves(d)
    BY <2>1, RowsAre
  <2> QED
    BY <2>1, <2>2 DEF LedgerIsSound
<1> QED
  BY <1>1, <1>2, <1>3 DEF FormatInv

(* What an import lays in the store. *)
LEMMA StoreIsRestored ==
  ASSUME FormatInv, archive # NoTar, Unpacked.ok, NEW d \in DumpOf(Unpacked.entries),
         VerifyFiles(d, Unpacked.entries), store' = RestoredFiles(d, Unpacked.entries)
  PROVE  /\ \A p \in DOMAIN store' : \E e \in Ledgers : \E x \in e.docs :
              x.path = p /\ store'[p] \in x.sha
         /\ \A p \in DOMAIN store : p \in DOMAIN store' /\ store'[p] = store[p]
<1> DEFINE entries == Unpacked.entries
           R == RestoredPaths(d, entries)
<1>1. OnWay /\ packed.ledger \in Ledgers
  BY DEF FormatInv, OnWay
<1>2. \A y \in d.docs : \E z \in packed.ledger.docs :
        /\ z.path = y.path
        /\ Named(entries, EntryName(y.path)) # {} => Bytes(entries, EntryName(y.path)) \in z.sha
  BY <1>1, RestoredIsNamed
<1>3. /\ DOMAIN store' = R \cup DOMAIN store
      /\ \A p \in R \cup DOMAIN store :
           store'[p] = IF p \in R THEN Bytes(entries, EntryName(p)) ELSE store[p]
  BY DEF RestoredFiles
<1> HIDE DEF entries
<1>4. \A p \in R : \E z \in packed.ledger.docs :
        z.path = p /\ Bytes(entries, EntryName(p)) \in z.sha
  BY <1>2 DEF RestoredPaths
<1> HIDE DEF R
<1>5. \A p \in DOMAIN store : \E e \in Ledgers : \E x \in e.docs :
        x.path = p /\ store[p] \in x.sha
  BY DEF FormatInv, StoreIsSound
<1>6. ASSUME NEW p \in DOMAIN store' PROVE \E e \in Ledgers : \E x \in e.docs :
        x.path = p /\ store'[p] \in x.sha
  BY <1>1, <1>3, <1>4, <1>5
<1>7. ASSUME NEW p \in DOMAIN store PROVE p \in DOMAIN store' /\ store'[p] = store[p]
  <2>1. CASE p \in R
    <3>1. PICK z \in packed.ledger.docs : z.path = p /\ store'[p] \in z.sha
      BY <1>3, <1>4, <2>1
    <3>2. PICK e \in Ledgers : \E x \in e.docs : x.path = p /\ store[p] \in x.sha
      BY <1>5
    <3>3. PICK x \in e.docs : x.path = p /\ store[p] \in x.sha
      BY <3>2
    <3>4. e \in Installs /\ packed.ledger \in Installs
      BY <1>1 DEF Installs
    <3>5. z.sha = x.sha
      BY <3>1, <3>3, <3>4, SameDoc
    <3>6. store'[p] = store[p]
      BY <3>1, <3>3, <3>4, <3>5, DocIs
    <3> QED
      BY <1>3, <3>6
  <2>2. CASE p \notin R
    BY <1>3, <2>2
  <2> QED
    BY <2>1, <2>2
<1> QED
  BY <1>6, <1>7

(* What an import did, and to what it was asked. *)
LEMMA ImportIs ==
  ASSUME FormatInv, NEW replace \in BOOLEAN, Import(replace)
  PROVE  /\ archive # NoTar
         /\ UNCHANGED <<known, archive, packed, changes>>
         /\ \/ answer'.said = "refused" /\ UNCHANGED <<ledger, store>>
            \/ \E d \in ReadableDump(Unpacked.entries) :
                 /\ Unpacked.ok /\ d \in DumpOf(Unpacked.entries)
                 /\ Checks(d, Unpacked.entries, replace)
                 /\ Replace(d, Unpacked.entries)
<1> DEFINE entries == Unpacked.entries
           dumps == IF Unpacked.ok THEN ReadableDump(entries) ELSE {}
<1>1. archive # NoTar /\ OnWay
  BY DEF Import, FormatInv
<1>2. /\ UNCHANGED <<known, archive, packed, changes>>
      /\ IF \E d \in dumps : Checks(d, entries, replace)
           THEN \E d \in dumps : Replace(d, entries)
           ELSE Refuse
  BY DEF Import
<1>3. \A d, e \in dumps : d = e
  BY DEF ReadableDump, DumpOf, ParsedEntry, Parsed
<1>4. \A d \in dumps : Unpacked.ok /\ d \in ReadableDump(entries) /\ d \in DumpOf(entries)
  BY DEF ReadableDump
<1> HIDE DEF entries, dumps
<1>5. CASE \E d \in dumps : Checks(d, entries, replace)
  BY <1>1, <1>2, <1>3, <1>4, <1>5 DEF entries
<1>6. CASE ~ \E d \in dumps : Checks(d, entries, replace)
  BY <1>1, <1>2, <1>6 DEF Refuse
<1> QED
  BY <1>5, <1>6

LEMMA ImportKeeps ==
  ASSUME FormatInv, NEW replace \in BOOLEAN, Import(replace) PROVE FormatInv'
<1>1. archive # NoTar /\ UNCHANGED <<known, archive, packed, changes>>
  BY ImportIs
<1>2. archive' # NoTar /\ OnWay'
  BY <1>1 DEF FormatInv, OnWay, Sent, With
<1>3. CASE UNCHANGED <<ledger, store>>
  BY <1>1, <1>2, <1>3 DEF FormatInv, StoreIsSound, LedgerIsSound
<1>4. ASSUME NEW d \in DumpOf(Unpacked.entries), Unpacked.ok,
             Checks(d, Unpacked.entries, replace), Replace(d, Unpacked.entries)
      PROVE  FormatInv'
  <2>1. VerifyFiles(d, Unpacked.entries) /\ CurrenciesUsed(d) \subseteq known
    BY <1>4 DEF Checks
  <2>2. store' = RestoredFiles(d, Unpacked.entries)
    BY <1>4 DEF Replace
  <2>3. StoreIsSound'
    BY <1>1, <1>4, <2>1, <2>2, StoreIsRestored DEF StoreIsSound
  <2>4. LedgerIsSound'
    <3>1. CASE ledger' = ledger
      BY <1>1, <3>1 DEF FormatInv, LedgerIsSound
    <3>2. CASE ledger' = d /\ Resolves(d)
      <4>1. packed.ledger \in Installs /\ OnWay
        BY <1>1 DEF FormatInv, OnWay, Installs
      <4>2. \A y \in d.docs : \E z \in packed.ledger.docs :
              z.path = y.path /\ y.sha \in {z.sha, {}}
        BY <1>4, <2>1, <4>1, RestoredIsNamed
      <4> QED
        BY <1>1, <2>1, <3>2, <4>1, <4>2 DEF LedgerIsSound
    <3> QED
      BY <1>4, <3>1, <3>2 DEF Replace, Loads
  <2> QED
    BY <1>2, <2>3, <2>4 DEF FormatInv
<1> QED
  BY <1>3, <1>4, ImportIs

LEMMA FormatGoesOn ==
  ASSUME FormatInv, [FormatNext]_formatVars PROVE FormatInv'
<1>1. CASE UNCHANGED formatVars
  BY <1>1 DEF formatVars, FormatInv, BeforeExport, OnWay, Sent, With, StoreIsSound, LedgerIsSound
<1> QED
  BY <1>1, ExportKeeps, OnTheWayKeeps, BringKeeps, ImportKeeps DEF FormatNext

(* An archive on its way stays what it was packed as, whole or not, and the *)
(* store and the rows of an install hang together through every import      *)
(* (ledger-archive.ts:123-407).                                              *)
THEOREM FormatKeeps == FormatSpec => []FormatInv
<1>1. FormatInit => FormatInv
  BY FormatStarts
<1>2. FormatInv /\ [FormatNext]_formatVars => FormatInv'
  BY FormatGoesOn
<1> QED
  BY <1>1, <1>2, PTL DEF FormatSpec

-----------------------------------------------------------------------------
(* What a ledger and its files are worth after an import                    *)

LEMMA InvSound ==
  ASSUME FormatInv PROVE LoadsAreSound
<1>1. RowsAreSound
  <2>1. Resolves(ledger) /\ Constructs(ledger) /\ CurrenciesUsed(ledger) \subseteq known
    BY DEF FormatInv, LedgerIsSound, Resolves
  <2> QED
    BY <2>1 DEF RowsAreSound, Resolves, Constructs, LegIsSound
<1>2. FilesAreTheirHashes
  <2> SUFFICES ASSUME NEW y \in ledger.docs, y.path \in DOMAIN store, y.sha # {}
               PROVE  store[y.path] \in y.sha
    BY DEF FilesAreTheirHashes
  <2>1. PICK d \in Installs : \E x \in d.docs : x.path = y.path /\ y.sha \in {x.sha, {}}
    BY DEF FormatInv, LedgerIsSound
  <2>2. PICK x \in d.docs : x.path = y.path /\ y.sha = x.sha
    BY <2>1
  <2>3. PICK e \in Ledgers : \E z \in e.docs : z.path = y.path /\ store[y.path] \in z.sha
    BY DEF FormatInv, StoreIsSound
  <2>4. PICK z \in e.docs : z.path = y.path /\ store[y.path] \in z.sha
    BY <2>3
  <2>5. e \in Installs
    BY DEF Installs
  <2>6. x.sha = z.sha
    BY <2>2, <2>4, <2>5, SameDoc
  <2> QED
    BY <2>2, <2>4, <2>6
<1>3. NothingIsHalfRead
  <2> SUFFICES ASSUME archive # NoTar, changes \subseteq {"cut", "smudged"}, Unpacked.ok,
                      NEW i \in DOMAIN Unpacked.entries
               PROVE  /\ i <= Len(Sent) /\ Unpacked.entries[i].bytes = Sent[i].bytes
                      /\ Unpacked.entries[i].name = ReadText(Sent[i].name)
    BY DEF NothingIsHalfRead, Sent
  <2>1. OnWay
    BY DEF FormatInv
  <2> DEFINE E == Sent
             a == archive
             V == {packed.ledger}
             entries == UnpackTar(a).entries
  <2>2. IsParcel(E) /\ IsText(E) /\ UnpackTar(a).ok /\ SoundTar(E, V, a.blocks)
    BY <2>1, SentIs DEF Unpacked, OnWay
  <2>3. a.ragged \/ \E at : IsLayout(E, at) /\ Remains(E, at, a.blocks)
    BY <2>1 DEF OnWay
  <2>4. i \in DOMAIN entries
    BY DEF Unpacked
  <2> HIDE DEF E, a, V
  <2>5. ~a.ragged
    BY <2>2 DEF UnpackTar, Refused
  <2>6. PICK at : IsLayout(E, at) /\ Remains(E, at, a.blocks)
    BY <2>3, <2>5
  <2>7. IsBack(E, 1, entries)
    BY <2>2, <2>6, RestIsRead
  <2> HIDE DEF entries
  <2>8. i \in 1..Len(entries) /\ Len(entries) <= Len(E) /\ Len(E) \in Nat /\ Len(entries) \in Nat
    <3>1. IsText(entries) /\ Len(entries) <= Len(E) + 1 - 1
      BY <2>7 DEF IsBack
    <3>2. Len(entries) \in Nat /\ DOMAIN entries = 1..Len(entries)
      BY <3>1, TextIs
    <3>3. Len(E) \in Nat
      BY <2>2, TextIs
    <3> QED
      BY <2>4, <3>1, <3>2, <3>3
  <2>9. entries[i] = Back(E)[i]
    <3>1. 1 - 1 + i = i
      BY <2>8
    <3> QED
      BY <2>7, <2>8, <3>1 DEF IsBack
  <2>10. i \in 1..Len(E)
    BY <2>8
  <2>11. Back(E)[i].name = ReadText(E[i].name) /\ Back(E)[i].bytes = E[i].bytes
    BY <2>2, <2>10, BackIs
  <2>12. /\ i <= Len(E) /\ entries[i].bytes = E[i].bytes
         /\ entries[i].name = ReadText(E[i].name)
    BY <2>9, <2>10, <2>11
  <2> QED
    BY <2>12 DEF E, a, entries, Unpacked
<1> QED
  BY <1>1, <1>2, <1>3 DEF LoadsAreSound

(* LoadsAreSound: whatever archive is imported, at whatever install, the    *)
(* rows on file hang together, each file is the one its row's hash names,   *)
(* and nothing is half of a file (ledger-archive.ts:273-281).               *)
THEOREM ImportsAreSound == FormatSpec => []LoadsAreSound
<1> QED
  BY FormatKeeps, InvSound, PTL

LEMMA RefusedStep ==
  ASSUME FormatInv, FormatNext, answer'.said = "refused", known' = known
  PROVE  /\ ledger' = ledger
         /\ \A x \in ledger.docs :
              x.path \in DOMAIN store /\ x.sha # {} => store'[x.path] = store[x.path]
<1>1. CASE UNCHANGED <<ledger, store>>
  BY <1>1
<1>2. ASSUME NEW replace \in BOOLEAN, Import(replace)
      PROVE  /\ ledger' = ledger
             /\ \A p \in DOMAIN store : store'[p] = store[p]
  <2>1. CASE UNCHANGED <<ledger, store>>
    BY <2>1
  <2>2. ASSUME NEW d \in DumpOf(Unpacked.entries), Unpacked.ok,
               Checks(d, Unpacked.entries, replace), Replace(d, Unpacked.entries)
        PROVE  ledger' = ledger /\ \A p \in DOMAIN store : store'[p] = store[p]
    <3>1. archive # NoTar /\ VerifyFiles(d, Unpacked.entries)
          /\ store' = RestoredFiles(d, Unpacked.entries)
      BY <1>2, <2>2 DEF Import, Checks, Replace
    <3>2. ledger' = ledger
      BY <2>2 DEF Replace
    <3> QED
      BY <2>2, <3>1, <3>2, StoreIsRestored
  <2> QED
    BY <1>2, <2>1, <2>2, ImportIs
<1>3. ASSUME NEW d, NEW k, Bring(d, k) PROVE FALSE
  BY <1>3 DEF Bring, NoAnswer
<1>4. ASSUME Export \/ OnTheWay PROVE UNCHANGED <<ledger, store>>
  BY <1>4 DEF Export, OnTheWay, Cut, CutShort, Smudge, Repack, Leave, Swap, Edit, Newer, Changed
<1> QED
  BY <1>1, <1>2, <1>3, <1>4 DEF FormatNext

(* RefusedLeavesTheLedger: an import that is refused, by a check or by the  *)
(* database after the files were written, changes no row and no file that   *)
(* was there (ledger-archive.ts:329-407).                                   *)
THEOREM RefusedImportsLeaveTheLedger == FormatSpec => RefusedLeavesTheLedger
<1>1. FormatInv /\ [FormatNext]_formatVars =>
        [answer'.said = "refused" /\ known' = known =>
           /\ ledger' = ledger
           /\ \A x \in ledger.docs :
                x.path \in DOMAIN store /\ x.sha # {} =>
                  store'[x.path] = store[x.path]]_formatVars
  BY RefusedStep
<1> QED
  BY <1>1, FormatKeeps, PTL DEF RefusedLeavesTheLedger, FormatSpec

-----------------------------------------------------------------------------
(* An export is a backup *)

(* All that an import finds in an export that nobody changed.               *)
LEMMA SentIsFound ==
  ASSUME OnWay, changes = {}
  PROVE  /\ Unpacked.ok
         /\ DumpOf(Unpacked.entries) = {packed.ledger} /\ ManifestOf(Unpacked.entries) # {}
         /\ \A y \in packed.ledger.docs : Named(Unpacked.entries, EntryName(y.path)) # {} =>
              /\ y \in Included(packed.ledger, packed.files)
              /\ Bytes(Unpacked.entries, EntryName(y.path)) = packed.files[y.path]
         /\ \A y \in Included(packed.ledger, packed.files) :
              NameKept(y.path) => Named(Unpacked.entries, EntryName(y.path)) # {}
<1> DEFINE E == Sent
           d == packed.ledger
           f == packed.files
<1>1. d \in Installs /\ IsLetter(E, d, f) /\ IsText(E) /\ IsParcel(E) /\ Len(E) >= 2
  BY SentIs DEF Letter
<1>2. Unpacked.ok /\ Unpacked.entries = Back(E)
  BY SentIsRead
<1> HIDE DEF E, d, f
<1>3. IsEdition(E, E, d)
  <2>1. E[2].bytes = Json(d)
    BY <1>1 DEF IsLetter
  <2> QED
    BY <2>1 DEF IsEdition
<1>4. "legs" \in DOMAIN d
  BY <1>1, RowsAre
<1>5. /\ DumpOf(Back(E)) = (IF "legs" \in DOMAIN d THEN {d} ELSE {})
      /\ ManifestOf(Back(E)) # {}
      /\ \A y \in d.docs : Named(Back(E), EntryName(y.path)) # {} =>
           /\ y \in Included(d, f)
           /\ Bytes(Back(E), EntryName(y.path)) = f[y.path]
  BY <1>1, <1>3, EditionIsFound
<1>6. ASSUME NEW y \in Included(d, f), NameKept(y.path)
      PROVE  Named(Back(E), EntryName(y.path)) # {}
  <2>1. PICK k \in 3..Len(E) : E[k] = DocEntry(y, f)
    BY <1>1 DEF IsLetter
  <2>2. k \in 1..Len(E)
    <3>1. Len(E) \in Nat
      BY <1>1, TextIs
    <3> QED
      BY <3>1
  <2>3. DOMAIN Back(E) = 1..Len(E) /\ Back(E)[k].name = ReadText(E[k].name)
    BY <1>1, <2>2, BackIs
  <2>4. E[k].name = EntryName(y.path)
    BY <2>1 DEF DocEntry
  <2>5. Back(E)[k].name = EntryName(y.path)
    BY <1>6, <2>3, <2>4 DEF NameKept
  <2> QED
    BY <2>2, <2>3, <2>5 DEF Named
<1> QED
  BY <1>2, <1>4, <1>5, <1>6 DEF E, d, f

LEMMA InvAccepts ==
  ASSUME FormatInv PROVE ExportsAreImported
<1> SUFFICES ASSUME archive # NoTar, changes = {}, CurrenciesUsed(packed.ledger) \subseteq known,
                    \A x \in packed.ledger.docs : PathIsInside(x.path)
             PROVE  /\ Unpacked.ok
                    /\ \E d \in ReadableDump(Unpacked.entries) :
                         Checks(d, Unpacked.entries, TRUE) /\ Loads(d)
  BY Zenon DEF ExportsAreImported
<1>1. OnWay
  BY DEF FormatInv
<1>2. /\ Unpacked.ok
      /\ DumpOf(Unpacked.entries) = {packed.ledger} /\ ManifestOf(Unpacked.entries) # {}
      /\ \A y \in packed.ledger.docs : Named(Unpacked.entries, EntryName(y.path)) # {} =>
           /\ y \in Included(packed.ledger, packed.files)
           /\ Bytes(Unpacked.entries, EntryName(y.path)) = packed.files[y.path]
  BY <1>1, SentIsFound
<1>3. packed.ledger \in Installs /\ OwnFiles(packed.ledger, packed.files)
  BY <1>1 DEF OnWay, Installs
<1>4. packed.ledger \in ReadableDump(Unpacked.entries)
  BY <1>2 DEF ReadableDump
<1>5. VerifyFiles(packed.ledger, Unpacked.entries)
  <2>1. \A y \in Included(packed.ledger, packed.files) : packed.files[y.path] \in y.sha
    BY <1>3, IncludedIs
  <2> QED
    BY <1>2, <2>1 DEF VerifyFiles
<1>6. Constructs(packed.ledger) /\ Loads(packed.ledger)
  BY <1>3, RowsAre DEF Loads
<1>7. Checks(packed.ledger, Unpacked.entries, TRUE)
  BY <1>5, <1>6 DEF Checks
<1> QED
  BY <1>2, <1>4, <1>6, <1>7

LEMMA ComesBackStep ==
  ASSUME FormatInv, FormatNext PROVE ComesBackAsItWent
<1> SUFFICES ASSUME answer'.said = "imported", changes = {}
             PROVE  /\ ledger' = packed.ledger
                    /\ \A p \in DOMAIN packed.files :
                         NameKept(p) => p \in DOMAIN store' /\ store'[p] = packed.files[p]
                    /\ DOMAIN store' \subseteq DOMAIN store \cup DOMAIN packed.files
  BY DEF ComesBackAsItWent
<1>1. PICK replace \in BOOLEAN : Import(replace)
  <2>1. ASSUME Export PROVE FALSE
    BY <2>1 DEF Export
  <2>2. ASSUME OnTheWay PROVE FALSE
    <3>1. answer' = NoAnswer
      BY <2>2 DEF OnTheWay, Cut, CutShort, Smudge, Repack, Leave, Swap, Edit, Newer, Changed
    <3> QED
      BY <3>1 DEF NoAnswer
  <2>3. ASSUME NEW d, NEW k, Bring(d, k) PROVE FALSE
    BY <2>3 DEF Bring, NoAnswer
  <2> QED
    BY <2>1, <2>2, <2>3 DEF FormatNext
<1>2. PICK d \in DumpOf(Unpacked.entries) : Replace(d, Unpacked.entries)
  BY <1>1, ImportIs
<1> DEFINE entries == Unpacked.entries
           e == packed.ledger
           f == packed.files
           R == RestoredPaths(e, entries)
<1>3. OnWay
  BY <1>1 DEF FormatInv, Import
<1>4. e \in Installs /\ OwnFiles(e, f)
  BY <1>3 DEF OnWay, Installs
<1>5. /\ DumpOf(entries) = {e}
      /\ \A y \in e.docs : Named(entries, EntryName(y.path)) # {} =>
           y \in Included(e, f) /\ Bytes(entries, EntryName(y.path)) = f[y.path]
      /\ \A y \in Included(e, f) : NameKept(y.path) => Named(entries, EntryName(y.path)) # {}
  BY <1>3, SentIsFound
<1>6. ledger' = e /\ store' = RestoredFiles(e, entries)
  BY <1>2, <1>5 DEF Replace
<1> HIDE DEF entries, e, f
<1>7. /\ DOMAIN store' = R \cup DOMAIN store
      /\ \A p \in R : store'[p] = Bytes(entries, EntryName(p))
  BY <1>6 DEF RestoredFiles
<1>8. \A p \in R : p \in DOMAIN f /\ Bytes(entries, EntryName(p)) = f[p]
  BY <1>5 DEF RestoredPaths, Included
<1>9. ASSUME NEW p \in DOMAIN f, NameKept(p) PROVE p \in R
  <2>1. PICK x \in e.docs : x.path = p
    BY <1>4 DEF OwnFiles
  <2>2. x \in Included(e, f)
    BY <2>1 DEF Included
  <2>3. Named(entries, EntryName(p)) # {}
    BY <1>5, <1>9, <2>1, <2>2
  <2> QED
    BY <2>1, <2>3 DEF RestoredPaths
<1> HIDE DEF R
<1> QED
  BY <1>6, <1>7, <1>8, <1>9 DEF e, f

(* ExportsComeBack: an export that nobody touched is accepted by whoever    *)
(* knows its currencies, and gives back every row and every file it held,   *)
(* at its path, with nothing beside them (ledger-archive.ts:123-407).       *)
THEOREM AnExportIsABackup == FormatSpec => ExportsComeBack
<1>1. FormatInv /\ FormatInv' /\ [FormatNext]_formatVars =>
        [ExportsAreImported' /\ ComesBackAsItWent]_formatVars
  <2>1. FormatInv => ExportsAreImported
    BY InvAccepts
  <2>2. FormatInv' => ExportsAreImported'
    BY <2>1, PTL
  <2> QED
    BY <2>2, ComesBackStep
<1> QED
  BY <1>1, FormatKeeps, PTL DEF ExportsComeBack, FormatSpec
=============================================================================

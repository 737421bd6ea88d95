--------------------------- MODULE ArchiveFormat ---------------------------
(***************************************************************************)
(* What an export (F33) holds and what an import makes of it: the rows as  *)
(* ledger.json, the bytes of the documents beside them, in a tar archive.  *)
(*                                                                         *)
(* An archive is made at one install, may be damaged, repacked or edited   *)
(* on its way, and is imported here or at another install, which may know  *)
(* fewer currencies.  Copies and Archive model what runs beside an export  *)
(* and an import; here both are one step and their contents are the point. *)
(***************************************************************************)
EXTENDS Tar

CONSTANTS
  Ledgers,       \* rows an install may hold
  Elsewhere,     \* rows the install an archive is brought to may hold
  Currencies,
  Edits(_),      \* ledger.json as an owner may edit it
  Files          \* segment `files'

VARIABLES
  ledger, store,  \* this install: rows, and the bytes at each stored path
  known,          \* the currencies it knows
  archive,        \* what is being carried: blocks, or NoTar
  packed,         \* what was exported: rows, and the bytes included
  changes,        \* what happened to the archive since
  answer          \* what the last export or import said

formatVars == <<ledger, store, known, archive, packed, changes, answer>>

Empty == [accounts |-> {}, payouts |-> {}, legs |-> <<>>, fees |-> {},
          schedules |-> {}, docs |-> {}, links |-> {}]
NoTar == [blocks |-> <<>>, ragged |-> TRUE]
NoFiles == [p \in {} |-> Zeros(0)]
NoAnswer == [said |-> "nothing", restored |-> 0]
Nothing == [ledger |-> Empty, files |-> NoFiles]

-----------------------------------------------------------------------------
(* Rows *)

Legs(d) == {d.legs[i] : i \in DOMAIN d.legs}
LegIds(d) == {l.id : l \in Legs(d)}
AccountIds(d) == {a.id : a \in d.accounts}
PayoutIds(d) == {p.id : p \in d.payouts}

CurrenciesUsed(d) ==
  UNION ({{p.gross.currency, p.charges.currency} : p \in d.payouts}
           \cup {{l.sent.currency, l.received.currency} : l \in Legs(d)}
           \cup {{f.amount.currency} : f \in d.fees}
           \cup {{m.currency : m \in s.flat} : s \in d.schedules}
           \cup {a.allowed : a \in d.accounts})

(* The constructors of core, which every row of an import goes through. *)
LegIsSound(l) ==
  /\ l.from # l.to
  /\ l.sent.minor > 0 /\ l.received.minor > 0
  /\ l.rated => l.sent.currency # l.received.currency
Constructs(d) ==
  /\ \A l \in Legs(d) : LegIsSound(l)
  /\ \A f \in d.fees : f.amount.minor >= 0
  /\ \A s \in d.schedules : (s.basis = "flat") = (s.flat # {})

(* The schema: CHECKs, which say again what the constructors do, unique     *)
(* indexes and foreign keys.                                                *)
Resolves(d) ==
  /\ Constructs(d)
  /\ \A p \in d.payouts : p.gross.minor > 0 /\ p.charges.minor >= 0
  /\ \A l \in Legs(d) :
       /\ l.payout \in PayoutIds(d) /\ {l.from, l.to} \subseteq AccountIds(d)
       /\ l.parent \subseteq LegIds(d) \ {l.id}
  /\ Cardinality(LegIds(d)) = Len(d.legs)
  /\ \A f \in d.fees : f.leg \in LegIds(d)
  /\ \A s \in d.schedules : s.account \in AccountIds(d)
  /\ Cardinality({x.path : x \in d.docs}) = Cardinality(d.docs)
  /\ \A k \in d.links : k.doc \in {x.id : x \in d.docs} /\ k.leg \in LegIds(d)

(* Faulty: foreign keys are asked row by row, in the order of the ids.      *)
LoadsAsItGoes(d) ==
  /\ \A i \in DOMAIN d.legs :
       d.legs[i].parent \subseteq {d.legs[j].id : j \in 1..(i - 1)}
  /\ \A k \in d.links : k.doc \in {x.id : x \in d.docs}

(* bulkLoad: they are asked of the whole graph, when it commits.            *)
Loads(d) == Resolves(d)

Ascending(legs) == \A i, j \in 1..Len(legs) : i < j => legs[i].id < legs[j].id

PathIsInside(path) == \A i \in DOMAIN path : ~path[i].odd

(* Documents that are themselves an archive or a ledger.json are left out:  *)
(* what they are taken for when put in the place of another entry.          *)
IsDocument(b) ==
  /\ b = [size |-> b.size, blocks |-> b.blocks] /\ b.size \in Nat
  /\ b.blocks \in Seq(ToSet(b.blocks)) /\ Len(b.blocks) = Padded(b.size)
  /\ \A x \in ToSet(b.blocks) :
       x.head = {} /\ \A v \in x.data : "legs" \notin DOMAIN v[1]

(* What an install holds resolves, listed in the order of the ids.          *)
Installs == Ledgers \cup Elsewhere
ASSUME InstallsAssumption ==
  \A d \in Installs :
    /\ d = [accounts |-> d.accounts, payouts |-> d.payouts, legs |-> d.legs, fees |-> d.fees,
            schedules |-> d.schedules, docs |-> d.docs, links |-> d.links]
    /\ d.legs \in Seq(ToSet(d.legs)) /\ Ascending(d.legs) /\ LegIds(d) \subseteq Nat
    /\ Resolves(d) /\ IsFiniteSet(d.docs)
ASSUME LedgersAssumption == \A d \in Ledgers : CurrenciesUsed(d) \subseteq Currencies

(* A row names at most one content, and a path (even one that lost a white  *)
(* space at its end) only one row of an install and one content anywhere:   *)
(* a path begins with the hash.                                             *)
ASSUME DocsAssumption ==
  \A d, e \in Installs : \A x \in d.docs : \A y \in e.docs :
    /\ x.path # <<>> /\ x.path \in Seq(ToSet(x.path))
    /\ \A s \in ToSet(x.path) :
         s = [text |-> s.text, bytes |-> s.bytes, blank |-> s.blank, odd |-> s.odd]
    /\ \A b, c \in x.sha : IsDocument(b) /\ b = c
    /\ ReadText(x.path) = ReadText(y.path) => x.sha = y.sha /\ (d = e => x = y)

(* Who edits a row of a document drops its hash, or names a path the import *)
(* does not take: another hash of the same path is not tried.               *)
ASSUME EditsAssumption ==
  \A d \in Ledgers : \A e \in Edits(d) : \A y \in e.docs : PathIsInside(y.path) =>
    \E x \in d.docs : x.path = y.path /\ y.sha \in {x.sha, {}}

-----------------------------------------------------------------------------
(* toDump and fromDump *)

(* Every table, in the order of the ids. *)
InOrder(legs) ==
  CHOOSE s \in [1..Len(legs) -> ToSet(legs)] : Ascending(s) /\ ToSet(s) = ToSet(legs)
Snapshot(d) == [d EXCEPT !.legs = InOrder(@)]

(* A row is read through its constructor too: an unsound one cannot be.     *)
ReadsBack(d) == Constructs(d)

(* Every field of every row. *)
ToDump(d) == Snapshot(d)

-----------------------------------------------------------------------------
(* exportLedger *)

Json(value) == Content(value, 700)
Manifest(included, missing) ==
  [format |-> "payout-tracker-export", version |-> 1,
   included |-> included, missing |-> missing]
NameOf(file) == <<[text |-> file, bytes |-> 12, blank |-> FALSE, odd |-> FALSE]>>
EntryName(path) == <<Files>> \o path

Included(d, f) == {x \in d.docs : x.path \in DOMAIN f}
DocEntries(d, f) ==
  SetToSeq({[name |-> EntryName(x.path), bytes |-> f[x.path]] : x \in Included(d, f)})
Entries(d, f) ==
  <<[name |-> NameOf("manifest.json"),
     bytes |-> Json(Manifest(Cardinality(Included(d, f)),
                             Cardinality(d.docs \ Included(d, f))))],
    [name |-> NameOf("ledger.json"), bytes |-> Json(ToDump(d))]>>
    \o DocEntries(d, f)

(* One name no header holds fails the whole export. *)
Export ==
  /\ archive = NoTar
  /\ IF ReadsBack(ledger) /\ Packable(Entries(ledger, store))
       THEN /\ archive' = PackTar(Entries(ledger, store))
            /\ packed' = [ledger |-> ledger,
                          files |-> [p \in {x.path : x \in Included(ledger, store)}
                                       |-> store[p]]]
            /\ answer' = [said |-> "exported", restored |-> 0]
       ELSE /\ answer' = [said |-> "refused", restored |-> 0]
            /\ UNCHANGED <<archive, packed>>
  /\ changes' = {}
  /\ UNCHANGED <<ledger, store, known>>

-----------------------------------------------------------------------------
(* What may happen to an archive on its way: once, at most. *)

Changed(kind, a) ==
  /\ archive # NoTar /\ changes = {}
  /\ archive' = a /\ changes' = {kind}
  /\ answer' = NoAnswer
  /\ UNCHANGED <<ledger, store, known, packed>>

Blocks == archive.blocks
Heads == {i \in DOMAIN Blocks : Blocks[i].head # {}}
HeadAt(i) == CHOOSE h \in Blocks[i].head : TRUE

Cut(n) == Changed("cut", [archive EXCEPT !.blocks = Front1(@, n)])
CutShort == Changed("cut", [archive EXCEPT !.ragged = TRUE])
Smudge(i) ==
  Changed("smudged", [archive EXCEPT !.blocks[i] = HeadBlock([HeadAt(i) EXCEPT !.adds = FALSE])])
(* Unpacked and packed again by another tar: a directory entry, or a link. *)
Repack(i, type) ==
  Changed("repacked", [archive EXCEPT !.blocks =
    Front1(@, i - 1) \o <<HeadBlock([HeadAt(i) EXCEPT !.type = type, !.size = 0])>>
      \o Rest(@, i - 1)])

(* Unpacked and packed again with one file fewer, or with another content. *)
Sent == Entries(packed.ledger, packed.files)
Leave(k) == Changed("left out", PackTar(Front1(Sent, k - 1) \o Rest(Sent, k)))
With(k, bytes) == PackTar([Sent EXCEPT ![k] = [name |-> Sent[k].name, bytes |-> bytes]])
Swap(k, bytes) == Changed("swapped", With(k, bytes))
Edit(d) == Changed("edited", With(2, Json(d)))
Newer == Changed("newer", With(1, Json([Manifest(0, 0) EXCEPT !.version = 2])))

(* The archive is brought to another install. *)
Bring(d, k) ==
  /\ archive # NoTar /\ known = Currencies
  /\ ledger' = d /\ known' = k /\ store' = NoFiles
  /\ answer' = NoAnswer
  /\ UNCHANGED <<archive, packed, changes>>

-----------------------------------------------------------------------------
(* importLedger *)

Unpacked == UnpackTar(archive)
(* Entries become a map by their names: a later one wins. *)
Named(entries, name) == {i \in DOMAIN entries : entries[i].name = name}
Bytes(entries, name) == entries[Max(Named(entries, name))].bytes

(* What JSON.parse makes of some bytes, as a set of at most one value.      *)
Parsed(bytes, field) ==
  IF bytes.blocks = <<>> \/ bytes.blocks[1].data = {} THEN {}
  ELSE LET v == (CHOOSE x \in bytes.blocks[1].data : TRUE)[1]
       IN  IF field \in DOMAIN v /\ bytes = Json(v) THEN {v} ELSE {}
ParsedEntry(entries, name, field) ==
  IF Named(entries, name) = {} THEN {} ELSE Parsed(Bytes(entries, name), field)

ManifestOf(entries) ==
  {m \in ParsedEntry(entries, NameOf("manifest.json"), "format") : m.version <= 1}
DumpOf(entries) == ParsedEntry(entries, NameOf("ledger.json"), "legs")

(* Faulty: a file is checked when it is there and says nothing of its hash. *)
PathsOnly(d, entries) == \A x \in d.docs : PathIsInside(x.path)

(* Every path inside the store, and the bytes the row's hash claims. *)
VerifyFiles(d, entries) ==
  \A x \in d.docs :
    /\ PathIsInside(x.path)
    /\ Named(entries, EntryName(x.path)) # {} /\ x.sha # {} =>
         Bytes(entries, EntryName(x.path)) \in x.sha

RestoredPaths(d, entries) ==
  {p \in {x.path : x \in d.docs} : Named(entries, EntryName(p)) # {}}
RestoredFiles(d, entries) ==
  [p \in RestoredPaths(d, entries) \cup DOMAIN store |->
     IF p \in RestoredPaths(d, entries) THEN Bytes(entries, EntryName(p)) ELSE store[p]]

(* Everything that is asked before anything is touched. *)
Checks(d, entries, replace) ==
  /\ CurrenciesUsed(d) \subseteq known
  /\ ledger # Empty => replace
  /\ Constructs(d)
  /\ VerifyFiles(d, entries)

Refuse ==
  /\ answer' = [said |-> "refused", restored |-> 0]
  /\ UNCHANGED <<ledger, store>>

(* Faulty: the ledger is cleared in a transaction of its own.               *)
ReplaceInTwo(d, entries) ==
  /\ store' = RestoredFiles(d, entries)
  /\ ledger' = IF Loads(d) THEN d ELSE Empty
  /\ answer' = [said |-> IF Loads(d) THEN "imported" ELSE "refused",
                restored |-> Cardinality(RestoredPaths(d, entries))]

(* The files, then the rows in one transaction, which may still be refused. *)
Replace(d, entries) ==
  /\ store' = RestoredFiles(d, entries)
  /\ IF Loads(d)
       THEN /\ ledger' = d
            /\ answer' = [said |-> "imported",
                          restored |-> Cardinality(RestoredPaths(d, entries))]
       ELSE /\ answer' = [said |-> "refused", restored |-> 0]
            /\ UNCHANGED ledger

ReadableDump(entries) == IF ManifestOf(entries) = {} THEN {} ELSE DumpOf(entries)

Import(replace) ==
  /\ archive # NoTar
  /\ LET read == Unpacked
         dumps == IF read.ok THEN ReadableDump(read.entries) ELSE {}
     IN  IF \E d \in dumps : Checks(d, read.entries, replace)
           THEN \E d \in dumps : Replace(d, read.entries)
           ELSE Refuse
  /\ UNCHANGED <<known, archive, packed, changes>>

-----------------------------------------------------------------------------
FormatInit ==
  /\ ledger \in Ledgers
  /\ \E with \in SUBSET {x \in ledger.docs : x.sha # {}} :
       store = [p \in {x.path : x \in with} |->
                  CHOOSE b \in UNION {x.sha : x \in {y \in with : y.path = p}} : TRUE]
  /\ known = Currencies
  /\ archive = NoTar /\ packed = Nothing /\ changes = {}
  /\ answer = NoAnswer

OnTheWay ==
  \/ \E n \in DOMAIN Blocks : Cut(n - 1)
  \/ CutShort
  \/ \E i \in Heads :
       Smudge(i) \/ \E type \in {"directory", "link"} : Repack(i, type)
  \/ \E k \in DOMAIN Sent :
       Leave(k) \/ \E x \in ledger.docs : \E bytes \in x.sha : Swap(k, bytes)
  \/ \E d \in Edits(packed.ledger) : Edit(d)
  \/ Newer

FormatNext ==
  \/ Export
  \/ OnTheWay
  \/ \E d \in Elsewhere, k \in SUBSET Currencies :
       CurrenciesUsed(d) \subseteq k /\ Bring(d, k)
  \/ \E replace \in BOOLEAN : Import(replace)

FormatSpec == FormatInit /\ [][FormatNext]_formatVars

-----------------------------------------------------------------------------
(* Properties *)

(* Whatever was done to the archive it came from, a ledger hangs together:  *)
(* a leg moves value between two accounts, below another leg and in a       *)
(* payout that are there, at a rate only between two currencies, and every  *)
(* fee, schedule, link and currency names something this install has.       *)
RowsAreSound ==
  /\ \A l \in Legs(ledger) :
       /\ l.from # l.to /\ {l.from, l.to} \subseteq AccountIds(ledger)
       /\ l.payout \in PayoutIds(ledger)
       /\ l.parent \subseteq LegIds(ledger) \ {l.id}
       /\ l.rated => l.sent.currency # l.received.currency
       /\ l.sent.minor > 0 /\ l.received.minor > 0
  /\ \A f \in ledger.fees : f.leg \in LegIds(ledger)
  /\ \A s \in ledger.schedules :
       s.account \in AccountIds(ledger) /\ (s.basis = "flat" <=> s.flat # {})
  /\ \A k \in ledger.links :
       k.leg \in LegIds(ledger) /\ k.doc \in {x.id : x \in ledger.docs}
  /\ CurrenciesUsed(ledger) \subseteq known

(* A file on disk is the one its row's hash names, whatever was put in the  *)
(* archive in its place (ledger-archive.ts:273-281).                        *)
FilesAreTheirHashes ==
  \A x \in ledger.docs :
    x.path \in DOMAIN store /\ x.sha # {} => store[x.path] \in x.sha

(* A name the reader gives back as it was written: nothing was trimmed.     *)
NameKept(p) == ReadText(EntryName(p)) = EntryName(p)

(* An export that nobody touched is imported, by whoever knows its          *)
(* currencies and says `replace': legs whose parents come later, empty      *)
(* files, files full of zeros and names split over two fields included.     *)
(* Left out: a row whose path the import does not take.                     *)
ExportsAreImported ==
  archive # NoTar /\ changes = {}
    /\ CurrenciesUsed(packed.ledger) \subseteq known
    /\ (\A x \in packed.ledger.docs : PathIsInside(x.path)) =>
  LET read == Unpacked
  IN  /\ read.ok
      /\ \E d \in ReadableDump(read.entries) :
           Checks(d, read.entries, TRUE) /\ Loads(d)

(* And it comes back as it went: every row, and every file at its path,     *)
(* with nothing but those written.  Left out: a name that ends in white     *)
(* space, which is trimmed as it is read and so finds no row.               *)
ComesBackAsItWent ==
  answer'.said = "imported" /\ changes = {} =>
    /\ ledger' = packed.ledger
    /\ \A p \in DOMAIN packed.files :
         NameKept(p) => p \in DOMAIN store' /\ store'[p] = packed.files[p]
    /\ DOMAIN store' \subseteq DOMAIN store \cup DOMAIN packed.files

(* An archive that was cut or damaged gives no half of a file: what is read *)
(* from it, if anything is, are entries of the export, whole and in order.  *)
NothingIsHalfRead ==
  archive # NoTar /\ changes \subseteq {"cut", "smudged"} /\ Unpacked.ok =>
    \A i \in DOMAIN Unpacked.entries :
      LET e == Unpacked.entries[i]
          wrote == Entries(packed.ledger, packed.files)
      IN  i <= Len(wrote) /\ e.bytes = wrote[i].bytes
            /\ e.name = ReadText(wrote[i].name)

(* An import that is refused leaves every row alone, and no file that was   *)
(* there is another one after it.                                           *)
RefusedLeavesTheLedger ==
  [][answer'.said = "refused" /\ known' = known =>
       /\ ledger' = ledger
       /\ \A x \in ledger.docs :
            x.path \in DOMAIN store /\ x.sha # {} => store'[x.path] = store[x.path]]_formatVars

(* "Equal to the archive's own count, or it threw" (ledger-archive.ts:180). *)
CountIsKept ==
  [][answer'.said = "imported" /\ changes = {} =>
       answer'.restored = Cardinality(DOMAIN packed.files)]_formatVars

(* Whatever archive is imported, what is on file afterwards is sound: its   *)
(* rows, the bytes under each hash, and no half of a file.                  *)
LoadsAreSound == RowsAreSound /\ FilesAreTheirHashes /\ NothingIsHalfRead

(* An export is a backup: it is accepted again, and comes back as it went.  *)
ExportsComeBack == [][ExportsAreImported' /\ ComesBackAsItWent]_formatVars
=============================================================================

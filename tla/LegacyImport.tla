---------------------------- MODULE LegacyImport ----------------------------
(***************************************************************************)
(* The importer of the legacy sheet (ImportLegacyCsv, cli/import.ts).      *)
(*                                                                         *)
(* It runs in a process of its own, beside the server, and is one commit   *)
(* per row it writes: a company, a payout, two accounts, a leg, its fees,  *)
(* its documents and their links.  It may be refused or killed between any *)
(* two of them, is run again on the same sheet or on a corrected one, and  *)
(* meanwhile the owner works on what is already there.                     *)
(*                                                                         *)
(* Rows are named by the sheet's codes.  Amounts are where they were read: *)
(* a fee's is the row whose cell it is; a leg's is its row, or recomputed. *)
(* Of row ids only a leg's outlives its row of the sheet: the run keeps it *)
(* for the legs below, and SQLite gives the id of a deleted newest leg to  *)
(* the next leg written.  The owner records no leg beside a run.           *)
(***************************************************************************)
EXTENDS Naturals, Sequences, SequencesExt, Functions

CONSTANTS
  Sheets,        \* each a sequence of rows
  Whole,         \* the sheet with every row, and every cell right
  SwappedPair,   \* the two legs whose exchange fee and GST were swapped
  NoParent,
  MaxRuns, MaxTouches   \* bounds

FeeColumns == <<"tds", "exchange_fee", "gst", "network_fee", "platform_charge">>
SourceCurrencyFees == {"network_fee", "platform_charge"}
SwappedFees == {"exchange_fee", "gst"}

(* A row: leg, parent, payout, company, kind, rate (a rate is given), from, *)
(* fromCurrency, to, toCurrency, fees (cells that are not empty), documents *)
(* (in order), wrong (what a cell that cannot be read is needed for).       *)
RowsOf(s) == {s[i] : i \in 1..Len(s)}
RowFor(s, leg) == CHOOSE r \in RowsOf(s) : r.leg = leg

(* Faulty: the pair is corrected row by row, each in its own place. *)
OwnCells(s, r, fee) == r

Other(leg) == CHOOSE x \in SwappedPair : x # leg
(* Each of the pair is given the other's cells, if the sheet has both.      *)
CellRow(s, r, fee) ==
  IF /\ r.leg \in SwappedPair /\ fee \in SwappedFees
     /\ \A leg \in SwappedPair : \E q \in RowsOf(s) : q.leg = leg
  THEN RowFor(s, Other(r.leg))
  ELSE r

(* The sheet names a leg on one row, and has both legs of the pair, with    *)
(* their four cells filled.                                                 *)
ASSUME WholeAssumption ==
  LET rows == 1..Len(Whole) IN
  /\ Len(Whole) \in Nat
  /\ \A i \in rows : Whole[i].documents \in Seq(ToSet(Whole[i].documents))
  /\ \A i, j \in rows : Whole[i].leg = Whole[j].leg => i = j
  /\ \A leg \in SwappedPair :
       /\ \E i \in rows : Whole[i].leg = leg /\ SwappedFees \subseteq Whole[i].fees
       /\ \E other \in SwappedPair : other # leg

(* What is imported is its first rows, some as yet wrong in a cell that     *)
(* stops the import there: one that cannot be read, a sale's missing rate,  *)
(* a parent no row above has.                                               *)
ASSUME SheetsAssumption ==
  \A s \in Sheets : Len(s) \in 1..Len(Whole) /\ \A i \in 1..Len(s) :
    LET r == s[i]  w == Whole[i] IN
    /\ r.leg = w.leg /\ r.payout = w.payout /\ r.company = w.company /\ r.kind = w.kind
    /\ r.from = w.from /\ r.fromCurrency = w.fromCurrency
    /\ r.to = w.to /\ r.toCurrency = w.toCurrency
    /\ r.fees = w.fees /\ r.documents = w.documents
    /\ \/ r.parent = w.parent
       \/ r.parent # NoParent /\ \A j \in 1..Len(s) : s[j].leg # r.parent

(* What a row writes, in the order it writes it: a document, then its link. *)
Task(do, what) == [do |-> do, what |-> what]
Plan(r) ==
  <<Task("company", r.company), Task("payout", r.payout),
    Task("account", "from"), Task("account", "to"), Task("leg", r.leg)>>
  \o [i \in 1..Len(FeeColumns) |-> Task("fee", FeeColumns[i])]
  \o [i \in 1..2 * Len(r.documents) |->
       Task(IF i % 2 = 1 THEN "document" ELSE "link", r.documents[(i + 1) \div 2])]

-----------------------------------------------------------------------------
VARIABLES
  db,        \* the tables, by natural key
  ids,       \* the row id of each leg on file
  run,       \* the process: its sheet, row, what is left of the row's plan,
             \* and its parentsByCode, from codes to row ids
  runs,
  touches,   \* changes the owner has made
  deleted    \* legs the owner deleted under a run, for the properties

importVars == <<db, ids, run, runs, touches, deleted>>

EmptyDb == [companies |-> {}, accounts |-> <<>>, payouts |-> <<>>, legs |-> <<>>,
            fees |-> <<>>, documents |-> {}, links |-> {}]
NotRunning == [step |-> "none", sheet |-> <<>>, row |-> 0, todo |-> <<>>,
               parents |-> <<>>, leg |-> <<>>]

With(f, k, v) == [x \in DOMAIN f \cup {k} |-> IF x = k THEN v ELSE f[x]]

Account(r, side) == IF side = "from" THEN r.from ELSE r.to
Currency(r, side) == IF side = "from" THEN r.fromCurrency ELSE r.toCurrency

LegUnder(r, parent) ==
  [payout |-> r.payout, parent |-> parent, from |-> r.from, to |-> r.to,
   fromCurrency |-> r.fromCurrency, toCurrency |-> r.toCurrency,
   amount |-> IF r.kind = "sale" THEN "recomputed" ELSE "as written"]
NewLeg(r) == LegUnder(r, r.parent)

(* An INTEGER PRIMARY KEY: one more than the largest id on file.            *)
IdsFree ==
  {id \in {1} \cup {ids[l] + 1 : l \in DOMAIN ids} : \A l \in DOMAIN ids : ids[l] < id}

(* The leg that has a row id now, which the id was not looked up for.       *)
Holder(id) == CHOOSE l \in DOMAIN ids : ids[l] = id
HangsFrom(r) == IF r.parent = NoParent THEN NoParent ELSE Holder(run.parents[r.parent])

(* Of a leg that exists nothing is checked, and nothing else of its row.    *)
CanInsert(r) ==
  /\ r.wrong # "leg"
  /\ r.kind = "sale" => r.rate
  /\ r.parent # NoParent =>
       /\ r.parent \in DOMAIN run.parents
       /\ \E l \in DOMAIN ids : ids[l] = run.parents[r.parent]
  /\ r.payout \in DOMAIN db.payouts /\ {r.from, r.to} \subseteq DOMAIN db.accounts
  /\ r.from # r.to

(* Faulty: added to what is there. *)
FeeAdded(s, r, fee) ==
  [of |-> IF <<r.leg, fee>> \in DOMAIN db.fees THEN "both" ELSE CellRow(s, r, fee).leg,
   currency |-> IF fee \in SourceCurrencyFees THEN run.leg.fromCurrency
                ELSE run.leg.toCurrency]

(* The currency follows the leg as it was found, not the sheet. *)
FeeRow(s, r, fee) ==
  [of |-> CellRow(s, r, fee).leg,
   currency |-> IF fee \in SourceCurrencyFees THEN run.leg.fromCurrency
                ELSE run.leg.toCurrency]

-----------------------------------------------------------------------------
Sheet == run.sheet
Row == Sheet[run.row]
Doing(do) == run.step = "running" /\ run.todo # <<>> /\ Head(run.todo).do = do
What == Head(run.todo).what
Done == [run EXCEPT !.todo = Tail(@)]

Company ==
  /\ Doing("company") /\ Row.wrong # "company"
  /\ db' = [db EXCEPT !.companies = @ \cup {What}]
  /\ run' = Done
  /\ UNCHANGED <<ids, runs, touches, deleted>>

Payout ==
  /\ Doing("payout")
  /\ IF What \in DOMAIN db.payouts THEN UNCHANGED db
     ELSE /\ Row.wrong # "payout" /\ Row.company \in db.companies
          /\ db' = [db EXCEPT !.payouts = With(@, What, Row.company)]
  /\ run' = Done
  /\ UNCHANGED <<ids, runs, touches, deleted>>

(* Created, or widened by the currency it is seen with. *)
AccountMet ==
  /\ Doing("account") /\ Row.wrong # What
  /\ LET a == Account(Row, What)
         held == IF a \in DOMAIN db.accounts THEN db.accounts[a] ELSE {}
     IN db' = [db EXCEPT !.accounts = With(@, a, held \cup {Currency(Row, What)})]
  /\ run' = Done
  /\ UNCHANGED <<ids, runs, touches, deleted>>

LegWritten ==
  /\ CanInsert(Row)
  /\ db' = [db EXCEPT !.legs = With(@, What, LegUnder(Row, HangsFrom(Row)))]
LegKept ==
  /\ run' = [Done EXCEPT !.leg = db'.legs[What], !.parents = With(@, What, ids'[What])]
  /\ UNCHANGED <<runs, touches, deleted>>

(* Faulty: written over, like a fee. *)
TransactionUpserted ==
  /\ Doing("leg") /\ LegWritten
  /\ IF What \in DOMAIN ids THEN UNCHANGED ids
     ELSE \E id \in IdsFree : ids' = With(ids, What, id)
  /\ LegKept

Transaction ==
  /\ Doing("leg")
  /\ IF What \in DOMAIN db.legs THEN UNCHANGED <<db, ids>>
     ELSE /\ LegWritten
          /\ \E id \in IdsFree : ids' = With(ids, What, id)
  /\ LegKept

(* Recorded whether or not the leg was there: an upsert.  An empty cell is  *)
(* passed over. *)
Fee ==
  /\ Doing("fee")
  /\ IF What \notin CellRow(Sheet, Row, What).fees THEN UNCHANGED db
     ELSE /\ Row.wrong # "fee" /\ Row.leg \in DOMAIN db.legs
          /\ db' = [db EXCEPT !.fees = With(@, <<Row.leg, What>>, FeeRow(Sheet, Row, What))]
  /\ run' = Done
  /\ UNCHANGED <<ids, runs, touches, deleted>>

Document ==
  /\ Doing("document")
  /\ db' = [db EXCEPT !.documents = @ \cup {What}]
  /\ run' = Done
  /\ UNCHANGED <<ids, runs, touches, deleted>>

Link ==
  /\ Doing("link") /\ What \in db.documents /\ Row.leg \in DOMAIN db.legs
  /\ db' = [db EXCEPT !.links = @ \cup {<<What, Row.leg>>}]
  /\ run' = Done
  /\ UNCHANGED <<ids, runs, touches, deleted>>

NextRow ==
  /\ run.step = "running" /\ run.todo = <<>>
  /\ run' = IF run.row = Len(Sheet) THEN [run EXCEPT !.step = "finished"]
            ELSE [run EXCEPT !.row = @ + 1, !.todo = Plan(Sheet[run.row + 1])]
  /\ UNCHANGED <<db, ids, runs, touches, deleted>>

Importing ==
  Company \/ Payout \/ AccountMet \/ Transaction \/ Fee \/ Document \/ Link \/ NextRow

(* A cell cannot be read, a write is refused, the process is killed: what   *)
(* was committed stays. *)
Stop ==
  /\ run.step = "running"
  /\ run' = NotRunning
  /\ UNCHANGED <<db, ids, runs, touches, deleted>>

(* npm run import; every table starts migrated, with the first trader.      *)
Start(s) ==
  /\ run.step # "running" /\ runs < MaxRuns
  /\ runs' = runs + 1
  /\ run' = [NotRunning EXCEPT !.step = "running", !.sheet = s, !.row = 1,
                               !.todo = Plan(s[1])]
  /\ UNCHANGED <<db, ids, touches, deleted>>

-----------------------------------------------------------------------------
(* The owner, at the server *)

Touch == touches < MaxTouches /\ touches' = touches + 1 /\ UNCHANGED <<run, runs>>

(* To another currency of the account; the fees stay as they were. *)
OwnerEditsLeg ==
  /\ \E l \in DOMAIN db.legs : \E c \in db.accounts[db.legs[l].to] :
       db' = [db EXCEPT !.legs[l].toCurrency = c, !.legs[l].amount = "the owner's"]
  /\ Touch /\ UNCHANGED <<ids, deleted>>

(* Deleted with everything below it; fees and links go with a leg.          *)
Kept(legs) ==
  [db EXCEPT !.legs = Restrict(@, legs),
             !.fees = Restrict(@, {k \in DOMAIN @ : k[1] \in legs}),
             !.links = {k \in @ : k[2] \in legs}]
Gone(legs) ==
  /\ ids' = Restrict(ids, DOMAIN ids \ legs)
  /\ deleted' = IF run.step = "running" THEN deleted \cup legs ELSE deleted
OwnerDeletesLeg ==
  /\ \E l \in DOMAIN db.legs :
       \E doomed \in SUBSET DOMAIN db.legs :
         /\ l \in doomed
         /\ \A k \in DOMAIN db.legs : k \in doomed <=> k = l \/ db.legs[k].parent \in doomed
         /\ db' = Kept(DOMAIN db.legs \ doomed)
         /\ Gone(doomed)
  /\ Touch

(* Only the payout's own legs are peeled: one of another payout's hanging   *)
(* below them keeps them, and the delete is refused whole.                  *)
OwnerDeletesPayout ==
  /\ \E p \in DOMAIN db.payouts :
       LET legs == {l \in DOMAIN db.legs : db.legs[l].payout = p} IN
       /\ \A l \in DOMAIN db.legs : db.legs[l].parent \in legs => l \in legs
       /\ db' = [Kept(DOMAIN db.legs \ legs) EXCEPT !.payouts = Restrict(@, DOMAIN @ \ {p})]
       /\ Gone(legs)
  /\ Touch

OwnerNarrowsAccount ==
  /\ \E a \in DOMAIN db.accounts : \E c \in db.accounts[a] :
       /\ db.accounts[a] # {c}
       /\ db' = [db EXCEPT !.accounts[a] = @ \ {c}]
  /\ Touch /\ UNCHANGED <<ids, deleted>>

OwnerDeletesAccount ==
  /\ \E a \in DOMAIN db.accounts :
       /\ \A l \in DOMAIN db.legs : a \notin {db.legs[l].from, db.legs[l].to}
       /\ db' = [db EXCEPT !.accounts = Restrict(@, DOMAIN @ \ {a})]
  /\ Touch /\ UNCHANGED <<ids, deleted>>

OwnerDeletesDocument ==
  /\ \E d \in db.documents :
       db' = [db EXCEPT !.documents = @ \ {d}, !.links = {k \in @ : k[1] # d}]
  /\ Touch /\ UNCHANGED <<ids, deleted>>

ImportInit ==
  /\ db = EmptyDb /\ ids = <<>> /\ run = NotRunning /\ runs = 0
  /\ touches = 0 /\ deleted = {}

ImportNext ==
  \/ \E s \in Sheets : Start(s)
  \/ Importing
  \/ Stop
  \/ OwnerEditsLeg \/ OwnerDeletesLeg \/ OwnerDeletesPayout
  \/ OwnerNarrowsAccount \/ OwnerDeletesAccount \/ OwnerDeletesDocument

ImportSpec == ImportInit /\ [][ImportNext]_importVars

-----------------------------------------------------------------------------
(* What the sheet says, apart from how it is read *)

Imported(s) ==
  LET rows == RowsOf(s)
      seen == {<<r.from, r.fromCurrency>> : r \in rows} \cup {<<r.to, r.toCurrency>> : r \in rows}
      charged == {<<r.leg, fee>> : r \in rows, fee \in ToSet(FeeColumns)}
      cell(k) == IF k[1] \in SwappedPair /\ k[2] \in SwappedFees THEN Other(k[1]) ELSE k[1]
  IN [companies |-> {r.company : r \in rows},
      accounts |-> [a \in {x[1] : x \in seen} |-> {x[2] : x \in {y \in seen : y[1] = a}}],
      payouts |-> [p \in {r.payout : r \in rows} |->
                     s[CHOOSE i \in 1..Len(s) : s[i].payout = p
                         /\ \A j \in 1..i - 1 : s[j].payout # p].company],
      legs |-> [l \in {r.leg : r \in rows} |-> NewLeg(RowFor(s, l))],
      fees |-> [k \in {x \in charged : x[2] \in RowFor(s, cell(x)).fees} |->
                  [of |-> cell(k),
                   currency |-> IF k[2] \in SourceCurrencyFees THEN RowFor(s, k[1]).fromCurrency
                                ELSE RowFor(s, k[1]).toCurrency]],
      documents |-> UNION {ToSet(r.documents) : r \in rows},
      links |-> UNION {{<<d, r.leg>> : d \in ToSet(r.documents)} : r \in rows}]

(* Properties *)

ImportTypeOK ==
  /\ run.step \in {"none", "running", "finished"}
  /\ run.step = "running" => run.sheet \in Sheets /\ run.row \in 1..Len(run.sheet)
  /\ \A a \in DOMAIN db.accounts : db.accounts[a] # {}
  /\ \A k \in DOMAIN db.fees : k[2] \in ToSet(FeeColumns)

(* Once the whole sheet has been read to its end the tables hold what it    *)
(* says, no more and no less, and the swapped pair once corrected is not    *)
(* swapped back: whichever runs were refused, killed or given a part of the *)
(* sheet before it, and between which two writes.  The owner having changed *)
(* nothing (import-legacy-csv.ts: "safe to re-run after it fails half way").*)
(* The pair's four cells are filled: an upsert cannot empty one again.      *)
WholeSheetIsImported ==
  run.step = "finished" /\ run.sheet = Whole /\ touches = 0 => db = Imported(Whole)

(* A run over what it has already imported writes nothing new (cli/import,  *)
(* "reports what it found and inserts nothing"), fees and links included.   *)
SecondRunChangesNothing ==
  [][run.step = "running" /\ run.sheet = Whole /\ db = Imported(Whole) /\ touches' = touches
     => db' = db]_importVars

(* A leg that is there is the owner's: no run changes it or takes it away,  *)
(* whatever the sheet says of it by now.                                    *)
LegsAreLeftAlone ==
  [][touches' = touches =>
       \A l \in DOMAIN db.legs : l \in DOMAIN db'.legs /\ db'.legs[l] = db.legs[l]]_importVars

(* Whatever the owner deletes under a running import, every leg keeps its  *)
(* payout and its accounts, hangs from an older leg on file or from none,   *)
(* and no fee or link outlives what it is of.                               *)
NothingDangles ==
  /\ \A l \in DOMAIN db.legs :
       /\ db.legs[l].payout \in DOMAIN db.payouts
       /\ {db.legs[l].from, db.legs[l].to} \subseteq DOMAIN db.accounts
       /\ \/ db.legs[l].parent = NoParent
          \/ /\ db.legs[l].parent \in DOMAIN db.legs
             /\ ids[db.legs[l].parent] < ids[l]
  /\ \A k \in DOMAIN db.fees : k[1] \in DOMAIN db.legs
  /\ \A k \in db.links : k[1] \in db.documents /\ k[2] \in DOMAIN db.legs

(* "Parents resolved by code" (import-legacy-csv.ts:243-244): a leg hangs   *)
(* from the leg its row names.  It does not hold: parentsByCode keeps row   *)
(* ids, and the id of a deleted leg may by now be another's.                *)
ParentsByCode ==
  \A l \in DOMAIN db.legs : db.legs[l].parent = RowFor(Whole, l).parent

(* Only that can move a leg: one that hangs elsewhere than its row says, in *)
(* another payout even, is of a row whose parent the owner deleted under a  *)
(* run.                                                                     *)
OnlyTheOrphanedMove ==
  \A l \in DOMAIN db.legs :
    db.legs[l].parent = RowFor(Whole, l).parent \/ RowFor(Whole, l).parent \in deleted

(* The import can be run again and again, killed anywhere: nothing dangles  *)
(* meanwhile, no leg is put below another than its row names unless the     *)
(* owner deleted that one under a run, and a run that gets to the end       *)
(* leaves the whole sheet.                                                  *)
ImportIsWhole ==
  ImportTypeOK /\ WholeSheetIsImported /\ NothingDangles /\ OnlyTheOrphanedMove
=============================================================================

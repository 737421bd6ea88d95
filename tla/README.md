# Payout Tracker: specifications and proofs

This directory holds TLA+ models of the Payout Tracker (`packages/core`,
`apps/api`, `apps/web`), the TLC configurations that check them on small
instances, and proofs that TLAPS checks for every value of their constants.
`PROJECT.json` relates every definition to the lines it models, every property
to a run and to a mutation of the code that breaks it, and the hazards of the
code to the properties that watch them.

## The system

One Node process serves a Fastify API over one SQLite database
(`better-sqlite3`) and a directory of files. `packages/core` holds entities and
use cases behind ports, `apps/api` the adapters, routes and guards, `apps/web` a
React client that caches answers. `npm run import` and `npm run backup` are
processes of their own over the same files.

Four facts decide what can interleave with what:

* `better-sqlite3` is synchronous. The `await`s a use case puts on a repository
  are already settled, so a chain of them is one run of the microtask queue and
  no other request is served inside it. In the models it is one step.
* The real waits of the server are argon2 (`hash`, `verify`), the file system,
  another machine (`fetch`), and the arrival of a request's body, before which
  the guards have already run. Between two of them any other request may run.
  Each is a step boundary in the models.
* A statement commits on its own unless it is inside `database.transaction`. A
  process that is killed, or a use case that throws, between two statements
  leaves the first one behind.
* The browser asks, the server answers and the answer lands in three steps, and
  two requests may be answered and land in any order. React draws between them,
  and what a callback sees may be of an earlier drawing.

| Component | State | Operations | Modelled by |
|---|---|---|---|
| Ledger use cases | `payouts`, `transactions`, `transaction_fees`, `accounts`, `account_currencies`, `fee_schedules` | record and delete payouts; record, edit, delete accounts; record movement and sale, edit and delete legs | `Ledger` (their shape), `Books` (their amounts) |
| Repository deletes | the same tables, inside one transaction | layered `DELETE`s until nothing changes | `PeelDelete` |
| Documents | `documents`, `document_links`, `data/files` | attach, link, detach, delete, download | `Evidence` |
| Archive, backup | all tables and files | import; export and backup file by file | `Archive`, `Copies`; contents in `Tar`, `ArchiveFormat` |
| Authentication | `users`, `sessions`, the bound host | sign in (with rehash), use, sign out, change credentials, start, stop, manual recovery | `Credentials` |
| Start, migrations, secrets | `schema_migrations`, the schema, `.env` | migrate, repair, seed, read or mint the secret, listen; upgrades | `Startup` |
| Fee engine, charge, money | none (pure) | expected fees, comparison with recorded ones, implied charge, conversion, rounding | `Money`, `Fees` |
| Settlement, balances, sweep | none | sums and checks over the rows | `Books` (allow-lists in `Ledger`) |
| Scope, trail, financial year | the selection of a tab | which rows a screen or a report is about | `Scope` |
| Legacy CSV import | all tables, a process of its own | row by row, call by call, again and again | `LegacyImport` |
| Chain lookup | an explorer, a memory of tokens | questions with timeouts, a form that asks | `ChainLookup`, `ChainForm` |
| Web cache | react-query cache | query, mutate, invalidate, guess, clear | `WebCache` |
| Web sessions, navigation, dialogs | cookie, auth entry, history, open dialogs | guards, redirects, answers, the four dialogs of a payout | `Session`, `Screens` |
| Companies, traders | their tables | insert, update | constants elsewhere: single rows, no interaction |

What makes each of them correct, and hard:

* **Ledger.** Legs form a tree through `parent_id`, and no constraint of the
  schema keeps a tree inside one payout; ids of deleted rows are handed out
  again (`INTEGER PRIMARY KEY` without `AUTOINCREMENT`); a leg and its fees are
  written in several commits.
* **Money.** A sale's proceeds follow from its rate, its fees from schedules, a
  charge from two amounts as typed; a settlement, a balance and a sweep each
  recompute from the rows what the recording computed from the command, with
  roundings of their own, and edits replace amounts under fees that stay.
* **Repository deletes.** `parent_id` is `ON DELETE RESTRICT`, so a delete is a
  loop of statements; order, termination and atomicity are all in question.
* **Documents.** Rows are transactional and files are not; files are shared by
  content and rewritten in place.
* **Archive.** A check, then many waits, then a transaction that erases. What
  comes in may be cut, damaged, edited, or another install's.
* **Authentication, start.** What is read before an argon2 call is written back
  whole after it; the shipped password must never be served beyond loopback, over
  any series of restarts, releases, kills and manual recoveries.
* **Legacy import.** One commit per row it writes, killed or refused anywhere and
  run again on a corrected sheet, while the owner works on what is there.
* **Chain form.** An answer may be for a link that is no longer there and land on
  a field somebody is typing in.
* **Web.** Every write names the cache entries it made wrong; an answer may find
  its session gone, its dialog closed, its page another one.

## Modules

| Module | What it is |
|---|---|
| `Forest` | operators on a table of legs: subtree, legs of a payout, next row id |
| `LegTree` | abstract: what the ledger promises about its legs, every delete one step |
| `PeelDelete` | the repositories' delete loops; implements `LegTree` |
| `Scope` | over `PeelDelete`: selections, periods, the reads that honour them, the trail |
| `Ledger` | the write use cases; implements `LegTree` |
| `Money`, `Fees` | exact amounts, rates, rounding, decimals as typed; fee schedules and the engine |
| `Books` | the amounts of one payout: recordings, edits, deletes, and the reports over them |
| `Evidence` | documents, links and files |
| `Archive` | over `Evidence`: the import |
| `Copies` | over `Archive`: export and backup beside it all |
| `Tar`, `ArchiveFormat` | the codec, and what an archive holds and an import makes of it |
| `Credentials` | the account, its sessions and the server's start as one step |
| `Startup` | over `Credentials`: the start step by step; implements it |
| `LegacyImport` | the importer of the legacy sheet |
| `ChainLookup`, `ChainForm` | the server's questions to explorers; over it, the form that asks |
| `WebCache` | the browser's query cache beside the server's rows |
| `Session`, `Screens` | guards, auth entry and history of a tab; over it, the payout page and its dialogs |
| `MC*` | the constants TLC needs, and symmetry sets |
| `PeelDeleteProofs`, `LedgerProofs`, `BooksProofs`, `EvidenceProofs`, `StartupProofs`, `WebCacheProofs`, `ChainProofs`, `ScreensProofs` | lemmas and theorems |

Operators whose comment begins with *Faulty:* are what a plausible mistake in
the definition they stand by would look like. No specification uses them;
`PROJECT.json` lists, for every property, one that the property catches.

### Forest, LegTree, PeelDelete

A table of legs is a function from row ids to records with `payout` and
`parent`. `Subtree` is the least closed set that contains a leg: the breadth-first
walk of `DeleteTransaction` and the recursive CTE of the repository, without
recursion. `IsNextRowId` is SQLite's rule, one more than the largest id present.

`PeelDelete` opens a transaction (`txn.work` is its view of the table), runs one
`Pass` per `DELETE`, and ends in `CommitLeg`, `CommitPayout` or `Rollback`. A
rollback is a kill or a failed last statement, and may come at any point. The
delete of a payout's row cascades over what is left and fails when a leg of
another payout hangs below, as the foreign keys do.

### Scope

`about` gives each payout its trader, company and day. A selection (trader, from
month, to month) is state of one tab that nothing else writes, so it is quantified
over instead of carried: `Clicked` gives the selections one click leads to, and
`EveryClickLeavesAPeriod` says that the set is closed. Days are year, month, day of
the calendar, and compared as the texts the code compares; `LastDay` asks `Date.UTC`
for the day before the first of the next month, `DaysIn`. Years have three or four
digits. The constants have to contain what the clicks reach: January, March, April and
December, and with every year in use the one before it. A payout is promised to be
reported once when it is dated between the first day of the six years offered and today. `Roots` and `Trail` are the tree `get-payout-trail` builds.
Reads hold at `Quiet` states because a read is synchronous and no transaction is
open when it runs.

### Ledger

`payouts`, `legs`, `fees`, `accounts` (each with its allow-list) and `scheduled`
are tables; `writing` is the recording whose fees are still to be written.
`RecordTransaction` and `RecordSale` insert the leg in one step, their fees follow
in one step each (`RecordFee`), and any of them may refuse (`RefuseFee`): the
amount may have too many decimals, the schedules may be ambiguous. No other
request runs meanwhile, so every other action requires `IsIdle`, but the process
may be killed (`Crash`). Which fees come, and whether they land, is a parameter
(`ChargeLists`, `SchedulePlans`, `TdsLists`); amounts, dates, codes and addresses
only decide refusals, and a refused request changes nothing. The four kinds of
movement behave alike and are one.

### Money, Fees and Books

An amount is a count of minor units and a currency. The powers of ten are
constants (`Unit[c]`, `RateUnit`, `BasisPoints`), so that a small instance can use
small ones and the proofs hold for all. A decimal somebody typed is its digits and
the power of ten of its decimals: `impliedCharge` computes on those, `Money` on
minor units, and where the two disagree matters below. A rate of 0 stands for
`null`, as a tds of -1 does.

The fees of a leg are a function of the fee type, because of the `UNIQUE`
constraint and the upsert; `NoFee` stands where no row is. Schedules are a set:
neither the code nor the SQL gives their order a meaning. `Resolvable` says when
`expectedFees` does not throw.

`Books` keeps what `Ledger` abstracts and abstracts what it keeps: trees, payouts,
allow-lists, duplicate codes and kills between statements are `Ledger`'s, so here
a recording is one step and a delete takes any set of legs. What may be typed is a
parameter (`Entries`, `TypedCharges`, `TdsAmounts`) and so are the schedules, which
no use case writes. A recording that throws after its insert leaves the leg
without the fee, as in `Ledger`. `answer` is what the last sale answered.
`NetCredited` (settlement), `Balance` and `Flagged` (sweep) are operators over the
rows. `Flagged` is the sweep's view of one leg's rate, amounts and fees; its
comparison with the parent, allow-lists and bank legs are not part of it.

### Evidence, Archive, Copies

A content stands for a hash, an extension for what the uploaded name ends in; a
path is the pair. `files` says of each path whether it is absent, whole, torn, or
being written and by which request. An upload is mkdir (`opening`), the truncating
open (`writing`), the last byte (`stored`), and the synchronous rest: look the hash
up, insert the row, link. A delete removes the row in one step and the file in a
later one. A download looks at the file in one step and opens it in a later one.
A kill turns files being written into torn ones.

`Archive` adds the import: it asks whether the ledger is empty, writes the files
that are in the archive one after the other exactly as an upload does, and loads the
graph in the step that follows the last of them. A row whose bytes are not in the
archive is loaded like the others (ledger-archive.ts:308-310: "not an error"). An
archive without any bytes has nothing to wait for and is loaded in the step that asked.
`lost`, which only properties read, names the paths whose bytes this code gave up: to
the `rm` of a delete that came after somebody else counted on the file, to a kill while
it was written again, or because a row came without them. A path leaves `lost` when its
file is written to the end. `Copies` adds an export or a
backup: the rows at one instant (`BeginCopy`), then every file, looked for in one
step (`Look`) and read in a later one (`Read`). A backup is its own process and
outlives the server's death (`KillBeside`); an export does not.

### Tar, ArchiveFormat

Bytes are modelled by the block of 512: a header, a part of some content, or zeros,
which a content may hold too. A name is a sequence of path segments with their
lengths; `SplitName` is the search for the `/` at which a ustar name splits,
`ReadText` the trimming of the reader. Octal digits and the checksum are a header that
is sound or is not.

`ArchiveFormat` makes an archive of a ledger (`Export`), lets one thing happen to
it on its way (`OnTheWay`: cut, damaged, repacked, edited) or replaces it by
another install's or a later version's (`Bring`), and imports it. A cut, a damaged
block or a changed type is done to the blocks; what leaves a file out, swaps its bytes
or edits ledger.json unpacks the archive and packs it again (`Sent`, `With`). An import
is every check of `importLedger` in the code's order; it may be refused before
anything is written, after files are written, or at the commit.

What the constants are assumed to be: an install's rows satisfy its schema and come in the
order of their ids; a row names one content at most, and a path one content at every
install, because a path begins with the hash of its content and that is unique
(001_initial.sql:170). Documents that are themselves an archive or a ledger.json are
left out, and so is an edit that claims another hash for a path: such a row, imported
without its file, would stand beside the file of the same path that is there.

### Credentials, Startup

`user` is the one row of `users` (password, cost of its hash, must-change flag),
`sessions` the sequence of session rows, `req` where each request waits and which
row it has read, `host` what the server listens on. A password stands for itself
and for any hash of it. `epoch` and the sessions' `epoch`, `since` and `used` are auxiliary:
they count the credential changes carried through and remember which credential a
session was opened with, after which change its row was written, and when it was last
used. The rest:

* a sign-in reads the row, verifies it (`verifying`), may rehash it (`rehashing`),
  then writes the row it read and opens the session;
* a change passes the guards, waits for its body (`arriving`), reads the row,
  verifies the current password (`confirming`), hashes the new one (`hashing`), and
  then updates the row and sweeps the other sessions: two commits, one step unless
  the process dies between them (`DieBeforeSweep`);
* `Start` repairs an empty table, reads the flag, and refuses a remote address while
  it is set; it may be a release that hashes at a higher cost;
* `EmptyUsers` is the documented recovery, by hand while the server is down.

`Startup` takes `Start` apart: `boot` is the start under way, `release` the files
it finds, `applied` the table of migrations, `ledger` what migration 004 rebuilds,
`env` the lines of `.env`, where a 0 is a `SESSION_SECRET=` that names nothing: a
file begins without a line, or as a copy of .env.example with that one, and may be lost
or copied again while the server is down. The first line is read, the secret minted when
it is empty is appended. Each migration is one commit, the repair another, and a
kill may come after any of them; `Deploy` puts another release in place, older or
newer or with an edited file. `npm run import` runs the same steps and goes no
further. A migration is its file's text, and `Effects` says what the two that
matter leave.

### LegacyImport

`db` is the tables by natural key, `ids` the row id of each leg, `run` the process: its
sheet, row, what is left of that row's plan of repository calls, and `parents`, its map
from codes to row ids. An id is one more than the largest on file, so the id of a newest
leg that was deleted goes to the next one, and a run that remembers it hangs a leg from
whoever has it now. The owner records no leg beside a run: he could take such an id too,
with a leg that is in no sheet. `Importing` does one of them
(`Company`, `Payout`, `AccountMet`, `Transaction`, `Fee`, `Document`, `Link`); an
empty fee cell is passed over, so a row of any width has one plan. `Stop` is a bad
cell or a kill. The owner edits and deletes between (and beside) the runs. Amounts
are where they were read: a fee's is the row whose cell it is.

`Whole` is the owner's sheet (`WholeAssumption`): a leg on one row, below its parent's
row and in its payout, the swapped pair with their four cells filled. Three of these
nothing in the code asks for, and without them the import is not what it says: the schema compares
no payouts of a leg and its parent, a leg on two rows is kept as the first said, and an
upsert never empties a cell. A sheet that is imported is the whole's first
rows, wrong at most in cells that stop the import there (`SheetsAssumption`).

### ChainLookup, ChainForm

`requests` says where each lookup waits: which chain it is trying, and which of the
explorer's calls is next; each call may answer, fail or time out, and `onChain`
moves between them. `tokens` is the memory all requests share. `ChainForm` is the
fieldset and the form around it: the pause (`timer`), the call in flight with the
rendering it was armed in (`call`), the values and what an answer last put there
(`mine`, `filledAmount`), and auxiliary `typed`, what the reader has typed since.

### WebCache

A query is its key; its entry has what the library keeps (fetching, stale, on
screen) and what it cannot know: whether the rows have changed since (`truth`)
and whose session read it. `Writes` says which rows a mutation changes on the server,
`Invalidated` which keys its hook names. A read is asked, read by the server and
lands; a write commits and is heard of, or not (`heard`). `settle` is the
optimistic settlement: cancel, guess, answer, roll back. `drawn` says whether the route
guards let the screens in, as last drawn: a 401 clears the cache at once and the screens
stay until something draws the guards again (`Redraw`), so that what still runs on them
may put an entry back into the cleared cache.

### Session, Screens

The server side (`live`, `mustChange`) is the guards' view; the browser has a cookie
and one entry `me` about the user. `Draw` decides what the route guards redirect to
(`Redirects`), and a redirect is carried out in a later step (`due`), so that an
answer's callback may come between. A 401 clears the cache, drops the entry that
`AuthProvider` watches and puts a new one in its place that nobody watches
(queryClient.ts:51): the provider goes on showing what it last saw (`adrift`) until a
mutation of its own or a reload has it drawn again. `lost` records what this
tab was not told: `ended`, a session that ended elsewhere or whose end never landed;
`refused`, a guard's 401 taken for a wrong password; `crossed`, an answer about a session
the tab had left. `Screens` adds the page: the state of its trail (which a refused read leaves "failed"), one of four dialogs,
its subject as it was when it was asked about, and the mutation in flight. Back or
Forward from one payout to another keeps the page and its dialogs. Its `Next` bounds the requests asked.

## Runs

| Run | Instance | Distinct states | Shows |
|---|---|---|---|
| `PeelDelete` | 2 payouts, 4 legs, 2 traders, 2 companies, 4 days around month and year ends | 60 thousand | every pass leaves a forest, deletes are the atomic ones of `LegTree`, and they end; every selection is answered with the payouts it names, on every screen; every payout is in one year's report; the trail leaves no leg out |
| `Ledger` | 2 payouts, 2 legs, 2 accounts, 2 currencies, two-fee plans, kills | 100 thousand | rows hang together, the count reported is what goes, ids are reused clean, `LegTree` is implemented, and only an account edit contradicts a leg |
| `Books` | 2 legs, 10 entries, 3 currencies of scales 2, 2 and 3, 5 sets of schedules | 273 thousand | a fresh sale is clean, its answer is on file, a filled charge reconciles, settlement and balances agree as far as the sweep is content |
| `ArchiveImport` | an upload, delete or download and an import of one of 3 backups, with all, some or none of their bytes, 2 contents, 2 extensions, a copy, kills anywhere | 3.0 million | nothing dangles; a row's file is there or being written, unless it was lost in one of three known ways; a copy loads and passes over only what was deleted or lost |
| `ArchiveFormat` | 3 graphs of rows with up to 2 of 7 documents, another install's archive, one change on the way | 118 thousand | an export comes back as it went; what is loaded is sound; what is refused changes no row |
| `Credentials` | 2 requests, 2 changes, 2 costs of a hash, a lifetime of 2, 4 ticks, kills | 9.8 million | a change that is answered has ended whatever session was open, but its own; sessions last as long as their use |
| `Startup` | 3 releases, one with an edited file, 2 requests, .env lost or copied from the example, kills | 4.1 million | the shipped password is never served remotely; migrations are true of the database; the first line of .env decides whether a restart signs anybody out; `Credentials` is implemented |
| `UpgradeKeepsTheLegs` | the same, one request | | *violated*: the rebuild of the payouts table takes every leg |
| `LegacyImport` | 3 runs over a sheet of 4 rows, its first 2, or one of its first 3 and a bad row, 2 changes by the owner | 2.6 million | a finished run has imported the whole sheet; nothing dangles, and a leg hangs elsewhere than its row says only if the leg named there was deleted under a run; a second run changes nothing; legs are left alone |
| `ChainForm` | a page, a bare hash of two chains, junk; 2 lookups, 2 edits; a token transfer and a deployment | 572 thousand | answers are true; typed addresses are kept; no link is looked up twice for nothing, and every link and call comes to an end |
| `WebCache` | 2 payouts, one mutation of any kind, a settlement, 2 sessions | 3.6 million | fresh is what the server holds, nobody waits for nothing, nothing but a settlement's rollback survives a sign-out |
| `Screens` | 2 payouts, 1 leg, 4 dialogs, 2 requests in flight, 4 in all | 1.3 million | a tab is wrong about its session only for what it was not told; an answer closes no dialog of another kind nor one about another leg or link; redirects end; a chosen password arrives |

Why the bounds are enough:

* Four legs in `PeelDelete` give every tree of depth four and layers of more than
  one leg; the days fall on both sides of a month's, a leap month's and a
  financial year's end. Its three properties of deletes but `DeletesEnd` are
  proved for any number.
* In `Ledger` two legs suffice for a parent in another payout, an id handed out
  again under a child or a fee, and a delete half done, and all of that run's
  properties but `OnlyNarrowingContradicts` are proved for any number.
* In `Books` the numbers are small but uneven: rates of 10, 9, 975 and 965
  tenths, proceeds and fees that fall on a half, sides typed with fewer and with more
  digits than they need, one currency with a finer unit than the others, a day on
  which schedules change over, contradict each other or lack their base; two legs
  give every pair, and every sum over legs is a sum of terms of one leg.
* Two requests in flight give every pair of waits an interleaving, and no action of
  `Evidence`, `Archive` or `Credentials` looks at more than one other request. Two
  extensions of two contents give the shared and the separate path. Two *uploads*
  at once are left to the proof (`LoadedRowsHaveFiles`), an upload beside an import,
  which writes files alike, to the run. The three backups hold all of their bytes, one
  of two, and none.
* The costs 1 and 2 give one rehash. With a lifetime of two ticks a session is used
  before, at and after its half-way mark; four ticks are two lifetimes. One
  password beside the shipped one gives a change of password and one that keeps it; two
  that are chosen are left to `Startup`. Lifetimes
  with the mark between two ticks are left to the proof.
* Three releases give an upgrade over one and over two steps, a downgrade, and an
  edited file; two secrets give the one lost and the one that replaced it.
* Ledgers and documents of `ArchiveFormat` are chosen for what the format can
  get wrong: a leg before its parent, an empty file, a file of zeros, names that
  just split and just do not, one that ends in white space, the legacy import's
  names, a currency unknown elsewhere.
* The sheets of `LegacyImport` have the swapped pair, whole and in half, a parent that
  comes first or not at all, a cell that cannot be read, shared accounts and documents; three runs are a part, a whole,
  and one more; two changes of the owner are one before and one during a run.
* `WebCache` takes one mutation at a time because each hook's invalidation looks at
  nothing but the cache; two sessions are the one that ended and the next.
* In `Screens` a history of two entries gives Back and Forward between two payouts, and
  between a payout and a cage; four requests are two that race and two that follow.

`CHECK_DEADLOCK FALSE` is said where a bound stops the system (`ArchiveFormat`,
`ChainForm`, `LegacyImport`, `Screens`, `WebCache`): requests asked, edits made, runs
started. Elsewhere TLC checks deadlock.

### Fairness

* `PeelDelete`: weak fairness of the passes and of the commits. A transaction is
  synchronous code with the only thread, so once begun it runs on.
* `ChainForm`: of the timer (a `setTimeout` that was not cleared fires), of the call
  in flight (every request carries a timeout, so it is answered or fails) and of each
  request the server works on. Not of the reader.
* `Screens`: of drawing. React draws what has changed, and a redirect is an effect of
  drawing. Not of answers: they may be lost.

Nothing is assumed of requests, clients or restarts elsewhere, and no liveness is
claimed there.

## Where code and documents disagree

One disagreement is kept as a run. **`UpgradeKeepsTheLegs`**: `004_traders.sql` makes
`payouts` again and drops the old table. The connection has `foreign_keys = ON`;
SQLite then deletes the rows of a table before it drops it, `defer_foreign_keys`
postpones checks and no cascade, and `transactions.payout_id` is `ON DELETE CASCADE`.
The payouts survive, in the new table; every leg goes. (SQLite itself does the same
when given the same statements.)

The others were met while modelling. Their properties are definitions of the modules,
stated beside those the runs check, and TLC finds each violated when the
configuration names it (under INVARIANT, or under PROPERTY where it is about steps):

| Property | Run it with | What happens |
|---|---|---|
| `Ledger!FeesLandWithTheirLeg` | `Ledger.cfg`, and with `MayCrash = FALSE` | the leg is committed before its charge is read (record-transaction.ts:136); api.ts:402 says "so a fee is never half-recorded" |
| `Books!ChargeIsCountedOnce` | `Books.cfg` | a charge within one currency is debited from an amount already net of it (get-account-balances.ts:119 against 56-59) |
| `Books!AnswerIsAlwaysOnFile` | `Books.cfg` | with a schedule that expects tds, the tds typed replaces the expected row (record-sale.ts:120, an upsert) while the answer adds up both; fee-engine.ts:123 says that tds "has no schedule at all and never will" |
| `Evidence!EveryRowHasItsFile` | `ArchiveImport.cfg` | a document deleted while the same bytes are uploaded leaves a row without its file (delete-document.ts:64 against 33-36); so does a kill while the bytes of a row are written again, and a row imported without them |
| `Credentials!OthersAreRevoked` | `Credentials.cfg` | a sign-in in progress outlives the revocation of sessions (sign-in.ts:79 against change-credentials.ts:130) |
| `Credentials!ReplacedKnowingly` | `Credentials.cfg` | of two changes under way the second replaces a password that it has not verified (change-credentials.ts:128, the row read before argon2) |
| `Credentials!RehashKeepsThePassword` | `Credentials.cfg` | a rehash in progress writes an old password back (sign-in.ts:73 against user.ts:79) |
| `Startup!CookiesOutliveARestart` | `Startup.cfg` | with `.env` copied from `.env.example`, whose line is empty, every start finds the empty line first, mints a secret, appends it and signs everyone out (.env.example:10, README.md:110) |
| `LegacyImport!ParentsByCode` | `LegacyImport.cfg` | the owner deletes the newest leg under a run, the next insert takes its id, and a child goes in below that leg, of another payout even: "parents resolved by code" (import-legacy-csv.ts:243-244) remembers row ids (245, 292, 503) that SQLite hands out again (001_initial.sql:110) |
| `ArchiveFormat!CountIsKept` | `ArchiveFormat.cfg` | an extension that ends in white space is trimmed as it is read: the document comes back without its bytes (ledger-archive.ts:177-184) |
| `ChainForm!TypedAmountKept` | `ChainForm.cfg` | the callback sees the amount as it was when the lookup was armed, and overwrites one typed since (RecordTransactionForm.tsx:212) |
| `ChainForm!TypedEndsNeverReplaced` | `ChainForm.cfg` | an address typed is "never overwritten" (chain.tsx:135); the next answer leaves it alone and takes it for the form's own, the one after overwrites it |
| `WebCache!NothingSurvivesSignOut` | `WebCache.cfg` | of what is cached "none of it may survive into the next session" (queryClient.ts:49-51, auth.test.tsx:26); a settlement refused with 401 clears the cache and then puts its snapshot back (mutations.ts:442) |
| `WebCache!WarnedRightly` | `WebCache.cfg` | only an import refreshes the counts an import is confirmed over (keys.ts:144 "it has to be right") |
| `Screens!StaleTabsAreRouted` | `Screens.cfg` | "the moment it asks the server for anything, the answer routes it here" (RequireAuth.tsx:13-15), "immediately" (queryClient.ts:53-54): a 401 to a read clears the entry the provider watches (queryClient.ts:51, AuthProvider.tsx:55), and the screens stay |
| `Screens!PayoutDialogIsItsOwn` | `Screens.cfg` | the dialog of a payout's delete survives Back (routes.tsx:191-198, DeletePayoutButton.tsx:44-59): it asks about the other payout while the first goes, and the answer moves the reader of the other |
| `Screens!BrokenIsNotSignedOut` | `Screens.cfg` | a server that is broken does draw the sign-in screen (endpoints.ts:78-84 against AuthProvider.tsx:108-126) |
| `Screens!ChangeRefusalIsThePassword` | `Screens.cfg` | a 401 to change-credentials may be the guard's, not the password's (queryClient.ts:147-156 against guards.ts:131-173) |
| `Screens!BackReturnsToNoneThatIsGone` | `Screens.cfg` | Back does return to a payout that is gone, when it was visited twice (routes.tsx:194-196) |

Further observations, each a step of a model that the properties allow for:

* *Documents.* The same bytes under another extension leave a file that no row
  names. A second upload of a document truncates the file while it is downloaded,
  exported or backed up; an archive made then is refused by the import, and
  backup.ts:104-106 says it cannot happen. A file deleted between the look and the
  read fails the whole export. A file that is being written is copied short. An import that found the ledger empty erases, without
  having been asked to replace anything, what was recorded while it wrote files, and
  its `replaced` is what it saw, not what it erased.
* *Money.* The charge filled in across currencies is rounded at the digits the sent
  amount was typed with: of "250", "245.97" and a rate of 1 it makes "4", where
  "250.00" gives "4.03"; and at a rate where one minor unit sent is worth more than
  the sweep's tolerance, no charge in minor units reconciles.
  `FilledChargeReconciles` is stated outside those two cases. A schedule that takes a
  share of the *sent* amount leaves the sales it applies to unreconciled;
  `FreshSaleIsClean` is about the others.
* *Sessions.* A kill between the two commits of a credential change leaves every
  session open under the new password (`DieBeforeSweep`): `epoch` counts the changes
  carried through, and `ChangesEndWhatWasOpen` is about those. A session older than one lifetime is past its half-way mark at each
  request and is written at each, because `extendedFrom` does not move `createdAt`.
* *Start.* `npm run import` migrates and repairs without a word, although main.ts:127
  calls a repair "the one thing that must never happen quietly". An old release on a
  newer database passes over the versions it does not know. An emptied `traders`
  table is never repaired.
* *Archive format.* An extension of more than 36 bytes makes every export fail. A row
  whose name has `..`, a backslash or a drive letter is exported and then refused.
  `manifest.files.included` is compared with nothing. A tar cut between two entries
  reads as a shorter archive; only gzip's check, outside the model, refuses it. An
  edited archive may hold a cycle of parents or a parent in another payout. An
  archive without traders leaves `npm run import` unusable.
* *Legacy import.* A cell emptied since leaves its old fee. A part of the sheet
  imported after the whole undoes the correction of the swapped pair. A run widens
  again an account the owner narrowed and records again fees, links and documents
  the owner removed; fees follow the *current* currency of their leg. Defects 2 and 4
  are reported on every run, so "Nothing to correct" is never said.
* *Chain.* An answer
  overwrites a link typed meanwhile; a pending transfer, or one mined between the two
  reads of one lookup, is answered as a plain send;
  a token that failed to answer once is unknown for the life of the process; one
  chain's failure ends the search for a bare hash on the others.
* *Scope.* An import leaves a selection on a trader that may be gone. The year report
  goes by the browser's local date, periods by UTC.
* *Cache.* `Overlooks` lists the reads whose rows a mutation changes and whose key it
  does not name: reports after a leg or a payout is recorded (mutations.ts:247-264),
  documents of a payout after its deletion (keys.ts:135-138), settlements after an
  account's type is edited (184-186). Until the guards are drawn again after a 401, the
  screens go on asking, and are refused.
* *Screens.* A change of password answered after a sign-out signs the tab back in; a
  guard's 401 to it clears the cookie but not the entry; an answer to /auth/me may
  overtake a sign-in; a late 401 or 403 of an earlier session bounces or cages the
  next one; a dialog about a leg or a link survives Back too, and goes on naming what it
  was asked about.

Hazards beyond those listed in `PROJECT.json`, with no property: a document deleted
between the stat and the stream of a download (get-document.ts:46), for which the code
promises nothing; an upload across an import, whose link may name the target that the
new ledger gave the old one's id (api.ts:500); one leg whose schedules are ambiguous
makes the whole sweep throw (run-data-quality-checks.ts:267); the account is read once,
before the body arrives (guards.ts:148), which `Credentials` models (`arriving`).

## Proofs

All theorems are of the form `Spec => ...`, for any number of payouts, legs,
accounts, currencies, contents, targets, requests, releases, passwords, queries in
flight, explorers and addresses, any sheet and number of runs, any rows, documents and
blocks of an archive, and for any lifetime. They assume the named
assumptions on constants of each module. Some are conditional, and say so in their statement:

| hypothesis | of | why it cannot be dropped |
|---|---|---|
| `NoDeletes` | `NoRowBeforeItsBytes` | an `rm` may come between the bytes of an upload and its row |
| every schedule is on the receiving side and resolvable | `SalesAreClean` | a share of the sent amount is not in the proceeds the sweep recomputes |
| the receiving currency is the settlement's, no schedule is of tds | `AnswersAreOnFile` | the upsert of a typed tds over an expected one |

The exceptions the code itself makes are not hypotheses but are named in the properties:
what is `lost` (`LoadedRowsHaveFiles`, `CopiesLackOnlyTheDeleted`), an empty first line
of .env (`TheFirstLineDecides`), a row whose parent was deleted under a run
(`ImportedWhole`), a settlement that is rolled back (`OneRollbackSurvives`), a tab that is
`adrift` or was not told (`WhatIsShownIsSo`).

* The lemmas on `Forest` that open `PeelDeleteProofs` and `LedgerProofs`: the subtree
  of a leg is the least closed set containing it; in a forest it lies inside one payout;
  removing a closed set, or adding a row under an older leg of its payout, leaves a
  forest.
* `PeelDeleteProofs`, deletes: the inductive invariant has a witness, the set `gone` of
  rows taken away so far: it is closed (whatever hung below a row went before it), lies
  within what is to be deleted, and holds the root only when it is the whole subtree.
  The transaction's view is the table without it, hence a forest
  (`PassesLeaveForests`), and the CTE evaluated on the view names what is left of the
  subtree it named first (`SubtreeLeft`). That a pass without changes means that
  nothing doomed is left (`NoChangesMeansGone`) needs an argument about numbers: a
  parent is older than its children, so the newest row of a closed set is a leaf
  (`ClosedHasLeaf`, from the well-foundedness of the naturals). So `gone` is exactly
  the subtree, or exactly the payout's legs, at the commit, and the loop implements
  the atomic delete (`LoopsAreAtomicDeletes`).
* `PeelDeleteProofs`, reads, of `ScopeSpec`: every leg's payout is on file, beside the
  invariant above. `EveryReadAgrees` needs that a leg hangs below exactly one root
  (`EveryLegHasARoot`, `NoLegHasTwoRoots`), so that a trail shows it once; that the
  order of days as texts is that of the calendar, so that a period of months is asked
  about from its first day to its last (`DaysInOrder`, `PeriodIsAsked`); and that a
  click leaves the two ends in order (`EndsMoved`). `NoPayoutBetweenYears` needs that
  the six years offered follow each other without a gap (`YearsOffered`).
* `LedgerProofs`: `IInv` is `TypeOK`, `LegsFormAForest` and `NoDanglingRows`
  together. None is inductive alone: that an insert hangs its leg below an *older*
  leg needs that every parent present has a smaller id than the next row id, and that
  a delete leaves no fee or child behind needs that the subtree of a leg is
  closed. `CountIsWhatGoes`, `ReusedIdIsClean`, `LossStaysInOnePayout` and
  `OnlyNarrowingContradicts` follow from it and from what one step does to legs.
  `LedgerImplementsLegTree` maps each action to an insert, a prune, a fell or a
  stutter of `LegTree`.
* `BooksProofs`, arithmetic: what the rounding modes return; that the rounding of
  charge.ts and that of `Money` are one (`ChargeRoundsAsMoney`); that going back through
  a rate and forward again is off by less than a tolerance the unit fits in
  (`RateRoundTrip`); that the decimal arithmetic of the form is that of `Money` when
  the sent amount is typed in full (`ChargeIsMoneysSum`). They assume only that the
  powers of ten are positive.
* `BooksProofs`, rows: `TypeOK` is inductive as it stands. `SalesAreClean` compares the
  fees of a sale type by type with what the engine would expect, using that no fee on
  the receiving side is in the sent currency, so that the sweep recomputes exactly the
  proceeds. `ChargesReconcile` is `ChargeIsMoneysSum` followed by `RateRoundTrip`.
* `BooksProofs`, sums: `SumFunction` is a fold of the community modules, so it is first
  shown to exist on a finite set and to have one value on each part of it (`SumExists`,
  `SumsAgree`), by taking the smallest part on which a claim fails. From that: a term may be taken out
  (`SumRemove`: the order does not matter), terms that are zero may be left out, sums
  of differences, bounds, and the sum of a table by rows and by columns (`SumsSwap`).
  `BalancesHoldTheSettlement` sums the balances by legs instead of accounts: each leg
  moves them by what arrives less its fees, because each fee is debited from exactly one
  side (`LegIsAccountedFor`), so settlement and balances are apart by what the rate makes
  of each sale less what arrived, which the sweep bounds. `AnswersAreOnFile` adds one row.
* `LedgerProofs`, the importer: `ImportInv` has six parts. `TablesOk` types the tables and
  says of a leg, whoever edited it, that its payout is that of the sheet;
  with it `Anchored`, what a leg hangs from, is kept by every step, and a run leaves
  legs alone whatever the owner does. Beside it `KeysInv` is about row ids: no two legs
  have one, a leg's is larger than its parent's, what a run remembers of a code is the id of that
  leg unless the leg was deleted under a run, and so a leg hangs from whom its row names
  or its row's parent is among the deleted. While the owner has changed nothing there are none of those,
  and codes and ids say the same. `RunOk` says that a run has left to do tasks of its
  row, the leg before its fees (what `Plan` puts where is proved by positions, without
  induction over the row). `LegFound` says that `run.leg` is the leg on file, or the owner has
  written over that since. While he has changed nothing, `Faithful` says that nothing is
  on file but what the whole sheet says, and `Progress` that all the tasks a run has
  behind it are. The amount of a fee is left out of the one and is in the other: a run
  over a part of the sheet may take a fee of the swapped pair from its own row, and
  only a run that sees both rows moves it. At the end of the whole sheet the two inclusions
  meet (`ImportedWhole`), and a run over it then writes only what is there
  (`ImportedTwiceIsImportedOnce`).
* `EvidenceProofs`: `TypeOK`, `LinksHang` and `OpenFilesHaveAWriter` are
  inductive together (`EvidenceAlwaysHangs`). Where nothing is deleted a second
  invariant says of every upload past its open that its path is whole or in the hands of
  some request that is writing it (`NoRowBeforeItsBytes`). Over `Copies`, `ImportKnown` says which step of a load
  has what in hand, so that an import's replacement of every table leaves links hanging
  (`ImportsLeaveItHanging`); `Kept` that whoever counts on a file, a row, an upload past its open or an import that
  has begun to restore it, has it complete or being written, or it is `lost`
  (`LoadedRowsHaveFiles`): each step that takes a file away
  puts it in `lost`, and none that adds a row does so without the file but a load; and `CopySound` that a copy
  takes its rows in one reading of tables that hang together (`CopiesAlwaysLoad`),
  so that all it passes over are the files of documents deleted after, and what is lost
  (`CopiesLackOnlyTheDeleted`; a file being written it may take short).
* `EvidenceProofs`, the tar codec: where each entry lies in what is packed (`Packs`), and
  what the reader makes of each block, for any blocks at all. The reader is a recursive
  function; that it exists (`ReadsExist`), that it gives back every entry
  (`WholeIsRead`), nothing but whole entries of an archive with something missing or broken
  (`RestIsRead`), and only names that were packed of any other (`SoundIsRead`), are
  inductions over the position of a block, done by the smallest position at which a claim
  fails (`Climbs`, `Descends`). A name split over two fields comes back
  trimmed and otherwise as it was (`SplitNameBack`).
* `EvidenceProofs`, imports: `FormatInv` says what an archive still is. As long as
  nothing happened to it, it is the export; cut or damaged, it is what is left of it, entry by
  entry; edited, it is the export with other rows; and whatever else was done to it, its
  headers carry the export's names and the only rows in it are the export's. So whatever an
  import restores at a path is what that path names (`RestoredIsNamed`): by the hash, or where
  the row has none because the bytes are the export's own. Hence `StoreIsSound` and
  `LedgerIsSound`, the other two parts, and `ImportsAreSound`; a file restored over one that
  is there is the same file, so a refusal after the files were written changes none
  (`RefusedImportsLeaveTheLedger`). `AnExportIsABackup` needs in addition that no two names
  of an export are read as one (`NamedDoc`).
* `StartupProofs`, accounts: the inductive invariant says that not only the row on file
  but every row a request remembers carries the flag if it carries the shipped
  password, that a server listening remotely has, and every request has read, a row
  without the flag, and that of every session the expiry lies within half a
  lifetime to one lifetime of its last use. That a change ends what was open
  (`ChangesSignOthersOut`) is inductive as it stands: only a change counts up, and what is
  written after it says so; that a password is replaced by who verified it is not
  proved, because it is false.
* `StartupProofs`, starts: the invariant adds what a start under way has established at
  each of its steps (`BootKnows`: past the repair there is a user, past the check an
  address is loopback or the flag is off), that whoever serves found the history of its
  own files (`HistoryKnown`) and that each version took effect once when it is recorded
  and never before (`Counted`). Each step of a start is then a stutter of `Credentials`
  or its `Start` (`StartupImplementsCredentials`), so that its theorems hold of a
  server started in steps: `NeverServedAbroad` follows by the refinement alone.
  `KeysHold` says that a server about to listen has the last line of .env, and that
  while the first one names a secret it is the only one, and every cookie is of that
  line or of a file since lost (`TheFirstLineDecides`).
* `WebCacheProofs`: `HooksNameWhatTheyChange` goes through every mutation and every query:
  a query that reads a row the mutation changes is invalidated, removed or on the list of
  what is overlooked. The rest is an invariant of each entry of the cache: `Honest`, that
  it is fresh only with what the server holds, or is about to be marked by a write under
  way; `Owned`, that it was read by whoever is signed in unless it is a settlement that
  is guessed or stale (`OneRollbackSurvives`); and `Aside`, that what a rollback would put back is asked for and
  shown by nobody.
  Neither `WarnedRightly` nor `NothingSurvivesSignOut` is claimed: they are false.
* `ChainProofs`: `Sound` says of each request that a chain does not forget what it knew
  when it was asked (`then`), and that while a transaction it knows is looked for, its
  chain is among those left to ask; requests share nothing but the memory of tokens, so
  this is enough for `AnswersAreTrue`, which is about transactions mined before the lookup
  was asked. Over it the form's invariant relates the timer, the link, what was asked
  last and what the reader wrote (`Pending`, `Settled`, `Awaited`, `OwnWords`):
  a timer never runs on a link that an answer wrote. `AnswersSpareWhatWasTyped` is about
  the next answer only, as its property is.
* `ScreensProofs`: with a request in the air the tab may be behind the server, so the
  invariant says of what (`LiveOrSoonTold`): as long as the tab is not known to have
  missed anything, the session it relies on, or will by an answer that vouches for it,
  is live, or an answer still to land will tell it otherwise, that of the sign-out or
  of the change of password that ended it. What the tab relies on is what it could draw
  (`Believed`), not what it draws: a tab that is adrift relies on nothing, and has no
  cookie (`NobodyHasNoCookie`). Each step of the server that ends a session puts such an
  answer in the air; losing it, or reloading over it, is what `lost` records. For the
  dialogs the invariant adds that what a page asked is heard only on that page, and
  one request of a kind at a time (`HeardOnThePage`, `OneAtATime`): an answer can then close only a
  dialog of the kind it was asked from, and one about a leg or a link only for its own
  subject. Of the payout's dialog no more is true: after Back it asks about the other payout.

Model-checked only:

* all liveness (`DeletesEnd`, `LinksAreRead`, `NavigationSettles`, `ChosenArrives`),
  which is out of the prover's reach;
* what the constants of the models are taken to be: that the bounds of a run contain the
  cases that matter is argued above, not proved.

## Not modelled

* Explorers, `react-query`, `react-router`, SQLite, argon2, gzip and the login rate
  limit are external: each is what the code relies on it to do, marked so in
  `PROJECT.json` where a definition stands for one.
* Layout, tables and text fields of the other web screens; printing and parsing of
  amounts and dates beyond the decimals of `Money`; the CSV parser; the patterns of the
  JSON schemas. They decide refusals or what is drawn, and keep no state.
* Recording and renaming a company or trader: one row, looked at by nothing else at the
  time. They are constants.
* The sweep's comparison of a leg with its parent's amount, bank legs, and the status
  a payout is shown with; search and listing of documents; bundled currencies.
* `SESSION_SECRET` given by the environment; two processes migrating one database at
  once; restoring a backup, which is done by hand.
* More than one change to an archive on its way, and more than one mutation of the
  web cache in flight with another, are bounds and not abstractions.

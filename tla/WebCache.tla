------------------------------ MODULE WebCache ------------------------------
(***************************************************************************)
(* The browser's query cache (apps/web/src/shared/api).                    *)
(*                                                                         *)
(* Every screen reads through one cache; every write names the entries it  *)
(* made wrong.  A read is asked, read by the server, and lands later; a    *)
(* write commits on the server before its answer, and with it the          *)
(* invalidation, reaches the browser; either may overtake the other, an    *)
(* answer may be lost, and a session may end under both.                   *)
(*                                                                         *)
(* A query is its key (keys.ts).  An entry carries, beside what the        *)
(* library keeps, what the library cannot know: whether the rows it was    *)
(* read from have changed since (`truth'), and whose session read it.      *)
(* Filters and scopes are left out: they come after the part of a key that *)
(* invalidation matches, so every spelling of a read fares alike.          *)
(***************************************************************************)
EXTENDS Naturals, FiniteSets, SequencesExt, Functions

CONSTANTS
  Payouts, NoPayout,
  Sent,         \* the mutations this instance sends, besides settling
  MaxEntries,   \* bound: entries on screen or cached at once
  MaxSession,   \* bound: sign-ins
  MaxSettle     \* bound: settlements asked for

ASSUME WebCacheConstants ==
  /\ Sent \subseteq
       {"recordCompany", "recordTrader", "editTrader", "recordAccount", "deleteAccount",
        "editAccount", "retypeAccount", "recordPayout", "deletePayout",
        "recordTransaction", "editTransaction", "deleteTransaction", "attachDocument",
        "linkDocument", "detachDocument", "deleteDocument", "importLedger"}
  /\ MaxSession \in Nat

Trail(p) == <<"payouts", p, "trail">>
SettlementOf(p) == <<"payouts", p, "settlement">>
DocumentsOf(p) == <<"documents", "forPayout", p>>
LedgerState == <<"ledger", "state">>

Queries ==
  {<<"companies", "list">>, <<"traders", "list">>, <<"accounts", "list">>,
   <<"payouts", "list">>, <<"transactions", "list">>, <<"balances">>,
   <<"dataQuality">>, <<"documents", "search">>, <<"documents", "list">>,
   <<"reports", "financialYear">>, LedgerState}
  \cup UNION {{Trail(p), SettlementOf(p), DocumentsOf(p)} : p \in Payouts}

(* invalidateQueries and removeQueries match by prefix. *)
Under(key) == {q \in Queries : IsPrefix(key, q)}
Reached(keys) == UNION {Under(k) : k \in keys}

-----------------------------------------------------------------------------
(* What the server reads and writes, as facts *)

EachPayout(fact) == {<<fact, p>> : p \in Payouts}
Facts ==
  {<<"companies">>, <<"traders">>, <<"accounts">>, <<"terms">>, <<"types">>,
   <<"payouts">>, <<"files">>}
  \cup EachPayout("legs") \cup EachPayout("legLinks") \cup EachPayout("payoutLinks")

(* The rows behind each endpoint. *)
Reads(q) ==
  CASE q[1] = "companies" -> {<<"companies">>}
    [] q[1] = "traders" -> {<<"traders">>}
    [] q[1] = "accounts" -> {<<"accounts">>, <<"terms">>, <<"types">>}
    [] q = <<"payouts", "list">> -> {<<"payouts">>}
    [] q[1] = "payouts" /\ Len(q) = 3 /\ q[3] = "trail" ->
         {<<"legs", q[2]>>, <<"legLinks", q[2]>>}
    [] q[1] = "payouts" /\ Len(q) = 3 /\ q[3] = "settlement" ->
         {<<"legs", q[2]>>, <<"types">>}
    [] q[1] = "transactions" -> EachPayout("legs")
    [] q[1] = "balances" -> EachPayout("legs") \cup {<<"terms">>}
    [] q[1] = "dataQuality" ->
         EachPayout("legs") \cup {<<"terms">>, <<"types">>}
    [] q[1] = "documents" /\ q[2] = "forPayout" -> {<<"payoutLinks", q[3]>>}
    [] q[1] = "documents" /\ q[2] # "forPayout" -> {<<"files">>}
    [] q[1] = "reports" ->
         EachPayout("legs") \cup {<<"payouts">>, <<"companies">>}
    [] q[1] = "ledger" -> Facts

(* A payout's row, legs and links go together. *)
Writes(m) ==
  CASE m.do = "recordCompany" -> {<<"companies">>}
    [] m.do \in {"recordTrader", "editTrader"} -> {<<"traders">>}
    [] m.do \in {"recordAccount", "deleteAccount"} -> {<<"accounts">>}
    [] m.do = "editAccount" -> {<<"terms">>}
    [] m.do = "retypeAccount" -> {<<"terms">>, <<"types">>}
    [] m.do = "recordPayout" -> {<<"payouts">>}
    [] m.do \in {"recordTransaction", "editTransaction", "settlePayout"} ->
         {<<"legs", m.payout>>}
    [] m.do = "deleteTransaction" -> {<<"legs", m.payout>>, <<"legLinks", m.payout>>}
    [] m.do = "deletePayout" ->
         {<<"payouts">>} \cup {<<f, m.payout>> : f \in {"legs", "legLinks", "payoutLinks"}}
    [] m.do = "attachDocument" ->
         {<<"files">>, <<"legLinks", m.payout>>, <<"payoutLinks", m.payout>>}
    [] m.do \in {"linkDocument", "detachDocument"} ->
         {<<"legLinks", m.payout>>, <<"payoutLinks", m.payout>>}
    [] m.do = "deleteDocument" ->
         {<<"files">>} \cup EachPayout("legLinks") \cup EachPayout("payoutLinks")
    [] m.do = "importLedger" -> Facts

cachesAffectedByTransaction(p) ==
  {<<"payouts", p>>, <<"transactions">>, <<"balances">>, <<"dataQuality">>}

cachesAffectedByAttachment(p) == {Trail(p), DocumentsOf(p), <<"documents">>}

(* What each hook names: the registers, the money, the documents. *)
CachesOfRegisters(m) ==
  CASE m.do = "recordCompany" -> {<<"companies">>}
    [] m.do \in {"recordTrader", "editTrader"} -> {<<"traders">>}
    [] m.do \in {"recordAccount", "deleteAccount"} -> {<<"accounts">>}
    [] m.do \in {"editAccount", "retypeAccount"} ->
         {<<"accounts">>, <<"balances">>, <<"dataQuality">>}
    [] OTHER -> {}

CachesOfMoney(m) ==
  CASE m.do = "recordPayout" -> {<<"payouts", "list">>}
    [] m.do = "deletePayout" ->
         {<<"payouts", "list">>, <<"transactions">>, <<"balances">>,
          <<"dataQuality">>, <<"reports">>}
    [] m.do \in {"recordTransaction", "editTransaction", "deleteTransaction",
                 "settlePayout"} -> cachesAffectedByTransaction(m.payout)
    [] OTHER -> {}

CachesOfDocuments(m) ==
  CASE m.do \in {"attachDocument", "linkDocument", "detachDocument"} ->
         cachesAffectedByAttachment(m.payout)
    [] m.do = "deleteDocument" -> {<<"documents">>} \cup {Trail(p) : p \in Payouts}
    [] OTHER -> {}

(* An import names nothing, and so reaches everything. *)
Invalidates(m) ==
  IF m.do = "importLedger" THEN {<<>>}
  ELSE CachesOfRegisters(m) \cup CachesOfMoney(m) \cup CachesOfDocuments(m)

(* useDeletePayout drops what was cached of the payout instead. *)
Removes(m) == IF m.do = "deletePayout" THEN {<<"payouts", m.payout>>} ELSE {}

(* Mutations that name a payout, for their URL or for the caches they touch. *)
Addressed == {"recordTransaction", "editTransaction", "deleteTransaction",
              "deletePayout", "attachDocument", "linkDocument", "detachDocument"}
Mutations == [do : Sent \cap Addressed, payout : Payouts]
               \cup [do : Sent \ Addressed, payout : {NoPayout}]
Settle(p) == [do |-> "settlePayout", payout |-> p]
Known == Mutations \cup {Settle(p) : p \in Payouts}

(* The gaps between what a write changes and what its hook invalidates.     *)
Overlooks(m, q) ==
  \/ q = LedgerState /\ m.do # "importLedger"
  \/ q[1] = "reports" /\ m.do \in {"recordPayout", "recordCompany", "recordTransaction",
                                   "editTransaction", "deleteTransaction", "settlePayout"}
  \/ q[1] = "payouts" /\ m.do = "retypeAccount"
  \/ q[1] = "documents" /\ m.do = "deletePayout"

Changes == [m \in Known |-> {q \in Queries : Reads(q) \cap Writes(m) # {}}]
Named == [m \in Known |-> Reached(Invalidates(m))]
Removed == [m \in Known |-> Reached(Removes(m))]
Missed == [m \in Known |-> {q \in Queries : Overlooks(m, q)}]

-----------------------------------------------------------------------------
VARIABLES
  cache,     \* query -> its entry; only what is cached or on screen has one
  write,     \* the mutation in flight
  settle,    \* the optimistic settlement in flight, with its rollback
  me,        \* the session the auth entry speaks of; 0 is nobody
  drawn,     \* the route guards, as last drawn, let the screens in
  live,      \* sessions the server honours
  sessions, settles   \* sign-ins and settlements so far

vars == <<cache, write, settle, me, drawn, live, sessions, settles>>
others == <<write, settle, me, drawn, live, sessions, settles>>

(* right: as the server has it.  wrong: changed since, by a write that      *)
(* names this query.  overlooked: by a write that does not.  unheard: by a  *)
(* write whose answer was lost.  raced: read before a write whose           *)
(* invalidation found the first load still under way.                       *)
Truths == {"right", "wrong", "overlooked", "unheard", "raced"}

(* An entry's data is its truth, or none; its fetch is idle, failed, a      *)
(* request asked, or the truth of an answer on its way.                     *)
Entries == [data : Truths \cup {"none"}, stale : BOOLEAN, by : 0..MaxSession,
            fetch : {"idle", "failed", "asked"} \cup Truths, shown : BOOLEAN]
Fresh(t, by) == [data |-> t, stale |-> FALSE, by |-> by, fetch |-> "idle", shown |-> FALSE]

NoWrite == [m |-> [do |-> "none", payout |-> NoPayout], step |-> "none", by |-> 0]
Unsuccessful == [NoWrite EXCEPT !.step = "failed"]
NoSettle == [payout |-> NoPayout, step |-> "none", by |-> 0,
             snapshot |-> Fresh("none", 0)]

Has(q) == q \in DOMAIN cache
HasData(q) == Has(q) /\ cache[q].data # "none"
Pending(e) == e.fetch = "asked" \/ e.fetch \in Truths
Set(q, e) == cache' = [x \in DOMAIN cache \cup {q} |-> IF x = q THEN e ELSE cache[x]]
Empty == [q \in {} |-> q]

(* A commit: what was read from the rows it writes is no longer so.         *)
Tainted(m, heard, q, t) ==
  IF t \notin Truths \ {"wrong"} \/ q \notin Changes[m] THEN t
  ELSE IF ~heard THEN "unheard"
  ELSE IF q \in Missed[m] THEN "overlooked" ELSE "wrong"
Taint(m, heard) ==
  cache' = [q \in DOMAIN cache |->
              [cache[q] EXCEPT !.data = Tainted(m, heard, q, @),
                               !.fetch = Tainted(m, heard, q, @)]]

-----------------------------------------------------------------------------
(* Screens and reads *)

(* Mounted on a stale or absent entry, it asks; on a fresh one it does not. *)
Mount(q) ==
  /\ drawn
  /\ Has(q) => ~cache[q].shown
  /\ Cardinality(DOMAIN cache \cup {q}) <= MaxEntries
  /\ Set(q, IF ~HasData(q) THEN [Fresh("none", 0) EXCEPT !.fetch = "asked", !.shown = TRUE]
            ELSE IF cache[q].stale THEN [cache[q] EXCEPT !.fetch = "asked", !.shown = TRUE]
            ELSE [cache[q] EXCEPT !.shown = TRUE])
  /\ UNCHANGED others

(* The signal is passed on, so leaving the screen aborts its request.       *)
Left(e) == [e EXCEPT !.fetch = "idle", !.shown = FALSE]
Unmount(q) ==
  /\ Has(q) /\ cache[q].shown
  /\ Set(q, Left(cache[q]))
  /\ UNCHANGED others

(* Thirty seconds on. *)
Age(q) ==
  /\ HasData(q) /\ ~cache[q].stale
  /\ Set(q, [cache[q] EXCEPT !.stale = TRUE])
  /\ UNCHANGED others

(* An entry no screen observes is collected. *)
Collect(q) ==
  /\ Has(q) /\ ~cache[q].shown
  /\ cache' = Restrict(cache, DOMAIN cache \ {q})
  /\ UNCHANGED others

(* Faulty: signed out, and everything cached kept. *)
Forget == cache' = cache /\ me' = 0

(* client.clear(), and the null put under the auth key.  Whoever observed   *)
(* what is gone keeps a copy until drawn again: the screens, and the route  *)
(* guards, which let the screens in for as long (Session.SignedOutUnseen).  *)
Clear == cache' = Empty /\ me' = 0

ServerReads(q) ==
  /\ Has(q) /\ cache[q].fetch = "asked" /\ me \in live
  /\ Set(q, [cache[q] EXCEPT !.fetch = "right"])
  /\ UNCHANGED others

AnswerLands(q) ==
  /\ Has(q) /\ cache[q].fetch \in Truths
  /\ Set(q, [Fresh(cache[q].fetch, me) EXCEPT !.shown = TRUE])
  /\ UNCHANGED others

(* Twice, by retryOnce: a failed refetch keeps what was there, as stale.    *)
FetchFails(q) ==
  /\ Has(q) /\ Pending(cache[q])
  /\ Set(q, [cache[q] EXCEPT !.fetch = "failed", !.stale = HasData(q)])
  /\ UNCHANGED others

(* 401 to a read: createUnauthenticatedHandler. *)
ReadSignedOut(q) ==
  /\ Has(q) /\ cache[q].fetch = "asked" /\ me \notin live
  /\ Clear
  /\ UNCHANGED <<write, settle, drawn, live, sessions, settles>>

-----------------------------------------------------------------------------
(* Writes *)

(* The screen that imports shows the counts it is about to replace.         *)
Send(m) ==
  /\ drawn
  /\ write = NoWrite
  /\ m.do = "importLedger" => Has(LedgerState) /\ cache[LedgerState].shown
  /\ write' = [m |-> m, step |-> "sent", by |-> me]
  /\ UNCHANGED <<cache, settle, me, drawn, live, sessions, settles>>

(* The guard has passed; the answer may be lost on its way.                 *)
Commit(heard) ==
  /\ write.step = "sent" /\ write.by \in live
  /\ Taint(write.m, heard)
  /\ settle' = IF settle = NoSettle THEN settle
               ELSE [settle EXCEPT !.snapshot.data =
                       Tainted(write.m, heard, SettlementOf(settle.payout), @)]
  /\ write' = IF heard THEN [write EXCEPT !.step = "done", !.by = 0] ELSE Unsuccessful
  /\ UNCHANGED <<me, drawn, live, sessions, settles>>

Refuse ==
  /\ write.step = "sent"
  /\ write' = IF write.by \in live THEN Unsuccessful ELSE [Unsuccessful EXCEPT !.step = "signedOut"]
  /\ UNCHANGED <<cache, settle, me, drawn, live, sessions, settles>>

(* Faulty: a request under way is taken to be new enough (cancelRefetch). *)
InvalidatedUnlessAsked(e) ==
  IF Pending(e) THEN e
  ELSE [e EXCEPT !.stale = (e.data # "none"), !.fetch = IF e.shown THEN "asked" ELSE @]

(* Marked, and asked again if on screen.  A request under way is dropped    *)
(* and repeated, except the first load, which has nothing to fall back on:  *)
(* it is left to land, and landing makes the entry fresh.                   *)
Invalidated(e) ==
  IF e.data = "none" /\ Pending(e)
  THEN [e EXCEPT !.fetch = IF @ = "wrong" THEN "raced" ELSE @]
  ELSE [e EXCEPT !.stale = (e.data # "none"),
                 !.fetch = IF e.shown THEN "asked" ELSE @]
Invalidate(named, c) ==
  [q \in DOMAIN c |-> IF q \in named THEN Invalidated(c[q]) ELSE c[q]]

Succeed ==
  /\ write.step = "done"
  /\ cache' = Invalidate(Named[write.m], Restrict(cache, DOMAIN cache \ Removed[write.m]))
  /\ write' = NoWrite
  /\ UNCHANGED <<settle, me, drawn, live, sessions, settles>>

Fail ==
  /\ write.step = "failed"
  /\ write' = NoWrite
  /\ UNCHANGED <<cache, settle, me, drawn, live, sessions, settles>>

(* A 401 to a write, whichever session sent it. *)
WriteSignedOut ==
  /\ write.step = "signedOut"
  /\ Clear
  /\ write' = NoWrite
  /\ UNCHANGED <<settle, drawn, live, sessions, settles>>

-----------------------------------------------------------------------------
(* useSettlePayout *)

(* onMutate: reads under way are cancelled, the entry kept aside, and       *)
(* `settled' written over it, which makes it fresh.                         *)
Guessed(e) ==
  IF e.data = "none" THEN [e EXCEPT !.fetch = IF Pending(e) THEN "idle" ELSE @]
  ELSE [e EXCEPT !.data = "wrong", !.stale = FALSE,
                 !.fetch = IF Pending(e) THEN "idle" ELSE @]

BeginSettle(p) ==
  LET q == SettlementOf(p) IN
  /\ drawn /\ settle = NoSettle /\ settles < MaxSettle
  /\ settles' = settles + 1
  /\ settle' = [payout |-> p, step |-> "sent", by |-> me,
                snapshot |-> IF HasData(q) THEN Fresh(cache[q].data, cache[q].by)
                             ELSE Fresh("none", 0)]
  /\ cache' = [x \in DOMAIN cache |-> IF x = q THEN Guessed(cache[x]) ELSE cache[x]]
  /\ UNCHANGED <<write, me, drawn, live, sessions>>

CommitSettle(heard) ==
  /\ settle.step = "sent" /\ settle.by \in live
  /\ Taint(Settle(settle.payout), TRUE)
  /\ settle' = [settle EXCEPT !.step = IF heard THEN "done" ELSE "failed", !.by = 0,
                              !.snapshot.data = IF @ = "none" THEN @ ELSE "wrong"]
  /\ UNCHANGED <<write, me, drawn, live, sessions, settles>>

RefuseSettle ==
  /\ settle.step = "sent"
  /\ settle' = [settle EXCEPT !.step = IF settle.by \in live THEN "failed" ELSE "signedOut",
                              !.by = 0]
  /\ UNCHANGED <<cache, write, me, drawn, live, sessions, settles>>

(* onError: the snapshot goes back, whatever the cache holds by then.       *)
RolledBack(c) ==
  LET q == SettlementOf(settle.payout) IN
  IF settle.snapshot.data = "none" THEN c
  ELSE [x \in DOMAIN c \cup {q} |->
          IF x # q THEN c[x]
          ELSE IF q \notin DOMAIN c THEN settle.snapshot
          ELSE [settle.snapshot EXCEPT !.shown = c[q].shown, !.fetch = c[q].fetch]]

(* onSettled, on success and on failure alike. *)
Settled(c) == Invalidate(Named[Settle(settle.payout)], c)

SettleAnswered ==
  /\ settle.step \in {"done", "failed"}
  /\ cache' = Settled(IF settle.step = "done" THEN cache ELSE RolledBack(cache))
  /\ settle' = NoSettle
  /\ UNCHANGED <<write, me, drawn, live, sessions, settles>>

(* The cache's own handler clears first; the hook's rollback runs after it. *)
SettleSignedOut ==
  /\ settle.step = "signedOut"
  /\ cache' = Settled(RolledBack(Empty))
  /\ me' = 0
  /\ settle' = NoSettle
  /\ UNCHANGED <<write, drawn, live, sessions, settles>>

-----------------------------------------------------------------------------
(* The session *)

(* AuthProvider comes to draw again, and the guards lead to the sign-in.    *)
Redraw ==
  /\ drawn /\ me = 0
  /\ drawn' = FALSE
  /\ cache' = [q \in DOMAIN cache |-> Left(cache[q])]
  /\ UNCHANGED <<write, settle, me, live, sessions, settles>>

SignIn ==
  /\ me = 0 /\ ~drawn /\ sessions < MaxSession
  /\ sessions' = sessions + 1
  /\ me' = sessions + 1 /\ drawn' = TRUE
  /\ live' = live \cup {sessions + 1}
  /\ UNCHANGED <<cache, write, settle, settles>>

SignOut ==
  /\ me # 0
  /\ live' = live \ {me}
  /\ Clear /\ drawn' = FALSE
  /\ UNCHANGED <<write, settle, sessions, settles>>

(* Expired, or revoked elsewhere: the browser has not heard.                *)
Expire ==
  /\ \E s \in live : live' = live \ {s}
  /\ UNCHANGED <<cache, write, settle, me, drawn, sessions, settles>>

Init ==
  /\ cache = Empty
  /\ write = NoWrite
  /\ settle = NoSettle
  /\ me = 0 /\ drawn = FALSE /\ live = {} /\ sessions = 0 /\ settles = 0

Read(q) == ServerReads(q) \/ AnswerLands(q) \/ FetchFails(q) \/ ReadSignedOut(q)
SettleStep ==
  \/ \E heard \in BOOLEAN : CommitSettle(heard)
  \/ RefuseSettle \/ SettleAnswered \/ SettleSignedOut

Next ==
  \/ \E q \in Queries : Mount(q) \/ Unmount(q) \/ Age(q) \/ Collect(q) \/ Read(q)
  \/ \E m \in Mutations : Send(m)
  \/ \E heard \in BOOLEAN : Commit(heard)
  \/ Refuse \/ Succeed \/ Fail \/ WriteSignedOut
  \/ \E p \in Payouts : BeginSettle(p)
  \/ SettleStep
  \/ Redraw \/ SignIn \/ SignOut \/ Expire

Spec == Init /\ [][Next]_vars

-----------------------------------------------------------------------------
(* Properties *)

TypeOK ==
  /\ DOMAIN cache \subseteq Queries /\ \A q \in DOMAIN cache : cache[q] \in Entries
  /\ write.step \in {"none", "sent", "done", "failed", "signedOut"}
  /\ settle.step \in {"none", "sent", "done", "failed", "signedOut"}
  /\ settle.snapshot \in Entries
  /\ me \in 0..MaxSession /\ live \subseteq 1..MaxSession /\ drawn \in BOOLEAN

(* When no write is in flight, an entry the cache calls fresh is what the   *)
(* server holds, unless a write's answer was lost, the write is one whose   *)
(* hook overlooks the query, or it overtook the entry's first load.  Reads  *)
(* in flight when the write commits, the optimistic settlement and its      *)
(* rollback are covered (mutations.ts: each hook names its blast radius).   *)
CaughtUp ==
  write = NoWrite /\ settle = NoSettle =>
    \A q \in DOMAIN cache : ~cache[q].stale => cache[q].data # "wrong"

(* queryClient.ts: "none of it may survive into the next session": what is  *)
(* cached was read by the session that is signed in.  Violated: the handler *)
(* that clears runs before the rollback of the settlement it refuses.       *)
NothingSurvivesSignOut ==
  \A q \in DOMAIN cache : cache[q].data # "none" => cache[q].by = me

(* Nothing else survives: whatever requests a session leaves behind, what   *)
(* is cached of it is the settlement of a payout, and out of date as far as *)
(* the cache knows, or being guessed at (mutations.ts: onError, onSettled). *)
OnlyARollbackSurvives ==
  \A q \in DOMAIN cache : cache[q].data # "none" /\ cache[q].by # me =>
    /\ \E p \in Payouts : q = SettlementOf(p)
    /\ cache[q].stale \/ settle # NoSettle

(* A screen with nothing to show is not left waiting: its first load is     *)
(* under way or has failed, or settling the payout cancelled it             *)
(* (useSettlePayout, step 1) and the answer, whichever it is, asks again.   *)
NobodyWaitsForNothing ==
  \A q \in DOMAIN cache :
    cache[q].shown /\ cache[q].data = "none" =>
      cache[q].fetch # "idle" \/ \E p \in Payouts : q = SettlementOf(p) /\ settle.payout = p

(* The counts an import is confirmed over are not out by a write this       *)
(* browser made and was answered (keys.ts, ledger.state: "it has to be      *)
(* right when it is used to warn somebody").                                *)
WarnedRightly ==
  [][write'.m.do = "importLedger" /\ write.m.do # "importLedger" =>
       cache[LedgerState].data # "overlooked"]_vars

(* The cache may be trusted while the app is used: what it calls fresh is   *)
(* what the server holds, and a screen without an answer has one coming.    *)
CacheIsCoherent == TypeOK /\ CaughtUp /\ NobodyWaitsForNothing
=============================================================================

------------------------------ MODULE Session ------------------------------
(***************************************************************************)
(* Who the server thinks is asking, who the tab thinks is signed in, and   *)
(* where the tab is (apps/api/src/auth/guards.ts, routes/auth.ts;          *)
(* apps/web/src/shared/api, features/auth, routes.tsx).                    *)
(*                                                                         *)
(* The server guards every request by its cookie.  The tab keeps one entry *)
(* about the user, and AuthProvider draws what it last saw of it (`me');   *)
(* the route guards redirect by that and by nothing else.  A 401 puts a    *)
(* new entry in place of the one the provider watches: what is drawn stays *)
(* (`adrift') until something else has the provider drawn again, which is  *)
(* a mutation of its own.                                                  *)
(*                                                                         *)
(* Requests are asked, answered and landed in any order;                   *)
(* a redirect is decided when a screen is drawn and carried out after, so  *)
(* that the callback of an answer may come between the two.                *)
(*                                                                         *)
(* Passwords and accounts are in Credentials.tla: here a password is right *)
(* or wrong, and other browsers may end sessions or race the flag.         *)
(***************************************************************************)
EXTENDS Naturals, Sequences, FiniteSets

CONSTANTS
  Payouts, NotAnId,
  Nothing,      \* no target; no address to come back to
  Typed,        \* bound: the addresses typed or reloaded
  Offers,       \* bound: the mutations of the page this instance offers
  MaxSession,   \* bound: sessions opened by this browser
  MaxHistory,   \* bound: entries of the tab's history
  MaxFlights,   \* bound: requests in the air at once
  MaxAsked      \* bound: requests asked

VARIABLES
  live, mustChange, issued,   \* the server: sessions, the account's flag
  cookie, me,                 \* the browser: its cookie, the auth entry
  stack, at, due, calls,      \* its history, a redirect and callbacks to come
  wasCaged, chose,            \* the change screen: as mounted; just changed
  flights, asked,             \* requests not yet landed; how many there were
  adrift,                     \* the provider watches an entry that is gone
  lost                        \* what this tab was not told, see below

server == <<live, mustChange, issued>>
auth == <<cookie, me, adrift, lost>>
place == <<stack, at, due, calls>>
drawing == <<wasCaged, chose>>
sessionVars == <<live, mustChange, issued, cookie, me, stack, at, due, calls,
                 wasCaged, chose, flights, asked, adrift, lost>>

-----------------------------------------------------------------------------
(* Addresses *)

SignInPath == <<"signin">>
ChangePath == <<"change-password">>
ListPath == <<"payouts">>
AccountPath == <<"account">>
PayoutPath(p) == <<"payouts", p>>
RecordPath(p) == <<"payouts", p, "transactions">>

(* The other screens behind the shell fare as the list does; `home' stands  *)
(* for "/", and an address nobody routes is drawn inside the shell too.     *)
Paths ==
  {SignInPath, ChangePath, ListPath, AccountPath, <<"home">>}
  \cup {PayoutPath(p) : p \in Payouts \cup {NotAnId}}
  \cup {RecordPath(p) : p \in Payouts}

ASSUME SessionConstants ==
  /\ Typed \subseteq Paths
  /\ MaxSession \in Nat \ {0} /\ MaxHistory \in Nat \ {0}

Entry(path) == [path |-> path, from |-> Nothing]
Path == stack[at].path

-----------------------------------------------------------------------------
(* The tab's belief, and the route guards that read it *)

SignedIn == me \in {"caged", "free"}

ToSignIn == [path |-> SignInPath, from |-> Path]

(* RequireSession *)
SessionRequired == IF me = "asking" \/ SignedIn THEN {} ELSE {ToSignIn}

(* RequireAuth *)
AuthRequired ==
  IF me = "asking" THEN {}
  ELSE IF ~SignedIn THEN {ToSignIn}
  ELSE IF me = "caged" THEN {Entry(ChangePath)}
  ELSE {}

SignInRedirects ==
  IF SignedIn THEN {Entry(IF me = "caged" THEN ChangePath ELSE ListPath)} ELSE {}

(* Behind the other guard; and deciding by the flag as it now is.           *)
ChangeBehindAuth ==
  AuthRequired \cup (IF SignedIn /\ wasCaged = "no" THEN {Entry(AccountPath)} ELSE {})
ChangeReadLive ==
  SessionRequired \cup (IF me = "free" THEN {Entry(AccountPath)} ELSE {})

ChangeRedirects ==
  SessionRequired \cup (IF SignedIn /\ wasCaged = "no" THEN {Entry(AccountPath)} ELSE {})

(* The Navigate element drawn at this address, if it is one. *)
Redirects ==
  CASE Path = SignInPath -> SignInRedirects
    [] Path = ChangePath -> ChangeRedirects
    [] Path = <<"home">> -> IF me = "free" THEN {Entry(ListPath)} ELSE AuthRequired
    [] OTHER -> AuthRequired

ChangeMounted == Path = ChangePath /\ SignedIn
Shell == me = "free" /\ Path \notin {SignInPath, ChangePath, <<"home">>}
PayoutPage == Shell /\ \E p \in Payouts : Path = PayoutPath(p)
OnPayout == CHOOSE p \in Payouts : Path = PayoutPath(p)

-----------------------------------------------------------------------------
(* Requests *)

Reads == {"me", "read"}
AuthWrites == {"login", "logout", "change"}
OfPage == {"deletePayout", "deleteTransaction", "detachDocument", "attachDocument"}
Kinds == Reads \cup AuthWrites \cup OfPage

(* `heard' says whether whoever asked is still there to be told. *)
Request(do, on) ==
  [do |-> do, on |-> on, cookie |-> cookie, says |-> "unanswered", gives |-> 0,
   heard |-> TRUE]
Room == Cardinality(flights) < MaxFlights /\ asked < MaxAsked
Pending(do) == \E f \in flights : f.do = do /\ f.heard

(* A page that goes aborts its reads; its writes are answered to no one.    *)
Held(fs) ==
  IF PayoutPage' THEN fs
  ELSE {IF f.do \in OfPage THEN [f EXCEPT !.heard = FALSE] ELSE f :
          f \in {g \in fs : g.do # "read"}}

(* client.clear() drops every query, asked or answered. *)
Cleared(fs) == {f \in fs : f.do \notin Reads}

Sends(fs) == flights' = Held(fs)

(* The change screen decides when it mounts, and remembers while mounted.   *)
Drawn ==
  wasCaged' = IF ~ChangeMounted' THEN "unmounted"
              ELSE IF wasCaged # "unmounted" THEN wasCaged
              ELSE IF me' = "caged" THEN "yes" ELSE "no"

Replaced(entry) == [stack EXCEPT ![at] = entry]
Pushed(path) == Append(SubSeq(stack, 1, at), Entry(path))

-----------------------------------------------------------------------------
(* The server's guards, and the auth routes behind them *)

PUBLIC_ROUTES == {"login", "logout"}
MUST_CHANGE_EXEMPT == {"me", "logout", "change"}

SessionGuard(f) == f.do \in PUBLIC_ROUTES \/ f.cookie \in live
PasswordGuard(f) == f.do \in PUBLIC_ROUTES \cup MUST_CHANGE_EXEMPT \/ ~mustChange

Says(f, answer) ==
  flights' = (flights \ {f}) \cup {[f EXCEPT !.says = answer]}

Flag == IF mustChange THEN "caged" ELSE "free"

Refuse(f) ==
  /\ \/ ~SessionGuard(f) /\ Says(f, "unauthenticated")
     \/ SessionGuard(f) /\ ~PasswordGuard(f) /\ Says(f, "mustChange")
  /\ UNCHANGED server

ServeMe(f) == f.do = "me" /\ Says(f, Flag) /\ UNCHANGED server

ServeLogin(f) ==
  /\ f.do = "login"
  /\ \/ Says(f, "wrongPassword") /\ UNCHANGED <<live, issued>>
     \/ /\ issued < MaxSession
        /\ issued' = issued + 1
        /\ live' = live \cup {issued'}
        /\ flights' = (flights \ {f}) \cup {[f EXCEPT !.says = Flag, !.gives = issued']}
  /\ UNCHANGED mustChange

ServeLogout(f) ==
  /\ f.do = "logout"
  /\ live' = live \ {f.cookie}
  /\ Says(f, "done")
  /\ UNCHANGED <<mustChange, issued>>

(* UC13: the flag clears and every session but this one is revoked. *)
ServeChange(f) ==
  /\ f.do = "change"
  /\ \/ Says(f, "wrongPassword") /\ UNCHANGED <<live, mustChange>>
     \/ (live' = live \cap {f.cookie}) /\ mustChange' = FALSE /\ Says(f, "free")
  /\ UNCHANGED issued

ServePage(f) ==
  /\ f.do \in OfPage \cup {"read"}
  /\ Says(f, "done")
  /\ UNCHANGED server

Serve(f) ==
  /\ f.says = "unanswered"
  /\ \/ Refuse(f)
     \/ /\ SessionGuard(f) /\ PasswordGuard(f)
        /\ ServeMe(f) \/ ServeLogin(f) \/ ServeLogout(f) \/ ServeChange(f) \/ ServePage(f)
  /\ UNCHANGED <<auth, place, drawing>>

(* A session ended and this tab was not told; or the guard's refusal was    *)
(* taken for a wrong password, "refused"; worse is an answer that is told   *)
(* and crosses what the tab knows, "crossed".                               *)
Ended == IF lost = "no" THEN "ended" ELSE lost

(* A server that broke, or an answer that never arrived. *)
Lose(f) ==
  /\ f.says # "failed"
  /\ Says(f, "failed")
  /\ lost' = IF f.do \in AuthWrites /\ f.says # "unanswered" THEN Ended ELSE lost
  /\ UNCHANGED <<server, cookie, me, adrift, place, drawing>>

(* Another browser signs this one out, or a session runs out; and the flag  *)
(* comes back by the race of a re-hash with a change (Credentials.tla).     *)
Elsewhere ==
  /\ \/ /\ live # {} /\ live' = {} /\ lost' = Ended
        /\ mustChange' \in {mustChange, FALSE}
     \/ /\ ~mustChange /\ mustChange' = TRUE
        /\ UNCHANGED <<live, lost>>
  /\ UNCHANGED <<issued, cookie, me, adrift, place, drawing, flights>>

-----------------------------------------------------------------------------
(* Answers landing in the tab *)

(* A refusal by the session guard clears the cookie wherever it lands. *)
Cookie(f) ==
  CASE f.says = "unauthenticated" \/ (f.do = "logout" /\ f.says = "done") -> 0
    [] f.do = "login" /\ f.gives > 0 /\ f.says # "failed" -> f.gives
    [] OTHER -> cookie

Landed(f) == flights \ {f}

(* Who is signed in, by an answer about a session the tab has left since.   *)
Stale(f) == f.says \in {"caged", "free"} /\ f.cookie # cookie

(* What the provider sees when it is drawn again: the entry that is there,  *)
(* null since a 401.                                                        *)
Belief == IF adrift THEN "nobody" ELSE me
Redrawn ==
  /\ me' = Belief /\ adrift' = FALSE
  /\ chose' = (chose /\ me' = me)

(* The cache is cleared and null put in it: by the mutation of the provider *)
(* itself, which is drawn again; and by the handler of a 401, which is not  *)
(* the provider's, and whose null entry nobody watches.                     *)
SignedOutEverywhere(f) ==
  /\ cookie' = Cookie(f)
  /\ me' = "nobody" /\ adrift' = FALSE
  /\ UNCHANGED <<place, lost>>
  /\ chose' = FALSE
  /\ Drawn
  /\ Sends(Cleared(Landed(f)))

SignedOutUnseen(f) ==
  /\ cookie' = Cookie(f) /\ adrift' = TRUE
  /\ UNCHANGED <<me, lost, place, drawing>>
  /\ flights' = Cleared(Landed(f))

(* fetchMe: a 401 is null; anything else broken is an error without data.   *)
LandMe(f) ==
  /\ f.do = "me"
  /\ cookie' = Cookie(f)
  /\ me' = CASE f.says \in {"caged", "free"} -> f.says
             [] f.says = "unauthenticated" -> "nobody"
             [] f.says = "failed" -> IF me = "asking" THEN "broken" ELSE me
  /\ lost' = IF Stale(f) THEN "crossed" ELSE lost
  /\ UNCHANGED <<adrift, place>>
  /\ chose' = (chose /\ me' = me)
  /\ Drawn
  /\ Sends(Landed(f))

(* SignInScreen: where they were headed, or the screen the flag asks for.   *)
LandLogin(f) ==
  /\ f.do = "login"
  /\ cookie' = Cookie(f)
  /\ IF f.says \in {"caged", "free"}
     THEN /\ me' = f.says /\ adrift' = FALSE
          /\ calls' = calls \cup
               {IF f.says = "caged" THEN ChangePath
                ELSE IF f.on = Nothing THEN ListPath ELSE f.on}
          /\ UNCHANGED chose
     ELSE Redrawn /\ UNCHANGED calls
  /\ lost' = IF f.says \notin {"caged", "free"} THEN lost
              ELSE IF f.gives \in live THEN "no" ELSE "ended"
  /\ UNCHANGED <<stack, at, due>>
  /\ Drawn
  /\ Sends(Landed(f))

LandLogout(f) ==
  /\ f.do = "logout"
  /\ IF f.says = "done" THEN SignedOutEverywhere(f)
     ELSE /\ Redrawn
          /\ UNCHANGED <<cookie, lost, place>>
          /\ Drawn
          /\ Sends(Landed(f))

(* The guard's 401 is taken for a wrong password: `auth' keys are exempt.   *)
LandChange(f) ==
  /\ f.do = "change"
  /\ cookie' = Cookie(f)
  /\ IF f.says = "free"
     THEN /\ me' = "free" /\ adrift' = FALSE
          /\ calls' = IF f.on = ChangePath THEN calls \cup {ListPath} ELSE calls
          /\ chose' = (f.on = ChangePath /\ wasCaged = "yes")
     ELSE Redrawn /\ UNCHANGED calls
  /\ lost' = IF Stale(f) THEN "crossed"
              ELSE IF f.says = "unauthenticated" /\ lost # "crossed" THEN "refused" ELSE lost
  /\ UNCHANGED <<stack, at, due>>
  /\ Drawn
  /\ Sends(Landed(f))

(* A handler on the query cache alone. *)
RefusedReadsOnly(f) ==
  \/ f.do = "read" /\ f.says = "unauthenticated" /\ SignedOutUnseen(f)
  \/ /\ f.do \in OfPage /\ f.says \in {"unauthenticated", "mustChange"}
     /\ cookie' = Cookie(f)
     /\ UNCHANGED <<me, adrift, place, lost, chose>>
     /\ Drawn
     /\ Sends(Landed(f))

(* The handlers both caches share: 401 signs out, 403 cages the entry or,   *)
(* with nobody to cage, asks who is there if the entry is watched.          *)
LandRefused(f) ==
  /\ f.do \in OfPage \cup {"read"}
  /\ \/ f.says = "unauthenticated" /\ SignedOutUnseen(f)
     \/ /\ f.says = "mustChange"
        /\ me' = IF SignedIn /\ ~adrift THEN "caged" ELSE me
        /\ UNCHANGED <<cookie, adrift, place, lost>>
        /\ chose' = (chose /\ adrift)
        /\ Drawn
        /\ Sends(Landed(f) \cup
                   IF SignedIn \/ adrift \/ Pending("me") THEN {}
                   ELSE {Request("me", Nothing)})

LandAuth(f) ==
  /\ f.says # "unanswered" /\ calls = {}
  /\ LandMe(f) \/ LandLogin(f) \/ LandLogout(f) \/ LandChange(f) \/ LandRefused(f)
  /\ UNCHANGED server

-----------------------------------------------------------------------------
(* Drawing *)

Moved == UNCHANGED <<server, auth>>

Redirect ==
  /\ due = {} /\ Redirects # {}
  /\ due' = Redirects
  /\ UNCHANGED <<server, auth, stack, at, calls, drawing, flights>>

Replace(entry) ==
  /\ stack' = Replaced(entry)
  /\ UNCHANGED <<at, chose>>
  /\ Moved
  /\ Drawn
  /\ Sends(flights)

CarryOut == \E entry \in due : due' = {} /\ UNCHANGED calls /\ Replace(entry)
Call == \E path \in calls : calls' = calls \ {path} /\ UNCHANGED due /\ Replace(Entry(path))

-----------------------------------------------------------------------------
(* The reader.  Their events come after the effects of a drawing. *)

Idle == due = {} /\ calls = {}

Walks == Idle /\ chose' = FALSE /\ UNCHANGED <<due, calls>> /\ Moved

Follow(path) ==
  /\ Shell
  /\ at < MaxHistory
  /\ stack' = Pushed(path) /\ at' = at + 1
  /\ Walks /\ Drawn /\ Sends(flights)

GoTo(n) ==
  /\ n \in DOMAIN stack /\ n # at
  /\ at' = n /\ UNCHANGED stack
  /\ Walks /\ Drawn /\ Sends(flights)

(* An address typed, or a reload: the tab starts again, and what it asked   *)
(* is answered to nobody.                                                   *)
Load(path) ==
  /\ Idle /\ asked < MaxAsked
  /\ stack' = Replaced(Entry(path))
  /\ UNCHANGED <<server, cookie, at, due>>
  /\ me' = "asking" /\ adrift' = FALSE
  /\ calls' = {} /\ wasCaged' = "unmounted" /\ chose' = FALSE
  /\ lost' = IF \E f \in flights : f.do \in AuthWrites THEN Ended ELSE lost
  /\ flights' = {Request("me", Nothing)}

Asks(do, on) ==
  /\ Idle /\ Room
  /\ flights' = flights \cup {Request(do, on)}
  /\ UNCHANGED <<server, auth, place, drawing>>

(* A mutation of the provider's has it drawn again.  The null it then finds *)
(* is read again if it has grown old (staleTime), or was invalidated.       *)
AsksAgain == IF adrift THEN {{}, {Request("me", Nothing)}} ELSE {{}}
AsksAuth(do, on) ==
  /\ Idle /\ Room
  /\ Redrawn
  /\ UNCHANGED <<server, cookie, lost, place>>
  /\ Drawn
  /\ \E again \in AsksAgain : Sends(flights \cup {Request(do, on)} \cup again)

(* The form is drawn while the tab is still asking who is there. *)
SubmitSignIn ==
  /\ Path = SignInPath /\ ~SignedIn /\ ~Pending("login")
  /\ AsksAuth("login", stack[at].from)

SubmitChange ==
  /\ \/ ChangeMounted /\ wasCaged = "yes"
     \/ Shell /\ Path = AccountPath
  /\ ~Pending("change")
  /\ AsksAuth("change", Path)

SignOut == Shell /\ ~Pending("logout") /\ AsksAuth("logout", Nothing)

-----------------------------------------------------------------------------

SessionInit ==
  /\ issued \in {0, 1} /\ cookie = issued /\ live = {cookie} \ {0}
  /\ mustChange \in BOOLEAN
  /\ me = "asking"
  /\ stack \in {<<Entry(path)>> : path \in Typed} /\ at = 1
  /\ due = {} /\ calls = {} /\ wasCaged = "unmounted" /\ chose = FALSE
  /\ flights = {Request("me", Nothing)}
  /\ asked = 1
  /\ adrift = FALSE /\ lost = "no"
=============================================================================

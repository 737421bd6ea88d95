---------------------------- MODULE Credentials ----------------------------
(***************************************************************************)
(* The one account, its sessions, and the server that checks them:         *)
(* SignIn, SignOut, AuthenticateSession, ChangeCredentials, the guards,    *)
(* and the start that repairs the account and picks a bind address.        *)
(*                                                                         *)
(* Reading and writing rows is synchronous, so what a handler does between *)
(* two waits is one step.  The waits are the argon2 calls and the arrival  *)
(* of a request's body after the guards have run.  What is read before a   *)
(* wait (the users row, whole) is written back after it.                   *)
(*                                                                         *)
(* Usernames are left out: a rename is a change that keeps the password.   *)
(* A password stands for itself and for any hash of it; what the hash says *)
(* besides is the cost it was made at.                                     *)
(***************************************************************************)
EXTENDS Naturals, Sequences

CONSTANTS
  Passwords, Shipped, Keep,   \* Keep: the change leaves the password alone
  Requests,                   \* requests that may be in flight together
  Lifetime,                   \* of a session, in ticks
  NoRow,
  MaxSession, MaxChange, MaxCost, MaxTime,   \* bounds of an instance
  MayCrash                                   \* kills between two commits

ASSUME CredentialsConstants ==
  /\ Shipped \in Passwords /\ Keep \notin Passwords
  /\ Lifetime \in Nat \ {0}
  /\ MaxCost \in Nat \ {0}
  /\ NoRow \notin [pw : Passwords, cost : 1..MaxCost, mustChange : BOOLEAN]
  /\ MaxSession \in Nat /\ MaxChange \in Nat /\ MaxTime \in Nat
  /\ MayCrash \in BOOLEAN

VARIABLES
  user,      \* the row of users, or NoRow
  cost,      \* what hashing costs in this release
  sessions,  \* sequence of sessions rows
  now,
  req,       \* request -> where its handler waits, and what it has read
  host,      \* "down", or what the server listens on
  epoch      \* auxiliary: credential changes carried through so far

vars == <<user, cost, sessions, now, req, host, epoch>>

Steps == {"idle", "verifying", "rehashing", "arriving", "confirming", "hashing"}
Rows == [pw : Passwords, cost : 1..MaxCost, mustChange : BOOLEAN]
Seeded(c) == [pw |-> Shipped, cost |-> c, mustChange |-> TRUE]

(* row: the users row as read; session: the change request's own; wish: its *)
(* new password; at: the clock as read; seen: auxiliary, the epoch of row.  *)
Waiting(step, row, session, seen) ==
  [step |-> step, row |-> row, session |-> session, wish |-> Keep,
   at |-> 0, seen |-> seen]
Idle == Waiting("idle", NoRow, 0, 0)
At(r, s) == req[r].step = s
Finished(r) == [req EXCEPT ![r] = Idle]

-----------------------------------------------------------------------------
(* Session *)

Usable(s) == ~s.revoked /\ now < s.expires

(* Faulty: extended in the last quarter only. *)
PastThreeQuarters(s) == 4 * now >= s.created + 3 * s.expires

PastHalfLife(s) == 2 * now >= s.created + s.expires

ExtendedFrom(s) == [s EXCEPT !.expires = now + Lifetime]

(* AuthenticateSession, on a session that is Usable.  `used' is auxiliary.  *)
Authenticated(s) ==
  [(IF PastHalfLife(s) THEN ExtendedFrom(s) ELSE s) EXCEPT !.used = now]

(* Auxiliary: the changes that had been made when the account was read, and *)
(* when the row was written.                                                *)
Starting(at, e) ==
  [created |-> at, expires |-> at + Lifetime, revoked |-> FALSE,
   used |-> at, epoch |-> e, since |-> epoch]

-----------------------------------------------------------------------------
(* Requests that never wait *)

(* Any guarded request without a body. *)
Use(i) ==
  /\ host # "down"
  /\ Usable(sessions[i])
  /\ sessions' = [sessions EXCEPT ![i] = Authenticated(@)]
  /\ UNCHANGED <<user, cost, now, req, host, epoch>>

(* The guard still authenticates a live cookie on its way out. *)
SignOut(i) ==
  /\ host # "down"
  /\ ~sessions[i].revoked
  /\ sessions' = [sessions EXCEPT ![i] =
       [(IF Usable(@) THEN Authenticated(@) ELSE @) EXCEPT !.revoked = TRUE]]
  /\ UNCHANGED <<user, cost, now, req, host, epoch>>

-----------------------------------------------------------------------------
(* SignIn *)

BeginSignIn(r) ==
  /\ host # "down" /\ At(r, "idle")
  /\ req' = [req EXCEPT ![r] = Waiting("verifying", user, 0, epoch)]
  /\ UNCHANGED <<user, cost, sessions, now, host, epoch>>

(* A wrong password, an unknown name, or a policy violation: nothing changes. *)
Refuse(r) ==
  /\ req[r].step \in {"verifying", "arriving", "confirming"}
  /\ req' = Finished(r)
  /\ UNCHANGED <<user, cost, sessions, now, host, epoch>>

Opened(r, at) == Append(sessions, Starting(at, req[r].seen))

(* The hash is current: the session is opened at once. *)
Admit(r) ==
  /\ At(r, "verifying") /\ req[r].row.cost = cost
  /\ Len(sessions) < MaxSession
  /\ sessions' = Opened(r, now)
  /\ req' = Finished(r)
  /\ UNCHANGED <<user, cost, now, host, epoch>>

(* needsRehash: the clock is read, then the password is hashed again. *)
BeginRehash(r) ==
  /\ At(r, "verifying") /\ req[r].row.cost # cost
  /\ req' = [req EXCEPT ![r].step = "rehashing", ![r].at = now]
  /\ UNCHANGED <<user, cost, sessions, now, host, epoch>>

WithRehashedPassword(row) == [row EXCEPT !.cost = cost]

Rehash(r) ==
  /\ At(r, "rehashing")
  /\ Len(sessions) < MaxSession
  /\ user' = WithRehashedPassword(req[r].row)
  /\ sessions' = Opened(r, req[r].at)
  /\ req' = Finished(r)
  /\ UNCHANGED <<cost, now, host, epoch>>

-----------------------------------------------------------------------------
(* ChangeCredentials *)

(* The guards pass on the headers; the body is still to come. *)
BeginChange(r, i) ==
  /\ host # "down" /\ At(r, "idle")
  /\ Usable(sessions[i])
  /\ sessions' = [sessions EXCEPT ![i] = Authenticated(@)]
  /\ req' = [req EXCEPT ![r] = Waiting("arriving", NoRow, i, 0)]
  /\ UNCHANGED <<user, cost, now, host, epoch>>

ReadBody(r, wish) ==
  /\ At(r, "arriving")
  /\ req' = [req EXCEPT ![r].step = "confirming", ![r].row = user, ![r].wish = wish]
  /\ UNCHANGED <<user, cost, sessions, now, host, epoch>>

(* Of the policy: not the current password; the shipped one is too short.   *)
PolicyAllows(p, row) == p # row.pw /\ p # Shipped

BeginHash(r) ==
  /\ At(r, "confirming") /\ req[r].wish # Keep
  /\ PolicyAllows(req[r].wish, req[r].row)
  /\ req' = [req EXCEPT ![r].step = "hashing"]
  /\ UNCHANGED <<user, cost, sessions, now, host, epoch>>

WithPassword(row, p) == [pw |-> p, cost |-> cost, mustChange |-> FALSE]

(* What users.update writes: the row as it was read, changed. *)
Updated(r) ==
  IF req[r].wish = Keep THEN req[r].row ELSE WithPassword(req[r].row, req[r].wish)

ReadyToSave(r) ==
  /\ At(r, "hashing") \/ (At(r, "confirming") /\ req[r].wish = Keep)
  /\ epoch < MaxChange

(* Faulty: only what has expired is swept. *)
SweptIfExpired(s) == [s EXCEPT !.revoked = @ \/ now >= s.expires]

Swept(s) == [s EXCEPT !.revoked = TRUE]

(* users.update, then revokeAllForUser except the session of the request.   *)
SaveChange(r) ==
  /\ ReadyToSave(r)
  /\ user' = Updated(r)
  /\ sessions' = [i \in DOMAIN sessions |->
       IF i = req[r].session
       THEN [sessions[i] EXCEPT !.epoch = epoch + 1, !.since = epoch + 1]
       ELSE Swept(sessions[i])]
  /\ epoch' = epoch + 1
  /\ req' = Finished(r)
  /\ UNCHANGED <<cost, now, host>>

-----------------------------------------------------------------------------
(* The process *)

Kill ==
  /\ host # "down"
  /\ host' = "down"
  /\ req' = [r \in Requests |-> Idle]

Stop == Kill /\ UNCHANGED <<user, cost, sessions, now, epoch>>

(* Two writes, two commits: the second may never happen.  The change is not *)
(* counted, since it did not get to its end.                                *)
DieBeforeSweep(r) ==
  /\ MayCrash /\ ReadyToSave(r) /\ Kill
  /\ user' = Updated(r)
  /\ UNCHANGED <<cost, sessions, now, epoch>>

DieBeforeSession(r) ==
  /\ MayCrash /\ At(r, "rehashing") /\ Kill
  /\ user' = WithRehashedPassword(req[r].row)
  /\ UNCHANGED <<cost, sessions, now, epoch>>

(* migrate puts the shipped account into an empty users table. *)
Repaired(c) == IF user = NoRow THEN Seeded(c) ELSE user

FlagAtStart(c) == Repaired(c).mustChange

(* migrate, then the flag, then assertSafeBindAddress, then listen.  This   *)
(* may be a new release, which hashes at a higher cost.                     *)
Start(h, c) ==
  /\ host = "down"
  /\ cost' = c
  /\ user' = Repaired(c)
  /\ host' = IF FlagAtStart(c) /\ h = "remote" THEN "down" ELSE h
  /\ UNCHANGED <<sessions, now, req, epoch>>

(* The owner empties users by hand to recover the account.  Whether the     *)
(* sessions go with it is up to the foreign_keys pragma of the tool used.   *)
EmptyUsers ==
  /\ host = "down" /\ user # NoRow
  /\ user' = NoRow
  /\ sessions' \in {sessions, <<>>}
  /\ UNCHANGED <<cost, now, req, host, epoch>>

Tick ==
  /\ now < MaxTime
  /\ now' = now + 1
  /\ UNCHANGED <<user, cost, sessions, req, host, epoch>>

Init ==
  /\ user = NoRow /\ cost = 1
  /\ sessions = <<>> /\ now = 0
  /\ req = [r \in Requests |-> Idle]
  /\ host = "down" /\ epoch = 0

SignIn(r) ==
  BeginSignIn(r) \/ Refuse(r) \/ Admit(r) \/ BeginRehash(r) \/ Rehash(r)

ChangeCredentials(r) ==
  \/ \E i \in DOMAIN sessions : BeginChange(r, i)
  \/ \E wish \in Passwords \cup {Keep} : ReadBody(r, wish)
  \/ BeginHash(r) \/ SaveChange(r)

Next ==
  \/ \E i \in DOMAIN sessions : Use(i) \/ SignOut(i)
  \/ \E r \in Requests : SignIn(r) \/ ChangeCredentials(r)
  \/ \E r \in Requests : DieBeforeSweep(r) \/ DieBeforeSession(r)
  \/ \E h \in {"loopback", "remote"}, c \in cost..MaxCost : Start(h, c)
  \/ Stop \/ EmptyUsers \/ Tick

Spec == Init /\ [][Next]_vars

-----------------------------------------------------------------------------
(* Properties *)

SessionRows ==
  [created : Nat, expires : Nat, revoked : BOOLEAN, used : Nat,
   epoch : Nat, since : Nat]

Handlers ==
  [step : Steps, row : Rows \cup {NoRow}, session : Nat,
   wish : Passwords \cup {Keep}, at : Nat, seen : Nat]

TypeOK ==
  /\ user \in Rows \cup {NoRow}
  /\ cost \in 1..MaxCost
  /\ sessions \in Seq(SessionRows)
  /\ now \in Nat /\ epoch \in Nat
  /\ req \in [Requests -> Handlers]
  /\ host \in {"down", "loopback", "remote"}
  /\ host # "down" => user # NoRow

(* However sign-ins, rehashes and changes write back rows they read before  *)
(* a wait, the shipped password is never on file without its must-change    *)
(* flag: withPassword alone clears it, and whole rows are written.          *)
ShippedIsFlagged == user # NoRow /\ user.pw = Shipped => user.mustChange

(* main.ts: the server is reachable from elsewhere only while the shipped   *)
(* password is not in place -- at start, and for as long as it then runs.   *)
RemoteMeansChanged ==
  host = "remote" => user # NoRow /\ ~user.mustChange /\ user.pw # Shipped

(* A change that has been answered was the end of every session on file,    *)
(* but for its own: whatever requests overlap it, a session still open has  *)
(* been written since.  (A change killed between its two commits is not     *)
(* answered, and ends none: DieBeforeSweep.)                                *)
ChangesEndWhatWasOpen ==
  \A i \in DOMAIN sessions : sessions[i].revoked \/ sessions[i].since = epoch

(* change-credentials.ts: "Changing credentials revokes every other         *)
(* session": what is open was signed in to with the credentials as they     *)
(* are.  Violated: a sign-in that read the row before the change writes its *)
(* session after the sweep, and stays.                                      *)
OthersAreRevoked ==
  \A i \in DOMAIN sessions : sessions[i].revoked \/ sessions[i].epoch = epoch

(* A password is replaced only by a request that verified that password.    *)
(* Violated by two changes that overlap, and by a rehash over a change.     *)
ReplacedKnowingly ==
  [][user # NoRow /\ user' # NoRow /\ user'.pw # user.pw =>
       \E r \in Requests : req[r].row # NoRow /\ req[r].row.pw = user.pw]_vars

(* user.ts, of the rehash on sign-in: "the credential has not changed, only *)
(* the cost it is stored at".  Violated over a change.                      *)
RehashKeepsThePassword ==
  [][(\E r \in Requests : Rehash(r)) => user'.pw = user.pw]_vars

(* session.ts: "somebody using the app daily never gets logged out": a      *)
(* session used within half a lifetime has not expired.                     *)
RegularUseStaysSignedIn ==
  \A i \in DOMAIN sessions :
    2 * now <= 2 * sessions[i].used + Lifetime => now < sessions[i].expires

(* ... "and somebody who stops using it still expires on schedule".         *)
IdleSessionsExpire ==
  \A i \in DOMAIN sessions :
    now >= sessions[i].used + Lifetime => now >= sessions[i].expires

(* session.ts in one sentence: a session lasts as long as it is used, and   *)
(* no longer, although its expiry is written only past half its life.       *)
SessionsLastAsUsed == RegularUseStaysSignedIn /\ IdleSessionsExpire
=============================================================================

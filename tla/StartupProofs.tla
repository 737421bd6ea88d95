--------------------------- MODULE StartupProofs ---------------------------
(***************************************************************************)
(* Theorems about Credentials, for any number of requests in flight, kills *)
(* between any two commits, and any lifetime; and about Startup, for any   *)
(* releases and any costs besides.                                         *)
(***************************************************************************)
EXTENDS Startup, SequenceTheorems, TLAPS

-----------------------------------------------------------------------------
(* Credentials                                                             *)
(*                                                                         *)
(* What makes ShippedIsFlagged and RemoteMeansChanged survive the stale    *)
(* writes is that every row a handler has read satisfies them too: the     *)
(* inductive invariant says so of the rows in req.                         *)

Flagged(row) == row.pw = Shipped => row.mustChange
MayServe(row) == host = "remote" => ~row.mustChange

RowOnFile == user # NoRow => Flagged(user) /\ MayServe(user)

RowsRead ==
  \A r \in Requests :
    /\ req[r].step \notin {"idle", "arriving"} => req[r].row # NoRow
    /\ req[r].row # NoRow => Flagged(req[r].row) /\ MayServe(req[r].row)
    /\ At(r, "hashing") => req[r].wish \in Passwords \ {Shipped}

DownIsIdle == host = "down" => \A r \in Requests : req[r] = Idle

(* A session's clocks, and the moment a rehashing sign-in has read.         *)
Timely(s) ==
  /\ s.created + Lifetime <= s.expires /\ s.expires <= s.used + Lifetime
  /\ s.used <= now
  /\ s.expires = s.used + Lifetime \/ 2 * s.used < s.created + s.expires

SessionsTimely ==
  /\ \A i \in DOMAIN sessions : Timely(sessions[i])
  /\ \A r \in Requests : req[r].at <= now

IInv == TypeOK /\ RowOnFile /\ RowsRead /\ DownIsIdle /\ SessionsTimely

-----------------------------------------------------------------------------
(* Lemmas about a session row *)

LEMMA AuthenticatedIsTimely ==
  ASSUME NEW s \in SessionRows, now \in Nat, Timely(s), Usable(s)
  PROVE  Authenticated(s) \in SessionRows /\ Timely(Authenticated(s))
  BY CredentialsConstants
     DEF SessionRows, Timely, Usable, Authenticated, ExtendedFrom, PastHalfLife

LEMMA StartingIsTimely ==
  ASSUME NEW at \in Nat, NEW e \in Nat, now \in Nat, at <= now, epoch \in Nat
  PROVE  Starting(at, e) \in SessionRows /\ Timely(Starting(at, e))
  BY CredentialsConstants DEF SessionRows, Timely, Starting

LEMMA SessionsGrow ==
  ASSUME NEW t \in Seq(SessionRows), NEW s \in SessionRows, Timely(s),
         \A i \in DOMAIN t : Timely(t[i])
  PROVE  /\ Append(t, s) \in Seq(SessionRows)
         /\ \A i \in DOMAIN Append(t, s) : Timely(Append(t, s)[i])
<1>1. Append(t, s) \in Seq(SessionRows)
  OBVIOUS
<1>2. ASSUME NEW i \in DOMAIN Append(t, s) PROVE Timely(Append(t, s)[i])
  <2>1. Append(t, s)[i] = s \/ (i \in DOMAIN t /\ Append(t, s)[i] = t[i])
    BY <1>2
  <2> QED
    BY <2>1
<1> QED
  BY <1>1, <1>2

-----------------------------------------------------------------------------
LEMMA InitIInv == Init => IInv
<1> SUFFICES ASSUME Init PROVE IInv
  OBVIOUS
<1> USE CredentialsConstants DEF Init, Idle, Waiting, At
<1>1. TypeOK
  BY DEF TypeOK, Handlers, Steps
<1>2. RowOnFile /\ RowsRead /\ DownIsIdle /\ SessionsTimely
  BY DEF RowOnFile, RowsRead, DownIsIdle, SessionsTimely
<1> QED
  BY <1>1, <1>2 DEF IInv

LEMMA SessionReplaced ==
  ASSUME NEW t \in Seq(SessionRows), NEW i \in DOMAIN t, NEW s \in SessionRows
  PROVE  [t EXCEPT ![i] = s] \in Seq(SessionRows)
  OBVIOUS

LEMMA SessionsMapped ==
  ASSUME NEW t, NEW u \in Seq(SessionRows), DOMAIN t = DOMAIN u,
         t = [i \in DOMAIN t |-> t[i]], \A i \in DOMAIN u : t[i] \in SessionRows
  PROVE  t \in Seq(SessionRows)
  OBVIOUS

LEMMA NextIInv == IInv /\ [Next]_vars => IInv'
<1> SUFFICES ASSUME IInv, [Next]_vars PROVE IInv'
  OBVIOUS
<1> USE CredentialsConstants DEF IInv
<1>1. ASSUME NEW i \in DOMAIN sessions, Use(i) PROVE IInv'
  <2> DEFINE s == Authenticated(sessions[i])
  <2>1. s \in SessionRows /\ Timely(s)
    BY <1>1, AuthenticatedIsTimely DEF Use, TypeOK, Handlers, SessionsTimely
  <2> HIDE DEF s
  <2>2. sessions' = [sessions EXCEPT ![i] = s]
    BY <1>1 DEF Use, s
  <2>3. TypeOK'
    BY <1>1, <2>1, <2>2, SessionReplaced DEF Use, TypeOK, Handlers
  <2>4. (RowOnFile /\ RowsRead /\ DownIsIdle)'
    BY <1>1 DEF Use, RowOnFile, RowsRead, DownIsIdle, MayServe, At
  <2>5. SessionsTimely'
    BY <1>1, <2>1, <2>2 DEF Use, SessionsTimely, TypeOK, Handlers, Timely
  <2> QED
    BY <2>3, <2>4, <2>5
<1>2. ASSUME NEW i \in DOMAIN sessions, SignOut(i) PROVE IInv'
  <2> DEFINE s == IF Usable(sessions[i]) THEN Authenticated(sessions[i]) ELSE sessions[i]
             q == [s EXCEPT !.revoked = TRUE]
  <2>1. s \in SessionRows /\ Timely(s)
    BY AuthenticatedIsTimely DEF TypeOK, Handlers, SessionsTimely
  <2>2. sessions' = [sessions EXCEPT ![i] = q]
    BY <1>2 DEF SignOut
  <2> HIDE DEF s
  <2>3. q \in SessionRows /\ Timely(q)
    BY <2>1 DEF SessionRows, Timely
  <2> HIDE DEF q
  <2>7. sessions' \in Seq(SessionRows)
    BY <2>2, <2>3, SessionReplaced DEF TypeOK, Handlers
  <2>8. UNCHANGED <<user, cost, now, req, host, epoch>>
    BY <1>2 DEF SignOut
  <2>4. TypeOK'
    BY <2>7, <2>8 DEF TypeOK, Handlers
  <2>5. (RowOnFile /\ RowsRead /\ DownIsIdle)'
    BY <1>2 DEF SignOut, RowOnFile, RowsRead, DownIsIdle, MayServe, At
  <2>6. SessionsTimely'
    BY <1>2, <2>2, <2>3 DEF SignOut, SessionsTimely, TypeOK, Handlers, Timely
  <2> QED
    BY <2>4, <2>5, <2>6
<1>3. ASSUME NEW r \in Requests, NEW q \in Handlers,
             q.at <= now, host # "down",
             q.step \notin {"idle", "arriving"} => q.row # NoRow,
             q.row # NoRow => Flagged(q.row) /\ MayServe(q.row),
             q.step = "hashing" => q.wish \in Passwords \ {Shipped},
             req' = [req EXCEPT ![r] = q],
             UNCHANGED <<user, cost, sessions, now, host, epoch>>
      PROVE  IInv'
  <2>1. TypeOK'
    BY <1>3 DEF TypeOK, Handlers
  <2>2. (RowOnFile /\ RowsRead /\ DownIsIdle)'
    BY <1>3 DEF TypeOK, Handlers, RowOnFile, RowsRead, DownIsIdle, MayServe, At
  <2>3. SessionsTimely'
    BY <1>3 DEF TypeOK, Handlers, SessionsTimely, Timely
  <2> QED
    BY <2>1, <2>2, <2>3
<1>16. ASSUME NEW r \in Requests, ~At(r, "idle") PROVE host # "down" /\ user # NoRow
  BY <1>16 DEF DownIsIdle, Idle, Waiting, At, TypeOK, Handlers
<1>17. ASSUME NEW r \in Requests, BeginSignIn(r) PROVE IInv'
  <2> DEFINE q == Waiting("verifying", user, 0, epoch)
  <2>1. /\ req' = [req EXCEPT ![r] = q] /\ host # "down" /\ user # NoRow
        /\ UNCHANGED <<user, cost, sessions, now, host, epoch>>
    BY <1>17 DEF BeginSignIn, TypeOK
  <2>2. /\ q \in Handlers /\ q.at <= now
        /\ q.step = "verifying" /\ q.row = user
    BY DEF TypeOK, Handlers, Steps, Waiting
  <2> HIDE DEF q
  <2> QED
    BY <1>3, <2>1, <2>2 DEF RowOnFile
<1>18. ASSUME NEW r \in Requests, Refuse(r) PROVE IInv'
  <2>1. /\ req' = [req EXCEPT ![r] = Idle] /\ host # "down"
        /\ UNCHANGED <<user, cost, sessions, now, host, epoch>>
    BY <1>16, <1>18 DEF Refuse, Finished, At
  <2>2. /\ Idle \in Handlers /\ Idle.at <= now
        /\ Idle.step = "idle" /\ Idle.row = NoRow
    BY DEF Idle, Waiting, TypeOK, Handlers, Steps
  <2> QED
    BY <1>3, <2>1, <2>2
<1>19. ASSUME NEW r \in Requests, BeginRehash(r) PROVE IInv'
  <2> DEFINE q == [req[r] EXCEPT !.step = "rehashing", !.at = now]
  <2>5. req[r] \in Handlers /\ now \in Nat
    BY DEF TypeOK
  <2>1. /\ req' = [req EXCEPT ![r] = q] /\ host # "down"
        /\ UNCHANGED <<user, cost, sessions, now, host, epoch>>
    BY <1>16, <1>19 DEF BeginRehash, At, TypeOK, Handlers
  <2>6. q \in Handlers
    BY <2>5 DEF Handlers, Steps
  <2>2. q.at <= now /\ q.step = "rehashing" /\ q.row = req[r].row
    BY <2>5 DEF Handlers
  <2>3. q.row # NoRow => Flagged(q.row) /\ MayServe(q.row)
    BY <2>2 DEF RowsRead
  <2>4. q.row # NoRow
    BY <1>19, <2>2 DEF BeginRehash, RowsRead, At
  <2> HIDE DEF q
  <2> QED
    BY <1>3, <2>1, <2>2, <2>3, <2>4, <2>6
<1>20. ASSUME NEW r \in Requests, BeginHash(r) PROVE IInv'
  <2> DEFINE q == [req[r] EXCEPT !.step = "hashing"]
  <2>1. /\ req' = [req EXCEPT ![r] = q] /\ host # "down"
        /\ UNCHANGED <<user, cost, sessions, now, host, epoch>>
    BY <1>16, <1>20 DEF BeginHash, At, TypeOK, Handlers
  <2>2. /\ q \in Handlers /\ q.at <= now /\ q.step = "hashing"
        /\ q.row = req[r].row /\ q.wish = req[r].wish
    BY DEF TypeOK, Handlers, Steps, SessionsTimely
  <2>3. q.row # NoRow => Flagged(q.row) /\ MayServe(q.row)
    BY <2>2 DEF RowsRead
  <2>4. q.row # NoRow
    BY <1>20, <2>2 DEF BeginHash, RowsRead, At
  <2>5. q.wish \in Passwords \ {Shipped}
    BY <1>20, <2>2 DEF BeginHash, PolicyAllows, TypeOK, Handlers
  <2> HIDE DEF q
  <2> QED
    BY <1>3, <2>1, <2>2, <2>3, <2>4, <2>5
<1>21. ASSUME NEW r \in Requests, NEW wish \in Passwords \cup {Keep}, ReadBody(r, wish)
       PROVE  IInv'
  <2> DEFINE q == [req[r] EXCEPT !.step = "confirming", !.row = user, !.wish = wish]
  <2>1. /\ req' = [req EXCEPT ![r] = q] /\ host # "down" /\ user # NoRow
        /\ UNCHANGED <<user, cost, sessions, now, host, epoch>>
    BY <1>16, <1>21 DEF ReadBody, At, TypeOK, Handlers
  <2>2. q \in Handlers /\ q.at <= now /\ q.step = "confirming" /\ q.row = user
    BY DEF TypeOK, Handlers, Steps, SessionsTimely
  <2> HIDE DEF q
  <2> QED
    BY <1>3, <2>1, <2>2 DEF RowOnFile
<1>4. ASSUME NEW r \in Requests, Admit(r) \/ Rehash(r) PROVE IInv'
  <2> DEFINE at == IF At(r, "rehashing") THEN req[r].at ELSE now
             s == Starting(at, req[r].seen)
  <2>1. s \in SessionRows /\ Timely(s)
    BY StartingIsTimely DEF TypeOK, Handlers, SessionsTimely
  <2>2. sessions' = Append(sessions, s)
    BY <1>4 DEF Admit, Rehash, Opened, At
  <2> HIDE DEF s
  <2>3. /\ sessions' \in Seq(SessionRows)
        /\ \A i \in DOMAIN sessions' : Timely(sessions'[i])
    BY <2>1, <2>2, SessionsGrow DEF TypeOK, Handlers, SessionsTimely
  <2>4. user' \in Rows /\ Flagged(user') /\ MayServe(user')
    <3>1. CASE Admit(r)
      BY <1>16, <3>1 DEF Admit, TypeOK, Handlers, RowOnFile, At
    <3>2. CASE Rehash(r)
      <4>1. req[r].row \in Rows /\ Flagged(req[r].row) /\ MayServe(req[r].row)
        BY <3>2 DEF Rehash, TypeOK, Handlers, RowsRead, At
      <4>2. user' = [req[r].row EXCEPT !.cost = cost] /\ host' = host
        BY <3>2 DEF Rehash, WithRehashedPassword
      <4> QED
        BY <4>1, <4>2 DEF Rows, Flagged, MayServe, TypeOK, Handlers
    <3> QED
      BY <1>4, <3>1, <3>2
  <2>5. /\ req' = Finished(r) /\ host' = host /\ now' = now
        /\ cost' = cost /\ epoch' = epoch
    BY <1>4 DEF Admit, Rehash
  <2>6. TypeOK'
    BY <2>3, <2>4, <2>5 DEF TypeOK, Handlers, Finished, Idle, Waiting, Steps, Rows
  <2>7. (RowOnFile /\ RowsRead /\ DownIsIdle)'
    BY <2>4, <2>5 DEF TypeOK, Handlers, RowOnFile, RowsRead, DownIsIdle, Finished, Idle, Waiting, At, MayServe, Flagged
  <2>8. SessionsTimely'
    BY <2>3, <2>5 DEF TypeOK, Handlers, SessionsTimely, Finished, Idle, Waiting, Timely
  <2> QED
    BY <2>6, <2>7, <2>8
<1>5. ASSUME NEW r \in Requests, NEW i \in DOMAIN sessions, BeginChange(r, i)
      PROVE  IInv'
  <2> DEFINE s == Authenticated(sessions[i])
  <2>1. s \in SessionRows /\ Timely(s)
    BY <1>5, AuthenticatedIsTimely DEF BeginChange, TypeOK, Handlers, SessionsTimely
  <2> HIDE DEF s
  <2>2. sessions' = [sessions EXCEPT ![i] = s]
    BY <1>5 DEF BeginChange, s
  <2>6. sessions' \in Seq(SessionRows)
    BY <2>1, <2>2, SessionReplaced DEF TypeOK, Handlers
  <2>7. Waiting("arriving", NoRow, i, 0) \in Handlers
    <3>1. i \in Nat
      BY DEF TypeOK
    <3> QED
      BY <3>1 DEF Handlers, Steps, Waiting
  <2>3. TypeOK'
    BY <1>5, <2>6, <2>7 DEF BeginChange, TypeOK, Handlers
  <2>4. (RowOnFile /\ RowsRead /\ DownIsIdle)'
    BY <1>5 DEF BeginChange, TypeOK, Handlers, RowOnFile, RowsRead, DownIsIdle, MayServe, At, Idle, Waiting
  <2>5. SessionsTimely'
    BY <1>5, <2>1, <2>2 DEF BeginChange, SessionsTimely, TypeOK, Handlers, Timely, Idle, Waiting
  <2> QED
    BY <2>3, <2>4, <2>5
<1>6. ASSUME NEW r \in Requests, ReadyToSave(r)
      PROVE  Updated(r) \in Rows /\ Flagged(Updated(r)) /\ MayServe(Updated(r))
  BY <1>6 DEF ReadyToSave, Updated, WithPassword, TypeOK, Handlers, RowsRead, Rows,
              Flagged, MayServe, At
<1>7. ASSUME NEW r \in Requests, SaveChange(r) PROVE IInv'
  <2>1. user' \in Rows /\ Flagged(user') /\ MayServe(user')
    BY <1>6, <1>7 DEF SaveChange
  <2>2. \A i \in DOMAIN sessions : sessions'[i] \in SessionRows /\ Timely(sessions'[i])
    <3> SUFFICES ASSUME NEW i \in DOMAIN sessions
                 PROVE  sessions'[i] \in SessionRows /\ Timely(sessions'[i])
      OBVIOUS
    <3>1. sessions[i] \in SessionRows /\ Timely(sessions[i]) /\ epoch + 1 \in Nat
      BY DEF TypeOK, Handlers, SessionsTimely
    <3>2. \/ sessions'[i] = [sessions[i] EXCEPT !.epoch = epoch + 1, !.since = epoch + 1]
          \/ sessions'[i] = [sessions[i] EXCEPT !.revoked = TRUE]
      BY <1>7 DEF SaveChange, Swept
    <3> QED
      BY <3>1, <3>2 DEF SessionRows, Timely
  <2>3. sessions' \in Seq(SessionRows) /\ DOMAIN sessions' = DOMAIN sessions
    BY <1>7, <2>2, SessionsMapped DEF SaveChange, TypeOK, Handlers
  <2>4. /\ req' = Finished(r) /\ host' = host /\ now' = now
        /\ cost' = cost /\ epoch' = epoch + 1
    BY <1>7 DEF SaveChange
  <2>5. TypeOK'
    BY <2>1, <2>3, <2>4 DEF TypeOK, Handlers, Finished, Idle, Waiting, Steps, Rows
  <2>6. (RowOnFile /\ RowsRead /\ DownIsIdle)'
    BY <2>1, <2>4 DEF TypeOK, Handlers, RowOnFile, RowsRead, DownIsIdle, Finished, Idle, Waiting, At, MayServe, Flagged
  <2>7. SessionsTimely'
    BY <2>2, <2>3, <2>4 DEF TypeOK, Handlers, SessionsTimely, Finished, Idle, Waiting, Timely
  <2> QED
    BY <2>5, <2>6, <2>7
<1>8. ASSUME Kill, user' \in Rows \cup {NoRow}, user' # NoRow => Flagged(user'),
             UNCHANGED <<cost, sessions, now>>, epoch' \in Nat
      PROVE  IInv'
  BY <1>8 DEF Kill, TypeOK, Handlers, Idle, Waiting, Steps, RowOnFile, RowsRead, DownIsIdle,
              MayServe, Flagged, SessionsTimely, Timely, At
<1>9. CASE Stop
  BY <1>8, <1>9 DEF Stop, TypeOK, Handlers, RowOnFile
<1>10. ASSUME NEW r \in Requests, DieBeforeSweep(r) PROVE IInv'
  BY <1>6, <1>8, <1>10 DEF DieBeforeSweep, TypeOK, Handlers
<1>11. ASSUME NEW r \in Requests, DieBeforeSession(r) PROVE IInv'
  <2>1. user' \in Rows /\ Flagged(user')
    BY <1>11 DEF DieBeforeSession, TypeOK, Handlers, RowsRead, Rows, WithRehashedPassword, Flagged, At
  <2> QED
    BY <1>8, <1>11, <2>1 DEF DieBeforeSession, TypeOK, Handlers
<1>12. ASSUME NEW h \in {"loopback", "remote"}, NEW c \in cost..MaxCost, Start(h, c)
       PROVE  IInv'
  <2>1. user' \in Rows /\ Flagged(user')
    BY <1>12 DEF Start, Repaired, Seeded, Rows, Flagged, TypeOK, Handlers, RowOnFile
  <2>2. TypeOK'
    BY <1>12, <2>1 DEF Start, TypeOK, Handlers, Rows
  <2>3. (RowOnFile /\ RowsRead /\ DownIsIdle)'
    BY <1>12, <2>1 DEF Start, FlagAtStart, RowOnFile, RowsRead, DownIsIdle,
                       MayServe, Flagged, Idle, Waiting, At
  <2>4. SessionsTimely'
    BY <1>12 DEF Start, SessionsTimely, Timely
  <2> QED
    BY <2>2, <2>3, <2>4
<1>13. CASE EmptyUsers
  <2>1. sessions' \in Seq(SessionRows) /\ \A i \in DOMAIN sessions' : Timely(sessions'[i])
    <3>1. CASE sessions' = sessions
      BY <3>1 DEF TypeOK, Handlers, SessionsTimely
    <3>2. CASE sessions' = <<>>
      BY <3>2
    <3> QED
      BY <1>13, <3>1, <3>2 DEF EmptyUsers
  <2>2. user' = NoRow /\ host = "down" /\ UNCHANGED <<cost, now, req, host, epoch>>
    BY <1>13 DEF EmptyUsers
  <2>3. TypeOK' /\ (RowOnFile /\ RowsRead /\ DownIsIdle)'
    BY <2>1, <2>2 DEF TypeOK, Handlers, RowOnFile, RowsRead, DownIsIdle, MayServe, At
  <2>4. SessionsTimely'
    BY <2>1, <2>2 DEF SessionsTimely, Timely
  <2> QED
    BY <2>3, <2>4
<1>14. CASE Tick
  <2>1. TypeOK' /\ (RowOnFile /\ RowsRead /\ DownIsIdle)'
    BY <1>14 DEF Tick, TypeOK, Handlers, RowOnFile, RowsRead, DownIsIdle, MayServe, At
  <2>2. ASSUME NEW i \in DOMAIN sessions PROVE Timely(sessions[i])'
    <3>1. sessions[i] \in SessionRows /\ Timely(sessions[i])
      BY DEF TypeOK, Handlers, SessionsTimely
    <3> QED
      BY <1>14, <3>1 DEF Tick, Timely, TypeOK, Handlers, SessionRows
  <2>3. SessionsTimely'
    BY <1>14, <2>2 DEF Tick, SessionsTimely, TypeOK, Handlers
  <2> QED
    BY <2>1, <2>3
<1>15. CASE UNCHANGED vars
  BY <1>15 DEF vars, TypeOK, Handlers, RowOnFile, RowsRead, DownIsIdle, MayServe, At,
               SessionsTimely, Timely
<1> QED
  BY <1>1, <1>2, <1>4, <1>5, <1>7, <1>9, <1>10, <1>11, <1>12, <1>13, <1>14, <1>15,
     <1>17, <1>18, <1>19, <1>20, <1>21 DEF Next, SignIn, ChangeCredentials

LEMMA AlwaysIInv == Spec => []IInv
  BY InitIInv, NextIInv, PTL DEF Spec

-----------------------------------------------------------------------------
(* The account, the sessions and the handlers keep their shape. *)
THEOREM TypeCorrect == Spec => []TypeOK
  BY AlwaysIInv, PTL DEF IInv

(* The shipped password is never on file without its must-change flag,      *)
(* whatever stale rows are written back.                                    *)
THEOREM ShippedStaysFlagged == Spec => []ShippedIsFlagged
<1>1. IInv => ShippedIsFlagged
  BY DEF IInv, RowOnFile, Flagged, ShippedIsFlagged
<1> QED
  BY <1>1, AlwaysIInv, PTL

(* A server that can be reached from elsewhere has an account whose shipped *)
(* password is gone, for as long as it runs.                                *)
THEOREM RemoteServesChanged == Spec => []RemoteMeansChanged
<1>1. IInv => RemoteMeansChanged
  BY DEF IInv, TypeOK, Handlers, RowOnFile, Flagged, MayServe, RemoteMeansChanged
<1> QED
  BY <1>1, AlwaysIInv, PTL

(* Regular use is never signed out by the clock ... *)
THEOREM RegularUseIsEnough == Spec => []RegularUseStaysSignedIn
<1>1. IInv => RegularUseStaysSignedIn
  <2> SUFFICES ASSUME IInv, NEW i \in DOMAIN sessions,
                      2 * now <= 2 * sessions[i].used + Lifetime
               PROVE  now < sessions[i].expires
    BY DEF RegularUseStaysSignedIn
  <2> DEFINE s == sessions[i]
  <2>1. s \in SessionRows /\ Timely(s) /\ now \in Nat
    BY DEF IInv, TypeOK, SessionsTimely
  <2>2. 2 * now <= 2 * s.used + Lifetime
    OBVIOUS
  <2> HIDE DEF s
  <2>3. /\ s.created \in Nat /\ s.expires \in Nat /\ s.used \in Nat
        /\ s.created + Lifetime <= s.expires
        /\ s.expires = s.used + Lifetime \/ 2 * s.used < s.created + s.expires
    BY <2>1 DEF SessionRows, Timely
  <2>4. now < s.expires
    BY <2>1, <2>2, <2>3, CredentialsConstants
  <2> QED
    BY <2>4 DEF s
<1> QED
  BY <1>1, AlwaysIInv, PTL

(* ... and an unused session does not outlive its lifetime. *)
THEOREM IdleUseEnds == Spec => []IdleSessionsExpire
<1>1. IInv => IdleSessionsExpire
  <2> SUFFICES ASSUME IInv PROVE IdleSessionsExpire
    OBVIOUS
  <2>1. \A i \in DOMAIN sessions : sessions[i] \in SessionRows /\ Timely(sessions[i])
    BY DEF IInv, TypeOK, Handlers, SessionsTimely
  <2> QED
    BY <2>1, CredentialsConstants DEF IInv, TypeOK, Handlers, SessionRows, Timely, IdleSessionsExpire
<1> QED
  BY <1>1, AlwaysIInv, PTL

(* A session lasts as long as it is used and no longer, for every lifetime  *)
(* and any number of requests (session.ts).                                 *)
THEOREM SessionsFollowTheirUse == Spec => []SessionsLastAsUsed
  BY RegularUseIsEnough, IdleUseEnds, PTL DEF SessionsLastAsUsed

-----------------------------------------------------------------------------
(* What a change of credentials ends *)

LEMMA AuthenticatedKeeps ==
  ASSUME NEW s \in SessionRows
  PROVE  Authenticated(s).revoked = s.revoked /\ Authenticated(s).since = s.since
  BY DEF SessionRows, Authenticated, ExtendedFrom

LEMMA StepEndsWhatWasOpen ==
  ASSUME IInv, ChangesEndWhatWasOpen, [Next]_vars
  PROVE  ChangesEndWhatWasOpen'
<1>1. ASSUME UNCHANGED <<sessions, epoch>> PROVE ChangesEndWhatWasOpen'
  BY <1>1 DEF ChangesEndWhatWasOpen
<1>2. ASSUME NEW i \in DOMAIN sessions, sessions' = [sessions EXCEPT ![i] = Authenticated(@)],
             epoch' = epoch
      PROVE  ChangesEndWhatWasOpen'
  BY <1>2, AuthenticatedKeeps DEF ChangesEndWhatWasOpen, IInv, TypeOK
<1>3. ASSUME NEW i \in DOMAIN sessions, SignOut(i) PROVE ChangesEndWhatWasOpen'
  <2> DEFINE s == IF Usable(sessions[i]) THEN Authenticated(sessions[i]) ELSE sessions[i]
  <2>1. sessions' = [sessions EXCEPT ![i] = [s EXCEPT !.revoked = TRUE]] /\ epoch' = epoch
    BY <1>3 DEF SignOut
  <2>2. s \in SessionRows
    BY AuthenticatedIsTimely DEF IInv, TypeOK, SessionsTimely
  <2> HIDE DEF s
  <2>3. [s EXCEPT !.revoked = TRUE].revoked
    BY <2>2 DEF SessionRows
  <2> QED
    BY <2>1, <2>3 DEF ChangesEndWhatWasOpen, IInv, TypeOK
<1>4. ASSUME NEW r \in Requests, Admit(r) \/ Rehash(r) PROVE ChangesEndWhatWasOpen'
  <2>1. PICK at, e : sessions' = Append(sessions, Starting(at, e)) /\ epoch' = epoch
    BY <1>4 DEF Admit, Rehash, Opened
  <2>2. \A i \in DOMAIN sessions' :
          sessions'[i] = Starting(at, e) \/ (i \in DOMAIN sessions /\ sessions'[i] = sessions[i])
    BY <2>1 DEF IInv, TypeOK
  <2>3. Starting(at, e).since = epoch
    BY DEF Starting
  <2> QED
    BY <2>1, <2>2, <2>3 DEF ChangesEndWhatWasOpen
<1>5. ASSUME NEW r \in Requests, SaveChange(r) PROVE ChangesEndWhatWasOpen'
  <2>1. epoch' = epoch + 1 /\ DOMAIN sessions' = DOMAIN sessions
    BY <1>5 DEF SaveChange
  <2>2. ASSUME NEW i \in DOMAIN sessions
        PROVE  sessions'[i].revoked \/ sessions'[i].since = epoch + 1
    <3>1. \/ sessions'[i] = [sessions[i] EXCEPT !.epoch = epoch + 1, !.since = epoch + 1]
          \/ sessions'[i] = [sessions[i] EXCEPT !.revoked = TRUE]
      BY <1>5 DEF SaveChange, Swept
    <3>2. sessions[i] \in SessionRows
      BY DEF IInv, TypeOK
    <3> QED
      BY <3>1, <3>2 DEF SessionRows
  <2> QED
    BY <2>1, <2>2 DEF ChangesEndWhatWasOpen
<1>6. CASE \E r \in Requests :
             \/ BeginSignIn(r) \/ Refuse(r) \/ BeginRehash(r) \/ BeginHash(r)
             \/ \E wish \in Passwords \cup {Keep} : ReadBody(r, wish)
             \/ DieBeforeSweep(r) \/ DieBeforeSession(r)
  BY <1>1, <1>6 DEF BeginSignIn, Refuse, BeginRehash, BeginHash, ReadBody,
                    DieBeforeSweep, DieBeforeSession
<1>7. CASE EmptyUsers
  <2>1. sessions' \in {sessions, <<>>} /\ epoch' = epoch
    BY <1>7 DEF EmptyUsers
  <2> QED
    BY <2>1 DEF ChangesEndWhatWasOpen
<1>8. CASE Stop \/ Tick \/ UNCHANGED vars
           \/ \E h \in {"loopback", "remote"}, c \in cost..MaxCost : Start(h, c)
  BY <1>1, <1>8 DEF Stop, Tick, vars, Start
<1>9. ASSUME NEW i \in DOMAIN sessions,
             Use(i) \/ \E r \in Requests : BeginChange(r, i)
      PROVE  ChangesEndWhatWasOpen'
  BY <1>2, <1>9 DEF Use, BeginChange
<1> QED
  BY <1>3, <1>4, <1>5, <1>6, <1>7, <1>8, <1>9 DEF Next, SignIn, ChangeCredentials

(* Whatever sign-ins and changes overlap it, a change that is answered was  *)
(* the end of every session then on file but its own: nothing still open is *)
(* older than the last of them, through any kill, start and recovery        *)
(* (change-credentials.ts:128-133).                                         *)
THEOREM ChangesSignOthersOut == Spec => []ChangesEndWhatWasOpen
<1>1. Init => ChangesEndWhatWasOpen
  BY DEF Init, ChangesEndWhatWasOpen
<1>2. IInv /\ ChangesEndWhatWasOpen /\ [Next]_vars => ChangesEndWhatWasOpen'
  BY StepEndsWhatWasOpen
<1> QED
  BY <1>1, <1>2, AlwaysIInv, PTL DEF Spec

-----------------------------------------------------------------------------
(* Startup                                                                 *)
(*                                                                         *)
(* A start does its work in many steps while Credentials has one, so what  *)
(* the invariant has to carry is what an unfinished start already knows:   *)
(* that nobody serves meanwhile, that the history was compared and the     *)
(* account is there once it has migrated, and that the flag allowed the    *)
(* address once it has been checked.                                       *)

Hosts == {"loopback", "remote"}
BootSteps == {"off", "migrating", "migrated", "allowed", "ready"}

HistoryFits ==
  \A v \in DOMAIN release : v <= Len(applied) /\ applied[v] = release[v]

BootKnows ==
  /\ boot \in [step : BootSteps, host : Hosts \cup {"import"}, cost : Nat]
  /\ boot.step # "off" => host = "down" /\ boot.cost \in cost..MaxCost
  /\ boot.step \in {"migrated", "allowed", "ready"} =>
       HistoryFits /\ user # NoRow
  /\ boot.step \in {"allowed", "ready"} =>
       boot.host \in Hosts /\ (boot.host = "remote" => ~user.mustChange)

HistoryKnown ==
  /\ release \in Releases
  /\ applied \in Seq(Texts) /\ Len(applied) <= Rebuild
  /\ Len(applied) < Users => user = NoRow
  /\ host # "down" => HistoryFits

Counted == ran \in [1..Rebuild -> Nat] /\ RecordedIsDone

SInv == BootKnows /\ HistoryKnown /\ Counted

(* An invariant of both levels: Credentials', and what the starts add.      *)
Both == IInv /\ SInv

-----------------------------------------------------------------------------
(* Lemmas about one step *)

(* A server that is down does nothing but let time pass.                    *)
LEMMA ServeFacts ==
  ASSUME IInv, Serve
  PROVE  /\ [Next]_vars
         /\ cost' = cost
         /\ host' \in {host, "down"}
         /\ host = "down" => user' = user
<1>1. ASSUME NEW i \in DOMAIN sessions, Use(i) \/ SignOut(i)
      PROVE  [Next]_vars /\ cost' = cost /\ host' = host /\ user' = user
  BY <1>1 DEF Use, SignOut, Next
<1>2. ASSUME NEW r \in Requests, SignIn(r)
      PROVE  [Next]_vars /\ cost' = cost /\ host' = host
             /\ (host = "down" => user' = user)
  <2>1. [Next]_vars
    BY <1>2 DEF Next
  <2>2. cost' = cost /\ host' = host
    BY <1>2 DEF SignIn, BeginSignIn, Refuse, Admit, BeginRehash, Rehash
  <2>3. host = "down" => user' = user
    BY <1>2 DEF SignIn, BeginSignIn, Refuse, Admit, BeginRehash, Rehash,
                IInv, DownIsIdle, Idle, Waiting, At
  <2> QED  BY <2>1, <2>2, <2>3
<1>3. ASSUME NEW r \in Requests,
             \/ \E i \in DOMAIN sessions : BeginChange(r, i)
             \/ \E wish \in Passwords \cup {Keep} : ReadBody(r, wish)
             \/ BeginHash(r) \/ SaveChange(r)
      PROVE  [Next]_vars /\ cost' = cost /\ host' = host
             /\ (host = "down" => user' = user)
  <2>1. [Next]_vars
    BY <1>3 DEF Next, ChangeCredentials
  <2>2. cost' = cost /\ host' = host
    BY <1>3 DEF BeginChange, ReadBody, BeginHash, SaveChange
  <2>3. host = "down" => user' = user
    <3>1. host # "down" \/ req[r].step = "idle"
      BY DEF IInv, DownIsIdle, Idle, Waiting
    <3>2. SaveChange(r) => req[r].step # "idle"
      BY DEF SaveChange, ReadyToSave, At
    <3>3. SaveChange(r) \/ user' = user
      BY <1>3 DEF BeginChange, ReadBody, BeginHash
    <3> QED  BY <3>1, <3>2, <3>3
  <2> QED  BY <2>1, <2>2, <2>3
<1>4. ASSUME NEW r \in Requests, DieBeforeSweep(r) \/ DieBeforeSession(r)
      PROVE  [Next]_vars /\ cost' = cost /\ host' = "down" /\ host # "down"
  BY <1>4 DEF DieBeforeSweep, DieBeforeSession, Kill, Next
<1>5. ASSUME Stop
      PROVE  [Next]_vars /\ cost' = cost /\ host' = "down" /\ user' = user
  BY <1>5 DEF Stop, Kill, Next
<1>6. ASSUME Tick
      PROVE  [Next]_vars /\ cost' = cost /\ host' = host /\ user' = user
  BY <1>6 DEF Tick, Next
<1> QED  BY <1>1, <1>2, <1>3, <1>4, <1>5, <1>6 DEF Serve

(* Putting the account in is Credentials' start of a server that the flag   *)
(* then keeps from listening.                                               *)
LEMMA SeedingIsAStart ==
  ASSUME IInv, host = "down", user = NoRow, boot.cost \in cost..MaxCost,
         SeedAdmin
  PROVE  [Next]_vars /\ user' # NoRow
<1>1. boot.cost \in 1..MaxCost
  BY CredentialsConstants DEF IInv, TypeOK
<1>2. user' # NoRow
  <2>1. Seeded(boot.cost) \in [pw : Passwords, cost : 1..MaxCost, mustChange : BOOLEAN]
    BY <1>1, CredentialsConstants DEF Seeded
  <2> QED  BY <2>1, CredentialsConstants DEF SeedAdmin
<1>3. Repaired(boot.cost) = Seeded(boot.cost) /\ FlagAtStart(boot.cost) = TRUE
  BY DEF Repaired, FlagAtStart, Seeded
<1>4. Start("remote", boot.cost)
  BY <1>3 DEF SeedAdmin, Start
<1> QED  BY <1>2, <1>4 DEF Next

-----------------------------------------------------------------------------
(* Every step of a start is a step of Credentials, or none *)

LEMMA StepServes ==
  ASSUME IInv, SInv, [StartupNext]_allVars
  PROVE  [Next]_vars
<1> USE DEF SInv
<1>1. ASSUME NEW r \in Releases, Deploy(r) PROVE [Next]_vars
  BY <1>1 DEF Deploy
<1>2. CASE LoseEnv
  BY <1>2 DEF LoseEnv
<1>3. CASE RecoverAccount
  BY <1>3 DEF RecoverAccount, Next
<1>4. ASSUME NEW h \in {"loopback", "remote", "import"}, NEW c \in cost..MaxCost,
             Boot(h, c)
      PROVE  [Next]_vars
  BY <1>4 DEF Boot
<1>5. CASE RefuseHistory
  BY <1>5 DEF RefuseHistory
<1>6. CASE MigrateNext
  <2>1. CASE Len(applied) + 1 = Users
    <3>1. SeedAdmin
      BY <1>6, <2>1 DEF MigrateNext, Apply, Effects
    <3>2. user = NoRow /\ host = "down" /\ boot.cost \in cost..MaxCost
      BY <1>6, <2>1 DEF MigrateNext, AtBoot, BootKnows, HistoryKnown, Users
    <3> QED  BY <3>1, <3>2, SeedingIsAStart
  <2>2. CASE Len(applied) + 1 # Users
    BY <1>6, <2>2 DEF MigrateNext, Apply, Effects
  <2> QED  BY <2>1, <2>2
<1>7. CASE RepairSeeds
  <2>1. host = "down" /\ boot.cost \in cost..MaxCost
    BY <1>7 DEF RepairSeeds, Migrated, AtBoot, BootKnows
  <2>2. CASE IsMissing
    BY <1>7, <2>1, <2>2, SeedingIsAStart DEF RepairSeeds, IsMissing
  <2>3. CASE ~IsMissing
    BY <1>7, <2>3 DEF RepairSeeds
  <2> QED  BY <2>2, <2>3
<1>8. CASE EndImport \/ CheckBindAddress \/ LoadOrCreateSessionSecret \/ Fail
  BY <1>8 DEF EndImport, CheckBindAddress, LoadOrCreateSessionSecret, Fail
<1>9. CASE Listen
  <2>1. /\ boot.host \in {"loopback", "remote"} /\ boot.cost \in cost..MaxCost
        /\ host = "down" /\ user # NoRow
        /\ boot.host = "remote" => ~user.mustChange
    BY <1>9 DEF Listen, AtBoot, BootKnows, Hosts
  <2>2. Start(boot.host, boot.cost)
    BY <1>9, <2>1 DEF Listen, Start, Repaired, FlagAtStart
  <2> QED  BY <2>1, <2>2 DEF Next
<1>10. CASE Serve
  BY <1>10, ServeFacts
<1>11. ASSUME NEW i \in DOMAIN sessions, NEW p \in Payouts,
              RecordPayout(i, p) \/ RecordLeg(i, p)
       PROVE  [Next]_vars
  BY <1>11 DEF RecordPayout, RecordLeg, Write, Next
<1>12. CASE UNCHANGED allVars
  BY <1>12 DEF allVars
<1> QED
  BY <1>1, <1>2, <1>3, <1>4, <1>5, <1>6, <1>7, <1>8, <1>9, <1>10, <1>11, <1>12
  DEF StartupNext, StartOrImport

-----------------------------------------------------------------------------
(* What a start knows, it knows to its end *)

LEMMA InitSInv == StartupInit => SInv
  BY CredentialsConstants, StartupConstants
  DEF StartupInit, Init, SInv, BootKnows, HistoryKnown, Counted, RecordedIsDone,
      Off, Users, Rebuild, BootSteps, Hosts

(* Steps that leave the disk alone.                                         *)
LEMMA DiskKeeps ==
  ASSUME SInv, UNCHANGED disk,
         Len(applied) < Users => user' = NoRow,
         host' # "down" => HistoryFits
  PROVE  HistoryKnown' /\ Counted' /\ (HistoryFits => HistoryFits')
  BY DEF SInv, disk, HistoryKnown, Counted, RecordedIsDone, HistoryFits

LEMMA FitsIsLong ==
  ASSUME SInv, HistoryFits
  PROVE  Len(applied) >= Users
<1>1. release \in Seq(Texts) /\ Len(release) \in Users..Rebuild
  BY StartupConstants DEF SInv, HistoryKnown
<1>2. Users \in DOMAIN release
  BY <1>1 DEF Users, Rebuild
<1> QED  BY <1>1, <1>2 DEF HistoryFits

(* Steps that leave the start under way alone.                              *)
LEMMA BootKeeps ==
  ASSUME SInv, UNCHANGED <<boot, disk>>, cost' = cost, host' \in {host, "down"},
         host = "down" => user' = user
  PROVE  SInv'
<1>1. Len(applied) < Users => user' = NoRow
  <2>1. applied \in Seq(Texts)
    BY DEF SInv, HistoryKnown
  <2>2. CASE host = "down"
    BY <2>2 DEF SInv, HistoryKnown
  <2>3. CASE host # "down"
    BY <2>1, <2>3, FitsIsLong DEF SInv, HistoryKnown, Users
  <2> QED  BY <2>2, <2>3
<1>2. host' # "down" => HistoryFits
  BY DEF SInv, HistoryKnown
<1>3. HistoryKnown' /\ Counted' /\ (HistoryFits => HistoryFits')
  BY <1>1, <1>2, DiskKeeps
<1>4. BootKnows'
  BY <1>3 DEF SInv, BootKnows
<1> QED  BY <1>3, <1>4 DEF SInv

(* Steps of a start that leave the disk alone and do not touch the account. *)
LEMMA StartKeeps ==
  ASSUME SInv, UNCHANGED <<vars, disk>>
  PROVE  HistoryKnown' /\ Counted' /\ (HistoryFits => HistoryFits')
<1>1. Len(applied) < Users => user' = NoRow
  BY DEF SInv, HistoryKnown, vars
<1>2. host' # "down" => HistoryFits
  BY DEF SInv, HistoryKnown, vars
<1> QED  BY <1>1, <1>2, DiskKeeps

LEMMA MigrateKeeps ==
  ASSUME IInv, SInv, MigrateNext
  PROVE  SInv'
<1> DEFINE v == Len(applied) + 1
<1>1. /\ boot.step = "migrating" /\ host = "down" /\ ~History
      /\ v <= Len(release) /\ UNCHANGED <<release, boot>>
      /\ applied \in Seq(Texts) /\ release \in Seq(Texts)
      /\ Len(release) \in Users..Rebuild /\ v \in 1..Rebuild
  BY StartupConstants
  DEF SInv, HistoryKnown, BootKnows, MigrateNext, Apply, AtBoot, Users, Rebuild
<1>2. /\ applied' = Append(applied, release[v])
      /\ ran' = [ran EXCEPT ![v] = @ + 1]
      /\ Effects(v)
  BY DEF MigrateNext, Apply
<1>3. applied' \in Seq(Texts) /\ Len(applied') = v
  BY <1>1, <1>2
<1>4. host' = host /\ (v # Users => UNCHANGED vars) /\ cost' \in {cost, boot.cost}
  BY <1>2 DEF Effects, SeedAdmin, vars
<1>5. Len(applied') < Users => user' = NoRow
  BY <1>1, <1>3, <1>4 DEF SInv, HistoryKnown, vars, Users
<1>6. HistoryKnown'
  BY <1>1, <1>3, <1>4, <1>5 DEF SInv, HistoryKnown, Rebuild
<1>7. Counted'
  <2>1. ran' \in [1..Rebuild -> Nat]
    BY <1>1, <1>2 DEF SInv, Counted
  <2>2. ASSUME NEW w \in 1..Rebuild
        PROVE  ran'[w] = IF w <= Len(applied') THEN 1 ELSE 0
    <3>1. ran[w] = IF w <= Len(applied) THEN 1 ELSE 0
      BY DEF SInv, Counted, RecordedIsDone
    <3>2. ran'[w] = IF w = v THEN ran[w] + 1 ELSE ran[w]
      BY <1>1, <1>2 DEF SInv, Counted
    <3>3. Len(applied) \in Nat
      BY <1>1
    <3> QED  BY <1>3, <3>1, <3>2, <3>3 DEF Rebuild
  <2> QED  BY <2>1, <2>2 DEF Counted, RecordedIsDone
<1>8. BootKnows'
  <2>1. cost' \in Nat /\ boot.cost \in cost'..MaxCost
    BY <1>1, <1>4, CredentialsConstants DEF SInv, BootKnows, IInv, TypeOK
  <2> QED  BY <1>1, <1>4, <2>1 DEF SInv, BootKnows
<1> QED  BY <1>6, <1>7, <1>8 DEF SInv

(* Past the last migration, no file differs from what was run.              *)
LEMMA MigratedFits ==
  ASSUME SInv, Migrated
  PROVE  HistoryFits
<1>1. release \in Seq(Texts) /\ applied \in Seq(Texts)
  BY StartupConstants DEF SInv, HistoryKnown
<1> QED  BY <1>1 DEF Migrated, History, Edited, HistoryFits

LEMMA RepairKeeps ==
  ASSUME IInv, SInv, RepairSeeds
  PROVE  SInv'
<1>1. /\ boot.step = "migrating" /\ host = "down" /\ HistoryFits
      /\ boot.cost \in cost..MaxCost /\ UNCHANGED disk
      /\ boot' = [boot EXCEPT !.step = "migrated"]
  BY MigratedFits DEF RepairSeeds, Migrated, SInv, BootKnows, AtBoot, Goes
<1>2. host' = host /\ cost' \in {cost, boot.cost} /\ user' # NoRow
  <2>1. CASE IsMissing
    BY <1>1, <2>1, SeedingIsAStart DEF RepairSeeds, IsMissing, SeedAdmin
  <2>2. CASE ~IsMissing
    BY <2>2 DEF RepairSeeds, IsMissing, vars
  <2> QED  BY <2>1, <2>2
<1>3. Len(applied) >= Users /\ applied \in Seq(Texts)
  BY <1>1, FitsIsLong DEF SInv, HistoryKnown
<1>4. HistoryKnown' /\ Counted' /\ HistoryFits'
  <2>1. Len(applied) < Users => user' = NoRow
    BY <1>3 DEF Users
  <2> QED  BY <1>1, <1>2, <2>1, DiskKeeps
<1>5. BootKnows'
  <2>1. cost' \in Nat /\ boot.cost \in cost'..MaxCost
    BY <1>1, <1>2, CredentialsConstants DEF SInv, BootKnows, IInv, TypeOK
  <2> QED  BY <1>1, <1>2, <1>4, <2>1 DEF SInv, BootKnows, BootSteps
<1> QED  BY <1>4, <1>5 DEF SInv

LEMMA StepSInv ==
  ASSUME IInv, SInv, [StartupNext]_allVars
  PROVE  SInv'
<1>1. ASSUME NEW r \in Releases, Deploy(r) PROVE SInv'
  <2>1. host = "down" /\ boot.step = "off"
    BY <1>1 DEF Deploy, AtBoot
  <2>2. HistoryKnown' /\ Counted'
    BY <1>1, <2>1
    DEF Deploy, SInv, HistoryKnown, Counted, RecordedIsDone, vars
  <2>3. BootKnows'
    BY <1>1, <2>1 DEF Deploy, SInv, BootKnows, vars
  <2> QED  BY <2>2, <2>3 DEF SInv
<1>2. CASE LoseEnv
  BY <1>2, BootKeeps DEF LoseEnv, vars
<1>3. CASE RecoverAccount
  <2>1. /\ user' = NoRow /\ host' = "down" /\ boot.step = "off"
        /\ UNCHANGED <<boot, disk>>
    BY <1>3 DEF RecoverAccount, EmptyUsers, AtBoot
  <2>2. HistoryKnown' /\ Counted'
    BY <2>1, DiskKeeps
  <2>3. BootKnows'
    BY <1>3, <2>1 DEF SInv, BootKnows, RecoverAccount, EmptyUsers
  <2> QED  BY <2>2, <2>3 DEF SInv
<1>4. ASSUME NEW h \in {"loopback", "remote", "import"}, NEW c \in cost..MaxCost,
             Boot(h, c)
      PROVE  SInv'
  <2>1. HistoryKnown' /\ Counted'
    BY <1>4, StartKeeps DEF Boot
  <2>2. c \in Nat
    BY CredentialsConstants DEF IInv, TypeOK
  <2>3. BootKnows'
    BY <1>4, <2>2 DEF Boot, SInv, BootKnows, BootSteps, Hosts, vars
  <2> QED  BY <2>1, <2>3 DEF SInv
<1>5. ASSUME boot' = Off, UNCHANGED <<vars, disk>>
      PROVE  SInv'
  <2>1. HistoryKnown' /\ Counted'
    BY <1>5, StartKeeps
  <2>2. BootKnows'
    BY <1>5 DEF BootKnows, Off, BootSteps, Hosts
  <2> QED  BY <2>1, <2>2 DEF SInv
<1>6. CASE RefuseHistory \/ EndImport \/ Fail
  BY <1>5, <1>6 DEF RefuseHistory, EndImport, Fail
<1>7. CASE MigrateNext
  BY <1>7, MigrateKeeps
<1>8. CASE RepairSeeds
  BY <1>8, RepairKeeps
<1>9. CASE CheckBindAddress
  <2>1. CASE ~SafeBindAddress
    BY <1>5, <1>9, <2>1 DEF CheckBindAddress
  <2>2. CASE SafeBindAddress
    <3>1. HistoryKnown' /\ Counted' /\ (HistoryFits => HistoryFits')
      BY <1>9, StartKeeps DEF CheckBindAddress
    <3>2. BootKnows'
      BY <1>9, <2>2, <3>1
      DEF CheckBindAddress, SafeBindAddress, Goes, AtBoot, SInv, BootKnows,
          BootSteps, Hosts, vars
    <3> QED  BY <3>1, <3>2 DEF SInv
  <2> QED  BY <2>1, <2>2
<1>10. CASE LoadOrCreateSessionSecret
  <2>1. HistoryKnown' /\ Counted' /\ (HistoryFits => HistoryFits')
    BY <1>10, StartKeeps DEF LoadOrCreateSessionSecret
  <2>2. boot.step = "allowed" /\ boot' = [boot EXCEPT !.step = "ready"]
        /\ UNCHANGED vars
    BY <1>10 DEF LoadOrCreateSessionSecret, AtBoot, Goes
  <2>3. BootKnows'
    BY <2>1, <2>2 DEF SInv, BootKnows, BootSteps, vars
  <2> QED  BY <2>1, <2>3 DEF SInv
<1>11. CASE Listen
  <2>1. HistoryFits /\ Len(applied) >= Users /\ applied \in Seq(Texts)
    BY <1>11, FitsIsLong DEF Listen, AtBoot, SInv, BootKnows, HistoryKnown
  <2>2. Len(applied) < Users => user' = NoRow
    BY <2>1 DEF Users
  <2>3. HistoryKnown' /\ Counted'
    BY <1>11, <2>1, <2>2, DiskKeeps DEF Listen
  <2>4. BootKnows'
    BY <1>11 DEF Listen, BootKnows, Off, BootSteps, Hosts
  <2> QED  BY <2>3, <2>4 DEF SInv
<1>12. CASE Serve
  <2>1. cost' = cost /\ host' \in {host, "down"} /\ (host = "down" => user' = user)
    BY <1>12, ServeFacts
  <2>2. UNCHANGED <<boot, disk>>
    BY <1>12 DEF Serve
  <2> QED  BY <2>1, <2>2, BootKeeps
<1>13. ASSUME NEW i \in DOMAIN sessions, NEW p \in Payouts,
              RecordPayout(i, p) \/ RecordLeg(i, p)
       PROVE  SInv'
  <2>1. /\ host # "down" /\ UNCHANGED <<boot, user, cost, host>>
        /\ UNCHANGED <<release, applied, ran>>
    BY <1>13 DEF RecordPayout, RecordLeg, Write, Use
  <2>2. HistoryKnown' /\ Counted' /\ (HistoryFits => HistoryFits')
    BY <2>1 DEF SInv, HistoryKnown, Counted, RecordedIsDone, HistoryFits
  <2>3. BootKnows'
    BY <2>1, <2>2 DEF SInv, BootKnows
  <2> QED  BY <2>2, <2>3 DEF SInv
<1>14. CASE UNCHANGED allVars
  BY <1>14, BootKeeps DEF allVars, vars
<1> QED
  BY <1>1, <1>2, <1>3, <1>4, <1>6, <1>7, <1>8, <1>9, <1>10, <1>11, <1>12, <1>13,
     <1>14
  DEF StartupNext, StartOrImport

-----------------------------------------------------------------------------
(* The secret that signed the cookies *)

Named == env # <<>> /\ Head(env) # 0

(* Where .env did not begin as a copy of .env.example it holds one line or  *)
(* none, and a cookie is of that line, or of a file that is lost.  A server *)
(* has the last line from before it listens.                                *)
KeysHold ==
  /\ minted \in Nat /\ env \in Seq(Nat)
  /\ signed \in Seq(Nat) /\ Len(signed) = Len(sessions)
  /\ Named => Len(env) = 1
  /\ env = <<>> => \A i \in DOMAIN signed : signed[i] = 0
  /\ Named => \A i \in DOMAIN signed : signed[i] \in {0, Head(env)}
  /\ host # "down" \/ boot.step = "ready" => env # <<>> /\ secret = env[Len(env)]

LEMMA BlankNamesNothing ==
  ASSUME NEW e \in Blank PROVE e \in Seq(Nat) /\ (e # <<>> => Head(e) = 0)
<1>1. CASE e = <<>>  BY <1>1
<1>2. CASE e = <<0>>  BY <1>2
<1> QED  BY <1>1, <1>2 DEF Blank

LEMMA InitKeysHold == StartupInit => KeysHold
<1> SUFFICES ASSUME StartupInit PROVE KeysHold
  OBVIOUS
<1>1. /\ host = "down" /\ boot.step = "off" /\ minted = 0
      /\ signed = <<>> /\ sessions = <<>> /\ env \in Blank
  BY DEF StartupInit, Init, Off
<1>2. env \in Seq(Nat) /\ ~Named
  BY <1>1, BlankNamesNothing DEF Named
<1>3. signed \in Seq(Nat) /\ Len(signed) = Len(sessions) /\ minted \in Nat
  BY <1>1
<1>4. \A i \in DOMAIN signed : signed[i] = 0
  BY <1>1
<1> QED  BY <1>1, <1>2, <1>3, <1>4 DEF KeysHold

(* Steps that leave the keys and the sessions' number alone, and after      *)
(* which nobody has come to need the secret.                                *)
LEMMA KeysKeep ==
  ASSUME KeysHold, UNCHANGED keys, Len(sessions') = Len(sessions),
         host' # "down" \/ boot'.step = "ready" => host # "down" \/ boot.step = "ready"
  PROVE  KeysHold'
  BY DEF KeysHold, Named, keys

(* A session is opened by a server that listens, and one at a time.         *)
LEMMA ServeSessions ==
  ASSUME IInv, Serve
  PROVE  /\ sessions' \in Seq(SessionRows)
         /\ \/ Len(sessions') = Len(sessions)
            \/ Len(sessions') = Len(sessions) + 1 /\ host # "down"
<1>1. IInv' /\ sessions \in Seq(SessionRows)
  <2>1. [Next]_vars
    BY ServeFacts
  <2> QED  BY <2>1, NextIInv DEF IInv, TypeOK
<1>2. sessions' \in Seq(SessionRows)
  BY <1>1 DEF IInv, TypeOK
<1>3. ASSUME NEW r \in Requests, Admit(r) \/ Rehash(r)
      PROVE  Len(sessions') = Len(sessions) + 1 /\ host # "down"
  <2>1. host # "down"
    BY <1>3 DEF Admit, Rehash, At, IInv, DownIsIdle, Idle, Waiting
  <2>2. Len(sessions') = Len(sessions) + 1
    BY <1>1, <1>3 DEF Admit, Rehash, Opened
  <2> QED  BY <2>1, <2>2
<1>4. ASSUME DOMAIN sessions' = DOMAIN sessions PROVE Len(sessions') = Len(sessions)
  BY <1>1, <1>2, <1>4
<1>5. ASSUME NEW r \in Requests, BeginSignIn(r) \/ Refuse(r) \/ BeginRehash(r)
      PROVE  sessions' = sessions
  BY <1>5 DEF BeginSignIn, Refuse, BeginRehash
<1>6. ASSUME NEW i \in DOMAIN sessions, Use(i) \/ SignOut(i)
      PROVE  DOMAIN sessions' = DOMAIN sessions
  BY <1>6 DEF Use, SignOut
<1>7. ASSUME NEW r \in Requests,
             \/ \E i \in DOMAIN sessions : BeginChange(r, i)
             \/ \E wish \in Passwords \cup {Keep} : ReadBody(r, wish)
             \/ BeginHash(r) \/ SaveChange(r)
             \/ DieBeforeSweep(r) \/ DieBeforeSession(r)
      PROVE  DOMAIN sessions' = DOMAIN sessions
  BY <1>7 DEF BeginChange, ReadBody, BeginHash, SaveChange, DieBeforeSweep, DieBeforeSession
<1>8. CASE Stop \/ Tick
  BY <1>2, <1>8 DEF Stop, Tick
<1> QED
  BY <1>2, <1>3, <1>4, <1>5, <1>6, <1>7, <1>8 DEF Serve, SignIn

LEMMA StepKeysHold ==
  ASSUME IInv, SInv, KeysHold, [StartupNext]_allVars
  PROVE  KeysHold'
<1>1. ASSUME NEW r \in Releases, Deploy(r) PROVE KeysHold'
  BY <1>1, KeysKeep DEF Deploy, vars
<1>2. CASE LoseEnv
  <2>1. /\ host = "down" /\ boot.step = "off" /\ UNCHANGED <<host, boot, minted, sessions>>
        /\ env' \in Blank /\ signed' = [i \in DOMAIN signed |-> 0]
    BY <1>2 DEF LoseEnv, vars, AtBoot
  <2>4. Len(signed) = Len(sessions) /\ minted \in Nat
    BY DEF KeysHold
  <2>2. signed' \in Seq(Nat) /\ Len(signed') = Len(signed) /\ \A i \in DOMAIN signed' : signed'[i] = 0
    BY <2>1 DEF KeysHold
  <2>3. env' \in Seq(Nat) /\ ~Named'
    BY <2>1, BlankNamesNothing DEF Named
  <2>5. ~(host' # "down" \/ boot'.step = "ready") /\ minted' = minted
    BY <2>1
  <2>6. Len(signed') = Len(sessions')
    BY <2>1, <2>2, <2>4
  <2> QED  BY <2>2, <2>3, <2>4, <2>5, <2>6 DEF KeysHold
<1>3. CASE RecoverAccount
  <2>1. /\ host' = "down" /\ boot'.step = "off" /\ UNCHANGED <<env, minted>>
        /\ signed' = SubSeq(signed, 1, Len(sessions'))
        /\ sessions' \in {sessions, <<>>}
    BY <1>3 DEF RecoverAccount, EmptyUsers, AtBoot
  <2>2. /\ Len(sessions') \in 0..Len(signed) /\ signed \in Seq(Nat)
    BY <2>1 DEF KeysHold
  <2>3. /\ signed' \in Seq(Nat) /\ Len(signed') = Len(sessions')
        /\ \A i \in DOMAIN signed' : i \in DOMAIN signed /\ signed'[i] = signed[i]
    BY <2>1, <2>2
  <2> QED  BY <2>1, <2>3 DEF KeysHold, Named
<1>4. ASSUME NEW h \in {"loopback", "remote", "import"}, NEW c \in cost..MaxCost,
             Boot(h, c)
      PROVE  KeysHold'
  BY <1>4, KeysKeep DEF Boot, vars
<1>5. CASE RefuseHistory \/ EndImport \/ CheckBindAddress \/ Fail
  BY <1>5, KeysKeep
  DEF RefuseHistory, EndImport, CheckBindAddress, Fail, Off, Goes, AtBoot, vars, SInv, BootKnows
<1>6. CASE MigrateNext
  BY <1>6, KeysKeep DEF MigrateNext, Apply, Effects, SeedAdmin, vars
<1>7. CASE RepairSeeds
  BY <1>7, KeysKeep DEF RepairSeeds, Migrated, Goes, AtBoot, SeedAdmin, vars, SInv, BootKnows
<1>8. CASE LoadOrCreateSessionSecret
  <2>1. UNCHANGED <<signed, sessions, host>>
    BY <1>8 DEF LoadOrCreateSessionSecret, vars
  <2>2. CASE Named
    <3>1. Head(env) # 0 /\ OnFile = Head(env) /\ Len(env) = 1 /\ Head(env) = env[Len(env)]
      BY <2>2 DEF KeysHold, Named, OnFile
    <3>2. secret' = env[Len(env)] /\ UNCHANGED <<env, minted>>
      BY <1>8, <3>1 DEF LoadOrCreateSessionSecret
    <3> QED  BY <2>1, <2>2, <3>2 DEF KeysHold, Named
  <2>3. CASE ~Named
    <3>1. minted' = minted + 1 /\ secret' = minted' /\ env' = Append(env, minted')
      BY <1>8, <2>3 DEF LoadOrCreateSessionSecret, OnFile, Named
    <3>2. /\ minted' \in Nat /\ env' \in Seq(Nat) /\ env' # <<>>
          /\ Len(env') = Len(env) + 1 /\ secret' = env'[Len(env')]
      BY <3>1 DEF KeysHold
    <3>3. Named' => env = <<>>
      BY <2>3, <3>1 DEF Named, KeysHold
    <3> QED  BY <2>1, <3>2, <3>3 DEF KeysHold
  <2> QED  BY <2>2, <2>3
<1>9. CASE Listen
  BY <1>9, KeysKeep DEF Listen, Off, AtBoot
<1>10. CASE Serve
  <2>1. /\ signed' = IF Len(sessions') > Len(sessions) THEN Append(signed, secret) ELSE signed
        /\ UNCHANGED <<boot, env, secret, minted>>
    BY <1>10 DEF Serve
  <2>2. host' \in {host, "down"}
    BY <1>10, ServeFacts
  <2>3. CASE Len(sessions') = Len(sessions)
    <3>1. signed' = signed
      BY <2>1, <2>3 DEF KeysHold
    <3> QED  BY <2>1, <2>2, <2>3, <3>1 DEF KeysHold, Named
  <2>4. CASE Len(sessions') = Len(sessions) + 1 /\ host # "down"
    <3>1. /\ signed' = Append(signed, secret)
          /\ env # <<>> /\ secret = env[Len(env)] /\ secret \in Nat
          /\ Named => secret = Head(env)
      <4>1. signed' = Append(signed, secret) /\ env # <<>> /\ secret = env[Len(env)]
        BY <2>1, <2>4 DEF KeysHold
      <4>2. env \in Seq(Nat) /\ (Named => Len(env) = 1)
        BY DEF KeysHold
      <4>3. Len(env) \in 1..Len(env) /\ Head(env) = env[1]
        BY <4>1, <4>2
      <4> QED  BY <4>1, <4>2, <4>3
    <3>2. /\ signed' \in Seq(Nat) /\ Len(signed') = Len(signed) + 1
          /\ \A i \in DOMAIN signed' :
               signed'[i] = secret \/ (i \in DOMAIN signed /\ signed'[i] = signed[i])
      <4>1. signed \in Seq(Nat)
        BY DEF KeysHold
      <4> QED  BY <3>1, <4>1
    <3> QED  BY <2>1, <2>2, <2>4, <3>1, <3>2 DEF KeysHold, Named
  <2> QED  BY <1>10, <2>3, <2>4, ServeSessions
<1>11. ASSUME NEW i \in DOMAIN sessions, NEW p \in Payouts,
              RecordPayout(i, p) \/ RecordLeg(i, p)
       PROVE  KeysHold'
  <2>1. UNCHANGED <<boot, keys, host>> /\ sessions' = [sessions EXCEPT ![i] = Authenticated(@)]
    BY <1>11 DEF RecordPayout, RecordLeg, Write, Use
  <2>2. Len(sessions') = Len(sessions)
    BY <2>1 DEF IInv, TypeOK
  <2> QED  BY <2>1, <2>2, KeysKeep
<1>12. CASE UNCHANGED allVars
  BY <1>12, KeysKeep DEF allVars, vars
<1> QED
  BY <1>1, <1>2, <1>3, <1>4, <1>5, <1>6, <1>7, <1>8, <1>9, <1>10, <1>11, <1>12
  DEF StartupNext, StartOrImport

-----------------------------------------------------------------------------
(* Theorems *)

LEMMA AlwaysBoth == StartupSpec => []Both
<1>1. StartupInit => Both
  BY InitIInv, InitSInv DEF Both, StartupInit
<1>2. Both /\ [StartupNext]_allVars => Both'
  <2> SUFFICES ASSUME Both, [StartupNext]_allVars PROVE Both'
    OBVIOUS
  <2>1. [Next]_vars
    BY StepServes DEF Both
  <2>2. IInv'
    BY <2>1, NextIInv DEF Both
  <2>3. SInv'
    BY StepSInv DEF Both
  <2> QED  BY <2>2, <2>3 DEF Both
<1> QED  BY <1>1, <1>2, PTL DEF StartupSpec

(* The server's starts, taken step by step and killed anywhere, implement   *)
(* the one step that Credentials takes for a start.                         *)
THEOREM StartupImplementsCredentials == StartupSpec => ServesAsCredentials
<1>1. StartupInit => Init
  BY DEF StartupInit
<1>2. Both /\ [StartupNext]_allVars => [Next]_vars
  <2> SUFFICES ASSUME Both, [StartupNext]_allVars PROVE [Next]_vars
    OBVIOUS
  <2> QED  BY StepServes DEF Both
<1> QED  BY <1>1, <1>2, AlwaysBoth, PTL DEF StartupSpec, ServesAsCredentials, Spec

(* So no sequence of starts, kills, releases and manual recoveries puts the *)
(* shipped password in front of anybody but this machine.                   *)
THEOREM NeverServedAbroad == StartupSpec => []RemoteMeansChanged
  BY StartupImplementsCredentials, RemoteServesChanged, PTL DEF ServesAsCredentials

(* No server works on a database whose history is not that of its files.    *)
THEOREM HistoryIsItsOwn == StartupSpec => []WorksOnItsOwnHistory
<1>1. Both => WorksOnItsOwnHistory
  BY DEF Both, SInv, HistoryKnown, HistoryFits, WorksOnItsOwnHistory
<1> QED  BY <1>1, AlwaysBoth, PTL

(* A version is recorded exactly when its statements have run, once.        *)
THEOREM AppliedOnce == StartupSpec => []RecordedIsDone
<1>1. Both => RecordedIsDone
  BY DEF Both, SInv, Counted
<1> QED  BY <1>1, AlwaysBoth, PTL

(* The table of migrations is true of the database a server works on.       *)
THEOREM MigrationsStayTrue == StartupSpec => []MigrationsAreTrue
  BY HistoryIsItsOwn, AppliedOnce, PTL DEF MigrationsAreTrue

(* However often it is started, of whatever release, a server signs with    *)
(* the last line of .env; and while the file stays where it is nobody is    *)
(* signed out by a restart, if its first line names a secret.  (A copy of   *)
(* .env.example does not: then every start signs with a line of its own.)   *)
THEOREM TheFirstLineDecides == StartupSpec => []FirstLineDecides
<1>1. StartupInit => KeysHold
  BY InitKeysHold
<1>2. Both /\ KeysHold /\ [StartupNext]_allVars => KeysHold'
  BY StepKeysHold DEF Both
<1>3. KeysHold => FirstLineDecides
  BY DEF KeysHold, Named, FirstLineDecides
<1> QED  BY <1>1, <1>2, <1>3, AlwaysBoth, PTL DEF StartupSpec
=============================================================================

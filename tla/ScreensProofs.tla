--------------------------- MODULE ScreensProofs ---------------------------
(***************************************************************************)
(* The tab of Screens, for any payouts, legs, addresses and bounds: what it *)
(* shows is what is the case, and an answer touches only its own dialog.   *)
(*                                                                         *)
(* With a request in the air the tab may be behind the server.  The        *)
(* invariant says what it is behind of: a session the tab relies on is     *)
(* live unless an answer that will tell it otherwise is still to land.     *)
(***************************************************************************)
EXTENDS Screens, SequenceTheorems, FiniteSetTheorems, TLAPS

-----------------------------------------------------------------------------
(* The inductive invariant *)

(* What can be in the air: who answers what, and which answers carry a      *)
(* session or vouch for one.                                                *)
Sensible(f) ==
  /\ f.do = "login" => (f.on \in Paths \cup {Nothing} /\ f.says # "unauthenticated")
  /\ f.do \in OfPage => f.on \in Targets
  /\ f.do = "me" => f.says \in {"unanswered", "caged", "free", "unauthenticated", "failed"}
  /\ (f.do \in {"me", "change"} /\ f.says \in {"caged", "free"}) => f.cookie # 0
  /\ (f.do = "login" /\ f.says \in {"caged", "free"}) => f.gives \in 1..issued
  /\ f.gives # 0 => (f.do = "login" /\ f.says \in {"caged", "free", "failed"})

FlightsMakeSense == \A f \in flights : Sensible(f)

(* Signed in as far as anybody could draw it; and out, drawn or not.        *)
Believed == SignedIn /\ ~adrift
Gone == me = "nobody" \/ adrift

NobodyHasNoCookie == Gone => cookie = 0
SomebodyHasACookie == (Believed /\ lost \notin {"refused", "crossed"}) => cookie # 0

(* An answer that will have the tab believe in the session it now has, and  *)
(* one that will have it give that session up or know it was crossed.       *)
Vouches(f) == f.do \in {"me", "change"} /\ f.says \in {"caged", "free"} /\ f.cookie = cookie
WillTell(f) ==
  \/ f.do = "logout" /\ f.says = "done"
  \/ f.do = "change" /\ f.says = "free" /\ f.cookie # cookie

Relied == Believed \/ \E f \in flights : Vouches(f)
LiveOrSoonTold ==
  (lost = "no" /\ Relied) => (cookie \in live \/ \E f \in flights : WillTell(f))

(* Whoever asked from the payout page is heard only there, and asks each    *)
(* thing once at a time.                                                    *)
HeardOnThePage ==
  \A f \in flights :
    /\ f.do = "read" => PayoutPage
    /\ (f.heard /\ f.do \in OfPage) => (PayoutPage /\ (f.do = "deletePayout" => page.asking))
OneAtATime ==
  \A f, g \in flights :
    (f.heard /\ g.heard /\ f.do = g.do /\ f.do \in OfPage) => f = g

Honest == FlightsMakeSense /\ NobodyHasNoCookie /\ SomebodyHasACookie /\ LiveOrSoonTold
Busy == BusyNamesWhatGoes /\ HeardOnThePage /\ OneAtATime
IInv == TypeOK /\ Honest /\ Busy

-----------------------------------------------------------------------------
(* Addresses, histories and redirects *)

LEMMA PathsAreApart ==
  /\ {SignInPath, ChangePath, ListPath, AccountPath} \subseteq Paths
  /\ \A p \in Payouts : PayoutPath(p) \in Paths /\ RecordPath(p) \in Paths
  /\ \A p : PayoutPath(p) \notin {SignInPath, ChangePath, ListPath, AccountPath, <<"home">>}
  BY DEF Paths, SignInPath, ChangePath, ListPath, AccountPath, PayoutPath, RecordPath

LEMMA PlaceIsTyped ==
  ASSUME TypeOK
  PROVE  /\ stack[at] \in Entries /\ Path \in Paths /\ stack[at].from \in Paths \cup {Nothing}
         /\ at \in 1..Len(stack) /\ Len(stack) \in Nat
         /\ PayoutPage => (OnPayout \in Payouts /\ Path = PayoutPath(OnPayout))
<1>1. stack[at] \in Entries /\ at \in 1..Len(stack) /\ Len(stack) \in Nat
  BY DEF TypeOK
<1>2. PayoutPage => (OnPayout \in Payouts /\ Path = PayoutPath(OnPayout))
  BY DEF PayoutPage, OnPayout
<1>3. QED
  BY <1>1, <1>2 DEF Entries, Path

LEMMA ReplacedIsTyped ==
  ASSUME TypeOK, NEW e \in Entries
  PROVE  /\ Replaced(e) \in Seq(Entries) /\ Len(Replaced(e)) = Len(stack)
         /\ Replaced(e)[at] = e
  BY PlaceIsTyped DEF TypeOK, Replaced

LEMMA PushedIsTyped ==
  ASSUME TypeOK, NEW path \in Paths
  PROVE  /\ Pushed(path) \in Seq(Entries) /\ Len(Pushed(path)) = at + 1
         /\ DOMAIN Pushed(path) = 1..(at + 1)
<1>1. Entry(path) \in Entries
  BY DEF Entry, Entries
<1>2. stack \in Seq(Entries) /\ at \in 1..Len(stack) /\ at \in Nat
  BY PlaceIsTyped DEF TypeOK
<1>3. SubSeq(stack, 1, at) \in Seq(Entries) /\ Len(SubSeq(stack, 1, at)) = at
  BY <1>2
<1>4. QED
  BY <1>1, <1>2, <1>3 DEF Pushed

LEMMA RedirectsAreTyped ==
  ASSUME TypeOK
  PROVE  Redirects \subseteq Entries /\ Cardinality(Redirects) <= 1
<1>1. {ToSignIn, Entry(ChangePath), Entry(ListPath), Entry(AccountPath)} \subseteq Entries
  BY PlaceIsTyped, PathsAreApart DEF ToSignIn, Entry, Entries
<1> DEFINE One(S) == S = {} \/ \E e \in Entries : S = {e}
<1>2. SessionRequired = {} \/ (~SignedIn /\ SessionRequired = {ToSignIn})
  BY DEF SessionRequired
<1>3. One(AuthRequired) /\ One(SignInRedirects)
  BY <1>1 DEF AuthRequired, SignInRedirects
<1>4. One(ChangeRedirects)
  BY <1>1, <1>2 DEF ChangeRedirects
<1> DEFINE home == IF me = "free" THEN {Entry(ListPath)} ELSE AuthRequired
<1>5. One(home)
  BY <1>1, <1>3
<1>6. Redirects \in {SignInRedirects, ChangeRedirects, home, AuthRequired}
  <2> DEFINE a == Path = SignInPath
             b == Path = ChangePath
             c == Path = <<"home">>
  <2>1. ~(a /\ b) /\ ~(a /\ c) /\ ~(b /\ c)
    BY DEF SignInPath, ChangePath
  <2>2. Redirects = CASE a -> SignInRedirects [] b -> ChangeRedirects [] c -> home
                      [] OTHER -> AuthRequired
    BY DEF Redirects
  <2> HIDE DEF a, b, c, home
  <2>3. QED
    BY <2>1, <2>2
<1> HIDE DEF home, One
<1>7. One(Redirects)
  BY <1>3, <1>4, <1>5, <1>6
<1> USE DEF One
<1>8. CASE Redirects = {}
  BY <1>8, FS_EmptySet
<1>9. ASSUME NEW e \in Entries, Redirects = {e}
      PROVE  Redirects \subseteq Entries /\ Cardinality(Redirects) <= 1
  <2>1. Cardinality({e}) = 1
    BY FS_Singleton
  <2>2. QED
    BY <1>9, <2>1
<1>10. QED
  BY <1>7, <1>8, <1>9

-----------------------------------------------------------------------------
(* Requests *)

LEMMA RequestIsTyped ==
  ASSUME TypeOK, NEW do \in Kinds, NEW on \in Targets \cup Paths \cup {Nothing}
  PROVE  Request(do, on) \in Flights
  BY SessionConstants DEF TypeOK, Request, Flights

LEMMA AnswerIsTyped ==
  ASSUME NEW f \in Flights,
         NEW answer \in {"unanswered", "caged", "free", "done", "unauthenticated",
                         "wrongPassword", "mustChange", "failed"}
  PROVE  /\ [f EXCEPT !.says = answer] \in Flights
         /\ [f EXCEPT !.heard = FALSE] \in Flights
  BY DEF Flights

(* What is still in the air after the page may have gone: the same requests *)
(* but for a page's reads, and a page's writes are heard only on the page.  *)
LEMMA HeldKeeps ==
  ASSUME NEW fs \in SUBSET Flights
  PROVE  /\ Held(fs) \subseteq Flights
         /\ \A g \in Held(fs) : \E f \in fs :
              /\ g.do = f.do /\ g.on = f.on /\ g.cookie = f.cookie
              /\ g.says = f.says /\ g.gives = f.gives
         /\ \A g \in Held(fs) :
              (g.do = "read" \/ (g.heard /\ g.do \in OfPage)) => (PayoutPage' /\ g \in fs)
         /\ \A f \in fs : f.do \in AuthWrites \cup {"me"} => f \in Held(fs)
<1>1. CASE PayoutPage'
  BY <1>1 DEF Held
<1>2. CASE ~PayoutPage'
  <2> DEFINE Hush(f) == IF f.do \in OfPage THEN [f EXCEPT !.heard = FALSE] ELSE f
  <2>1. Held(fs) = {Hush(f) : f \in {g \in fs : g.do # "read"}}
    BY <1>2 DEF Held
  <2>2. \A f \in fs :
          /\ Hush(f) \in Flights /\ Hush(f).do = f.do /\ Hush(f).on = f.on
          /\ Hush(f).cookie = f.cookie /\ Hush(f).says = f.says /\ Hush(f).gives = f.gives
          /\ f.do \in OfPage => ~Hush(f).heard
          /\ f.do \notin OfPage => Hush(f) = f
    BY DEF Flights
  <2> HIDE DEF Hush
  <2>3. \A f \in fs : f.do \in AuthWrites \cup {"me"} => (f.do # "read" /\ f.do \notin OfPage)
    BY DEF AuthWrites, OfPage
  <2>4. \A f \in fs : f.do \in AuthWrites \cup {"me"} => f \in Held(fs)
    BY <2>1, <2>2, <2>3
  <2>5. QED
    BY <2>1, <2>2, <2>4
<1>3. QED
  BY <1>1, <1>2

(* A page that stays keeps its dialogs; any other starts anew.              *)
KeepsDialogs ==
  /\ page' \in Pages /\ (~PayoutPage' => page' = Fresh)
  /\ \/ page' = Fresh /\ ~(PayoutPage /\ PayoutPage')
     \/ /\ PayoutPage /\ PayoutPage'
        /\ page'.deleting = page.deleting /\ page'.asking = page.asking
        /\ page'.removing = page.removing /\ page'.attaching = page.attaching

LEMMA KeptIsTyped ==
  ASSUME TypeOK, Kept
  PROVE  KeepsDialogs
<1>1. page \in Pages /\ Fresh \in Pages
  BY DEF TypeOK, Fresh, Pages, Trails
<1>2. \A t \in Trails : /\ [page EXCEPT !.trail = t] \in Pages
                        /\ [page EXCEPT !.trail = t].deleting = page.deleting
                        /\ [page EXCEPT !.trail = t].asking = page.asking
                        /\ [page EXCEPT !.trail = t].removing = page.removing
                        /\ [page EXCEPT !.trail = t].attaching = page.attaching
  BY <1>1 DEF Pages
<1>3. QED
  BY <1>1, <1>2 DEF KeepsDialogs, Kept, Trails

LEMMA RefusedIsTyped ==
  ASSUME TypeOK, Busy, NEW f \in flights, Refused(f)
  PROVE  KeepsDialogs
<1>1. CASE f.do = "read" /\ PayoutPage'
  <2>1. PayoutPage /\ page \in Pages /\ page' = [page EXCEPT !.trail = "failed"]
    BY <1>1 DEF Busy, HeardOnThePage, Refused, TypeOK
  <2>2. QED
    BY <1>1, <2>1 DEF KeepsDialogs, Pages, Trails
<1>2. CASE ~(f.do = "read" /\ PayoutPage')
  BY <1>2, KeptIsTyped DEF Refused
<1>3. QED
  BY <1>1, <1>2

-----------------------------------------------------------------------------
(* Types *)

LEMMA PageStays ==
  ASSUME UNCHANGED <<me, stack, at>>
  PROVE  /\ Path' = Path /\ Shell' = Shell /\ PayoutPage' = PayoutPage
         /\ OnPayout' = OnPayout /\ SignedIn' = SignedIn
  BY DEF PayoutPage, Shell, Path, OnPayout, SignedIn

LEMMA InitIsTyped == Init => TypeOK
<1> SUFFICES ASSUME Init PROVE TypeOK
  OBVIOUS
<1>1. PICK path \in Typed : stack = <<Entry(path)>>
  BY DEF Init, SessionInit
<1>2. Entry(path) \in Entries
  BY SessionConstants DEF Entry, Entries
<1>3. stack \in Seq(Entries) /\ Len(stack) = 1 /\ at \in DOMAIN stack
  BY <1>1, <1>2 DEF Init, SessionInit
<1>4. /\ live \subseteq 1..issued /\ issued \in 0..MaxSession /\ cookie \in 0..issued
  BY SessionConstants DEF Init, SessionInit
<1>5. flights \subseteq Flights
  <2>1. Request("me", Nothing) \in Flights
    BY <1>4, SessionConstants DEF Request, Flights, Kinds, Reads
  <2>2. QED
    BY <2>1 DEF Init, SessionInit
<1>6. page = Fresh /\ Fresh \in Pages
  BY DEF Init, Fresh, Pages, Trails
<1>7. due = {} /\ Cardinality(due) <= 1
  BY FS_EmptySet DEF Init, SessionInit
<1>8. /\ me = "asking" /\ mustChange \in BOOLEAN /\ calls = {} /\ wasCaged = "unmounted"
      /\ chose = FALSE /\ adrift = FALSE /\ lost = "no"
  BY DEF Init, SessionInit
<1>9. Len(stack) <= MaxHistory
  BY <1>3, SessionConstants
<1> HIDE DEF Init
<1>10. QED
  BY <1>3, <1>4, <1>5, <1>6, <1>7, <1>8, <1>9 DEF TypeOK

LEMMA AsksIsTyped ==
  ASSUME TypeOK, NEW do \in Kinds, NEW on \in Targets \cup Paths \cup {Nothing},
         Asks(do, on), page' \in Pages, PayoutPage \/ page' = page
  PROVE  TypeOK'
<1>1. flights' \subseteq Flights
  BY RequestIsTyped DEF Asks, TypeOK
<1>2. UNCHANGED <<server, auth, place, drawing>>
  BY DEF Asks
<1>3. PayoutPage' = PayoutPage
  BY <1>2, PageStays DEF auth, place
<1>4. QED
  BY <1>1, <1>2, <1>3 DEF TypeOK, server, auth, place, drawing

LEMMA SaysIsTyped ==
  ASSUME flights \subseteq Flights, NEW f \in flights,
         NEW answer \in {"unanswered", "caged", "free", "done", "unauthenticated",
                         "wrongPassword", "mustChange", "failed"},
         Says(f, answer)
  PROVE  flights' \subseteq Flights
  BY AnswerIsTyped DEF Says

LEMMA ServeIsTyped ==
  ASSUME TypeOK, NEW f \in flights, Serve(f), UNCHANGED page
  PROVE  TypeOK'
<1>1. UNCHANGED <<auth, place, drawing>>
  BY DEF Serve
<1>2. PayoutPage' = PayoutPage
  BY <1>1, PageStays DEF auth, place
<1>3. Flag \in {"caged", "free"}
  BY DEF Flag
<1>4. flights \subseteq Flights /\ f \in Flights
  BY DEF TypeOK
<1>5. flights' \subseteq Flights
  <2>1. CASE ServeLogin(f) /\ issued' = issued + 1
    <3>1. issued' \in 0..MaxSession
      BY <2>1, SessionConstants DEF ServeLogin, TypeOK
    <3>2. [f EXCEPT !.says = Flag, !.gives = issued'] \in Flights
      BY <3>1, <1>3, <1>4 DEF Flights
    <3>3. QED
      BY <2>1, <3>2, <1>4, SaysIsTyped DEF ServeLogin
  <2>2. CASE ~(ServeLogin(f) /\ issued' = issued + 1)
    BY <2>2, <1>3, <1>4, SaysIsTyped
    DEF Serve, Refuse, ServeMe, ServeLogin, ServeLogout, ServeChange, ServePage
  <2>3. QED
    BY <2>1, <2>2
<1>6. /\ live' \subseteq 1..issued' /\ issued' \in 0..MaxSession /\ mustChange' \in BOOLEAN
      /\ issued <= issued'
  <2>1. live \subseteq 1..issued /\ issued \in 0..MaxSession /\ mustChange \in BOOLEAN
    BY DEF TypeOK
  <2>2. CASE UNCHANGED issued /\ live' \subseteq live /\ mustChange' \in BOOLEAN
    BY <2>1, <2>2, SessionConstants
  <2>3. CASE /\ issued < MaxSession /\ issued' = issued + 1 /\ live' = live \cup {issued'}
             /\ UNCHANGED mustChange
    BY <2>1, <2>3, SessionConstants
  <2>4. CASE UNCHANGED server
    BY <2>1, <2>2, <2>4 DEF server
  <2>5. CASE ServeLogin(f)
    BY <2>1, <2>2, <2>3, <2>5 DEF ServeLogin
  <2>6. CASE ServeLogout(f)
    BY <2>1, <2>2, <2>6 DEF ServeLogout
  <2>7. CASE ServeChange(f)
    BY <2>1, <2>2, <2>7 DEF ServeChange
  <2>8. QED
    BY <2>4, <2>5, <2>6, <2>7 DEF Serve, Refuse, ServeMe, ServePage
<1>7. QED
  BY <1>1, <1>2, <1>5, <1>6 DEF TypeOK, auth, place, drawing

LEMMA LoseIsTyped ==
  ASSUME TypeOK, NEW f \in flights, Lose(f), UNCHANGED page
  PROVE  TypeOK'
<1>1. UNCHANGED <<server, cookie, me, adrift, place, drawing>>
  BY DEF Lose
<1>2. PayoutPage' = PayoutPage
  BY <1>1, PageStays DEF place
<1>3. flights' \subseteq Flights
  BY SaysIsTyped DEF TypeOK, Lose
<1>4. lost' \in {"no", "ended", "refused", "crossed"}
  BY DEF TypeOK, Lose, Ended
<1>5. QED
  BY <1>1, <1>2, <1>3, <1>4 DEF TypeOK, server, place, drawing

LEMMA ElsewhereIsTyped ==
  ASSUME TypeOK, Elsewhere, UNCHANGED page
  PROVE  TypeOK'
<1>1. UNCHANGED <<issued, cookie, me, adrift, place, drawing, flights>>
  BY DEF Elsewhere
<1>2. PayoutPage' = PayoutPage
  BY <1>1, PageStays DEF place
<1>3. /\ lost' \in {"no", "ended", "refused", "crossed"}
      /\ live' \subseteq live /\ mustChange' \in BOOLEAN
  BY DEF TypeOK, Elsewhere, Ended
<1>4. QED
  BY <1>1, <1>2, <1>3 DEF TypeOK, place, drawing

LEMMA CookieIsTyped ==
  ASSUME TypeOK, FlightsMakeSense, NEW f \in flights
  PROVE  /\ Cookie(f) \in 0..issued
         /\ \/ Cookie(f) = 0
            \/ Cookie(f) = cookie
            \/ f.do = "login" /\ f.says \in {"caged", "free"} /\ Cookie(f) = f.gives
               /\ f.gives \in 1..issued
         /\ (f.do # "login" /\ f.says # "unauthenticated" /\ ~(f.do = "logout" /\ f.says = "done"))
              => Cookie(f) = cookie
         /\ (f.do = "login" /\ f.says \in {"caged", "free"}) => Cookie(f) = f.gives
         /\ (f.do = "login" /\ f.says \notin {"caged", "free"}) => Cookie(f) = cookie
         /\ (f.says = "unauthenticated" \/ (f.do = "logout" /\ f.says = "done")) => Cookie(f) = 0
<1> DEFINE a == f.says = "unauthenticated" \/ (f.do = "logout" /\ f.says = "done")
           b == f.do = "login" /\ f.gives > 0 /\ f.says # "failed"
<1>1. f \in Flights /\ f.gives \in Nat /\ issued \in Nat /\ cookie \in 0..issued
  BY SessionConstants DEF TypeOK, Flights
<1>2. b => (~a /\ f.do = "login" /\ f.says \in {"caged", "free"} /\ f.gives \in 1..issued)
  BY <1>1 DEF FlightsMakeSense, Sensible
<1>3. Cookie(f) = CASE a -> 0 [] b -> f.gives [] OTHER -> cookie
  BY DEF Cookie
<1>4. a <=> (f.says = "unauthenticated" \/ (f.do = "logout" /\ f.says = "done"))
  OBVIOUS
<1>5. (f.do = "login" /\ f.says \in {"caged", "free"}) => b
  BY <1>1 DEF FlightsMakeSense, Sensible
<1>6. f.do = "login" => ~a
  BY DEF FlightsMakeSense, Sensible
<1> HIDE DEF a, b
<1>7. \/ a /\ Cookie(f) = 0
      \/ b /\ ~a /\ Cookie(f) = f.gives
      \/ ~a /\ ~b /\ Cookie(f) = cookie
  BY <1>2, <1>3
<1>8. QED
  BY <1>1, <1>2, <1>4, <1>5, <1>6, <1>7

LEMMA DrawnIsTyped ==
  ASSUME TypeOK, Drawn
  PROVE  wasCaged' \in {"unmounted", "yes", "no"}
  BY DEF TypeOK, Drawn

LEMMA SendsIsTyped ==
  ASSUME NEW fs \in SUBSET Flights, Sends(fs)
  PROVE  flights' \subseteq Flights
  BY HeldKeeps DEF Sends

(* What every landing in the session comes to.                              *)
LEMMA LandAuthIsTyped ==
  ASSUME TypeOK, FlightsMakeSense, Busy, NEW f \in flights, LandAuth(f), Refused(f)
  PROVE  TypeOK'
<1>1. /\ f \in Flights /\ flights \subseteq Flights /\ f.says # "unanswered"
      /\ Landed(f) \subseteq Flights /\ Cleared(Landed(f)) \subseteq Flights
      /\ UNCHANGED server
  BY DEF TypeOK, Landed, Cleared, LandAuth
<1>2. UNCHANGED <<stack, at, due>>
  BY DEF LandAuth, LandMe, LandLogin, LandLogout, LandChange, LandRefused, SignedOutEverywhere,
         SignedOutUnseen, place
<1>3. cookie' \in 0..issued
  BY CookieIsTyped
  DEF LandAuth, LandMe, LandLogin, LandLogout, LandChange, LandRefused, SignedOutEverywhere,
      SignedOutUnseen, TypeOK
<1>4. me' \in {"asking", "nobody", "broken", "caged", "free"}
  <2>1. CASE LandMe(f)
    <3>1. f.says \in {"caged", "free", "unauthenticated", "failed"}
      BY <1>1, <2>1 DEF LandMe, FlightsMakeSense, Sensible
    <3>2. QED
      BY <2>1, <3>1 DEF LandMe, TypeOK
  <2>2. CASE ~LandMe(f)
    BY <2>2 DEF LandAuth, LandLogin, LandLogout, LandChange, LandRefused, SignedOutEverywhere,
                SignedOutUnseen, Redrawn, Belief, TypeOK
  <2>3. QED
    BY <2>1, <2>2
<1>5. calls' \subseteq Paths
  <2>1. CASE LandLogin(f)
    <3>1. f.on \in Paths \cup {Nothing}
      BY <2>1 DEF LandLogin, FlightsMakeSense, Sensible
    <3>2. QED
      BY <2>1, <3>1, PathsAreApart DEF LandLogin, TypeOK
  <2>2. CASE ~LandLogin(f)
    BY <2>2, PathsAreApart
    DEF LandAuth, LandMe, LandLogout, LandChange, LandRefused, SignedOutEverywhere,
        SignedOutUnseen, place, TypeOK
  <2>3. QED
    BY <2>1, <2>2
<1>6. wasCaged' \in {"unmounted", "yes", "no"}
  BY DrawnIsTyped
  DEF LandAuth, LandMe, LandLogin, LandLogout, LandChange, LandRefused, SignedOutEverywhere,
      SignedOutUnseen, drawing, TypeOK
<1>7. chose' \in BOOLEAN /\ adrift' \in BOOLEAN
  BY DEF LandAuth, LandMe, LandLogin, LandLogout, LandChange, LandRefused, SignedOutEverywhere,
         SignedOutUnseen, Redrawn, drawing, TypeOK
<1>8. lost' \in {"no", "ended", "refused", "crossed"}
  BY DEF LandAuth, LandMe, LandLogin, LandLogout, LandChange, LandRefused, SignedOutEverywhere,
         SignedOutUnseen, TypeOK
<1>9. flights' \subseteq Flights
  <2>1. Request("me", Nothing) \in Flights
    BY RequestIsTyped DEF Kinds, Reads
  <2> DEFINE asks == IF SignedIn \/ adrift \/ Pending("me") THEN {}
                     ELSE {Request("me", Nothing)}
  <2>2. Landed(f) \cup asks \subseteq Flights
    BY <1>1, <2>1
  <2>3. \/ \E fs \in {Landed(f), Cleared(Landed(f)), Landed(f) \cup asks} : Sends(fs)
        \/ flights' = Cleared(Landed(f))
    BY DEF LandAuth, LandMe, LandLogin, LandLogout, LandChange, LandRefused, SignedOutEverywhere,
           SignedOutUnseen
  <2> HIDE DEF asks
  <2>4. QED
    BY <1>1, <2>2, <2>3, SendsIsTyped
<1>10. page' \in Pages /\ (~PayoutPage' => page' = Fresh)
  BY RefusedIsTyped DEF KeepsDialogs
<1>11. QED
  BY <1>1, <1>2, <1>3, <1>4, <1>5, <1>6, <1>7, <1>8, <1>9, <1>10 DEF TypeOK, server

LEMMA ClosedIsTyped ==
  ASSUME page \in Pages, NEW do \in OfPage
  PROVE  /\ Closed(do) \in Pages
         /\ Closed(do).trail = page.trail
         /\ Closed(do).asking = IF do = "deletePayout" THEN FALSE ELSE page.asking
         /\ Closed(do).deleting = IF do = "deleteTransaction" THEN Nothing ELSE page.deleting
         /\ Closed(do).removing = IF do = "detachDocument" THEN Nothing ELSE page.removing
         /\ Closed(do).attaching = IF do = "attachDocument" THEN Nothing ELSE page.attaching
  BY DEF Closed, OfPage, Pages

(* Only the answer to a delete that is still heard moves the reader.        *)
LEMMA LandWriteMoves ==
  ASSUME TypeOK, NEW f \in flights, LandWrite(f)
  PROVE  /\ f \in Flights /\ f.do \in OfPage
         /\ \/ /\ ~Leaves(f) /\ UNCHANGED <<me, stack, at>>
               /\ page' = Told(f) /\ Path' = Path /\ PayoutPage' = PayoutPage
               /\ OnPayout' = OnPayout
            \/ /\ Leaves(f) /\ UNCHANGED <<me, at>> /\ stack' = Replaced(Entry(ListPath))
               /\ page' = Fresh /\ Path' = ListPath /\ ~PayoutPage'
<1>1. f \in Flights /\ f.do \in OfPage /\ UNCHANGED <<me, at>>
  BY DEF TypeOK, LandWrite, auth
<1>2. CASE ~Leaves(f)
  BY <1>1, <1>2, PageStays DEF LandWrite
<1>3. CASE Leaves(f)
  <2>1. Entry(ListPath) \in Entries /\ Entry(ListPath).path = ListPath
    BY PathsAreApart DEF Entry, Entries
  <2>2. stack' = Replaced(Entry(ListPath)) /\ page' = Fresh
    BY <1>3 DEF LandWrite
  <2>3. Path' = ListPath
    BY <1>1, <2>1, <2>2, ReplacedIsTyped DEF Path
  <2>4. ~PayoutPage'
    BY <2>3, PathsAreApart DEF PayoutPage
  <2>5. QED
    BY <1>1, <1>3, <2>2, <2>3, <2>4
<1>4. QED
  BY <1>2, <1>3

LEMMA LandWriteIsTyped ==
  ASSUME TypeOK, Busy, NEW f \in flights, LandWrite(f)
  PROVE  TypeOK'
<1>1. /\ UNCHANGED <<server, auth, at, due, calls, chose>> /\ Drawn
      /\ Landed(f) \subseteq Flights /\ Sends(Landed(f))
  BY DEF LandWrite, TypeOK, Landed
<1>2. flights' \subseteq Flights /\ wasCaged' \in {"unmounted", "yes", "no"}
  BY <1>1, SendsIsTyped, DrawnIsTyped
<1>3. stack' \in Seq(Entries) /\ Len(stack') = Len(stack)
  <2>1. Entry(ListPath) \in Entries
    BY PathsAreApart DEF Entry, Entries
  <2>2. stack' \in {stack, Replaced(Entry(ListPath))}
    BY LandWriteMoves
  <2>3. /\ Replaced(Entry(ListPath)) \in Seq(Entries)
        /\ Len(Replaced(Entry(ListPath))) = Len(stack)
    BY <2>1, ReplacedIsTyped
  <2>4. stack \in Seq(Entries)
    BY DEF TypeOK
  <2>5. QED
    BY <2>2, <2>3, <2>4
<1>4. page' \in Pages /\ (~PayoutPage' => page' = Fresh)
  <2>1. CASE Leaves(f)
    <3>1. page' = Fresh
      BY <2>1, LandWriteMoves
    <3>2. QED
      BY <3>1 DEF Fresh, Pages, Trails
  <2>2. CASE ~Leaves(f)
    <3>1. page' = Told(f) /\ PayoutPage' = PayoutPage /\ f.do \in OfPage /\ page \in Pages
      BY <2>2, LandWriteMoves DEF TypeOK
    <3>2. f.heard => PayoutPage
      BY <3>1 DEF Busy, HeardOnThePage
    <3>3. Closed(f.do) \in Pages
      BY <3>1, ClosedIsTyped
    <3>4. page' = page \/ (f.heard /\ page' = Closed(f.do))
      BY <3>1 DEF Told
    <3>5. QED
      BY <3>1, <3>2, <3>3, <3>4 DEF TypeOK
  <2>3. QED
    BY <2>1, <2>2
<1>5. DOMAIN stack' = DOMAIN stack
  BY <1>3 DEF TypeOK
<1>6. QED
  BY <1>1, <1>2, <1>3, <1>4, <1>5 DEF TypeOK, server, auth

LEMMA LandReadIsTyped ==
  ASSUME TypeOK, Busy, NEW f \in flights, LandRead(f)
  PROVE  PayoutPage /\ TypeOK'
<1>0. PayoutPage
  BY DEF LandRead, Busy, HeardOnThePage
<1>1. UNCHANGED <<server, auth, place, drawing>> /\ flights' \subseteq Flights
  BY DEF LandRead, Landed, TypeOK
<1>2. PayoutPage' = PayoutPage
  BY <1>1, PageStays DEF auth, place
<1>3. page' \in Pages
  BY DEF LandRead, TypeOK, Pages, Trails
<1>4. QED
  BY <1>0, <1>1, <1>2, <1>3 DEF TypeOK, server, auth, place, drawing

LEMMA RedirectIsTyped ==
  ASSUME TypeOK, Redirect, Kept
  PROVE  TypeOK'
<1>1. due' = Redirects /\ UNCHANGED <<server, auth, stack, at, calls, drawing, flights>>
  BY DEF Redirect
<1>2. due' \subseteq Entries /\ Cardinality(due') <= 1
  BY <1>1, RedirectsAreTyped
<1>3. page' \in Pages /\ (~PayoutPage' => page' = Fresh)
  BY KeptIsTyped DEF KeepsDialogs
<1>4. QED
  BY <1>1, <1>2, <1>3 DEF TypeOK, server, auth, drawing

LEMMA ReplaceIsTyped ==
  ASSUME TypeOK, NEW e \in Entries, Replace(e), Kept,
         due' \subseteq due, Cardinality(due') <= 1, calls' \subseteq calls
  PROVE  TypeOK'
<1>1. UNCHANGED <<at, chose, server, auth>> /\ Drawn /\ Sends(flights) /\ stack' = Replaced(e)
  BY DEF Replace, Moved
<1>2. stack' \in Seq(Entries) /\ Len(stack') = Len(stack)
  BY <1>1, ReplacedIsTyped
<1>3. stack \in Seq(Entries) /\ flights \subseteq Flights
  BY DEF TypeOK
<1>4. DOMAIN stack' = DOMAIN stack
  BY <1>2, <1>3
<1>5. flights' \subseteq Flights /\ wasCaged' \in {"unmounted", "yes", "no"}
  BY <1>1, <1>3, SendsIsTyped, DrawnIsTyped
<1>6. page' \in Pages /\ (~PayoutPage' => page' = Fresh)
  BY KeptIsTyped DEF KeepsDialogs
<1>7. QED
  BY <1>1, <1>2, <1>4, <1>5, <1>6 DEF TypeOK, server, auth

LEMMA DrawIsTyped ==
  ASSUME TypeOK, Draw
  PROVE  TypeOK'
<1>1. CASE Redirect /\ Kept
  BY <1>1, RedirectIsTyped
<1>2. CASE CarryOut /\ Kept
  <2>1. PICK e \in due : due' = {} /\ UNCHANGED calls /\ Replace(e)
    BY <1>2 DEF CarryOut
  <2>2. e \in Entries
    BY DEF TypeOK
  <2>3. Cardinality(due') <= 1
    BY <2>1, FS_EmptySet
  <2>4. QED
    BY <1>2, <2>1, <2>2, <2>3, ReplaceIsTyped
<1>3. CASE Call /\ Kept
  <2>1. PICK path \in calls : calls' = calls \ {path} /\ UNCHANGED due /\ Replace(Entry(path))
    BY <1>3 DEF Call
  <2>2. Entry(path) \in Entries /\ Cardinality(due) <= 1
    BY DEF TypeOK, Entry, Entries
  <2>3. QED
    BY <1>3, <2>1, <2>2, ReplaceIsTyped
<1>4. QED
  BY <1>1, <1>2, <1>3 DEF Draw

LEMMA LinksAreTyped ==
  ASSUME TypeOK
  PROVE  Links \subseteq Paths
  BY PlaceIsTyped, PathsAreApart DEF Links

LEMMA WalkIsTyped ==
  ASSUME TypeOK, Walk
  PROVE  TypeOK'
<1>1. Kept /\ Walks /\ Drawn /\ Sends(flights)
  BY DEF Walk, Follow, GoTo
<1>2. UNCHANGED <<server, auth, due, calls>> /\ chose' = FALSE
  BY <1>1 DEF Walks, Moved
<1>3. flights' \subseteq Flights /\ wasCaged' \in {"unmounted", "yes", "no"}
  BY <1>1, SendsIsTyped, DrawnIsTyped DEF TypeOK
<1>4. page' \in Pages /\ (~PayoutPage' => page' = Fresh)
  BY <1>1, KeptIsTyped DEF KeepsDialogs
<1>5. stack' \in Seq(Entries) /\ Len(stack') <= MaxHistory /\ at' \in DOMAIN stack'
  <2>1. ASSUME NEW path \in Links, Follow(path)
        PROVE  stack' \in Seq(Entries) /\ Len(stack') <= MaxHistory /\ at' \in DOMAIN stack'
    <3>1. path \in Paths
      BY LinksAreTyped
    <3>2. stack' = Pushed(path) /\ at' = at + 1 /\ at < MaxHistory
      BY <2>1 DEF Follow
    <3>3. /\ Pushed(path) \in Seq(Entries) /\ Len(Pushed(path)) = at + 1
          /\ DOMAIN Pushed(path) = 1..(at + 1) /\ at \in 1..Len(stack) /\ Len(stack) \in Nat
      BY <3>1, PushedIsTyped, PlaceIsTyped
    <3>4. QED
      BY <3>2, <3>3, SessionConstants
  <2>2. ASSUME NEW n \in DOMAIN stack, GoTo(n)
        PROVE  stack' \in Seq(Entries) /\ Len(stack') <= MaxHistory /\ at' \in DOMAIN stack'
    BY <2>2 DEF GoTo, TypeOK
  <2>3. QED
    BY <2>1, <2>2 DEF Walk
<1>6. QED
  BY <1>2, <1>3, <1>4, <1>5 DEF TypeOK, server, auth

LEMMA LoadIsTyped ==
  ASSUME TypeOK, NEW path \in Typed, Load(path), Kept
  PROVE  TypeOK'
<1>1. /\ stack' = Replaced(Entry(path)) /\ UNCHANGED <<server, cookie, at, due>>
      /\ me' = "asking" /\ adrift' = FALSE /\ calls' = {} /\ wasCaged' = "unmounted"
      /\ chose' = FALSE /\ flights' = {Request("me", Nothing)}
  BY DEF Load
<1>2. Entry(path) \in Entries
  BY SessionConstants DEF Entry, Entries
<1>3. stack' \in Seq(Entries) /\ Len(stack') = Len(stack)
  BY <1>1, <1>2, ReplacedIsTyped
<1>4. DOMAIN stack' = DOMAIN stack
  BY <1>3 DEF TypeOK
<1>5. Request("me", Nothing) \in Flights
  BY RequestIsTyped DEF Kinds, Reads
<1>6. lost' \in {"no", "ended", "refused", "crossed"}
  BY DEF Load, TypeOK, Ended
<1>7. page' \in Pages /\ (~PayoutPage' => page' = Fresh)
  BY KeptIsTyped DEF KeepsDialogs
<1>8. QED
  BY <1>1, <1>3, <1>4, <1>5, <1>6, <1>7 DEF TypeOK, server

LEMMA SubjectIsTyped ==
  ASSUME TypeOK, NEW do \in OfPage, Open(do)
  PROVE  PayoutPage /\ Subject(do) \in Targets
<1>1. PayoutPage /\ Subject(do) # Nothing /\ page \in Pages /\ OnPayout \in Payouts
  BY PlaceIsTyped DEF Open, TypeOK
<1>2. /\ page.deleting \in Targets \cup {Nothing} /\ page.removing \in Targets \cup {Nothing}
      /\ page.attaching \in Targets \cup {Nothing}
  BY <1>1 DEF Pages, Targets
<1>3. QED
  BY <1>1, <1>2 DEF Subject, OfPage, Targets

(* Opening or cancelling a dialog: nothing else moves, and a dialog opens    *)
(* only where none of its kind is drawn.                                    *)
Opens ==
  /\ UNCHANGED <<server, auth, place, drawing, flights>> /\ PayoutPage /\ page' \in Pages
  /\ \/ page.deleting = Nothing /\ page' = [page EXCEPT !.deleting = page'.deleting]
     \/ ~Pending("deletePayout") /\ page' = [page EXCEPT !.asking = TRUE]
     \/ page.removing = Nothing /\ page' = [page EXCEPT !.removing = page'.removing]
     \/ page.attaching = Nothing /\ page' = [page EXCEPT !.attaching = page'.attaching]
     \/ \E do \in Confirms : ~Pending(do) /\ page' = Closed(do)

LEMMA DialogsOpen ==
  ASSUME TypeOK,
         \/ \E leg \in Legs : AskDelete(leg)
         \/ AskPayout
         \/ \E t \in Targets : AskRemove(t) \/ AskAttach(t)
         \/ \E do \in OfPage : Cancel(do)
  PROVE  Opens
<1>1. page \in Pages
  BY DEF TypeOK
<1>2. ASSUME NEW leg \in Legs, AskDelete(leg)
      PROVE  Opens
  <2>1. page.trail = "tree" /\ PayoutPage /\ ~Modal /\ page' = [page EXCEPT !.deleting = leg]
        /\ UNCHANGED <<server, auth, place, drawing, flights>>
    BY <1>2 DEF AskDelete, Offered, Free, Page
  <2>2. page.deleting = Nothing
    BY <2>1 DEF Modal, DeleteOpen
  <2>3. page' \in Pages /\ page'.deleting = leg
    BY <1>1, <2>1 DEF Pages
  <2>4. QED
    BY <2>1, <2>2, <2>3 DEF Opens
<1>3. CASE AskPayout
  <2>1. PayoutPage /\ ~Pending("deletePayout") /\ page' = [page EXCEPT !.asking = TRUE]
        /\ UNCHANGED <<server, auth, place, drawing, flights>>
    BY <1>3 DEF AskPayout, Offered, Free, Page
  <2>2. page' \in Pages
    BY <1>1, <2>1 DEF Pages
  <2>3. QED
    BY <2>1, <2>2 DEF Opens
<1>4. ASSUME NEW t \in Targets, AskRemove(t)
      PROVE  Opens
  <2>1. PayoutPage /\ ~Modal /\ page' = [page EXCEPT !.removing = t]
        /\ UNCHANGED <<server, auth, place, drawing, flights>>
    BY <1>4 DEF AskRemove, Offered, Free, Page
  <2>2. page.removing = Nothing
    BY <2>1 DEF Modal
  <2>3. page' \in Pages /\ page'.removing = t
    BY <1>1, <2>1 DEF Pages
  <2>4. QED
    BY <2>1, <2>2, <2>3 DEF Opens
<1>5. ASSUME NEW t \in Targets, AskAttach(t)
      PROVE  Opens
  <2>1. PayoutPage /\ ~Modal /\ page' = [page EXCEPT !.attaching = t]
        /\ UNCHANGED <<server, auth, place, drawing, flights>>
    BY <1>5 DEF AskAttach, Offered, Free, Page
  <2>2. page.attaching = Nothing
    BY <2>1 DEF Modal
  <2>3. page' \in Pages /\ page'.attaching = t
    BY <1>1, <2>1 DEF Pages
  <2>4. QED
    BY <2>1, <2>2, <2>3 DEF Opens
<1>6. ASSUME NEW do \in OfPage, Cancel(do)
      PROVE  Opens
  <2>1. PayoutPage /\ do \in Confirms /\ ~Pending(do) /\ page' = Closed(do)
        /\ UNCHANGED <<server, auth, place, drawing, flights>>
    BY <1>6 DEF Cancel, Open, Page
  <2>2. page' \in Pages
    BY <1>1, <2>1, ClosedIsTyped
  <2>3. QED
    BY <2>1, <2>2 DEF Opens
<1>7. QED
  BY <1>2, <1>3, <1>4, <1>5, <1>6

LEMMA OpensIsTyped ==
  ASSUME TypeOK, Opens
  PROVE  TypeOK'
<1>1. PayoutPage' = PayoutPage
  BY PageStays DEF Opens, auth, place
<1>2. QED
  BY <1>1 DEF Opens, TypeOK, server, auth, place, drawing

LEMMA DoneIsTyped ==
  ASSUME TypeOK, Done
  PROVE  TypeOK'
<1>1. /\ PayoutPage /\ flights' = Unheard("attachDocument") /\ page' = Closed("attachDocument")
      /\ UNCHANGED <<server, auth, place, drawing>> /\ page \in Pages
  BY DEF Done, Open, TypeOK
<1>2. page' \in Pages
  BY <1>1, ClosedIsTyped DEF OfPage
<1>3. \A f \in flights : f \in Flights /\ [f EXCEPT !.heard = FALSE] \in Flights
  BY AnswerIsTyped DEF TypeOK
<1>4. flights' \subseteq Flights
  BY <1>1, <1>3 DEF Unheard
<1>5. PayoutPage' = PayoutPage
  BY <1>1, PageStays DEF auth, place
<1>6. QED
  BY <1>1, <1>2, <1>4, <1>5 DEF TypeOK, server, auth, place, drawing

(* What the page asks; and what the sign-in or change screen asks, or the   *)
(* button that signs out.                                                   *)
AsksAny(do, on) ==
  /\ do \in OfPage \cup {"read"} /\ on \in Targets \cup {Nothing} /\ Asks(do, on)
  /\ do \in OfPage => (Open(do) /\ ~Pending(do) /\ on = Subject(do) /\ on \in Targets)
  /\ do = "read" => PayoutPage
  /\ page' \in Pages
  /\ \/ page' = page
     \/ PayoutPage /\ do = "read" /\ page' = [page EXCEPT !.trail = "pending"]

AsksSign(do, on) ==
  do \in AuthWrites /\ on \in Paths \cup {Nothing} /\ AsksAuth(do, on) /\ Kept

LEMMA AskedIsSo ==
  ASSUME TypeOK,
         \/ \E do \in OfPage : Confirm(do)
         \/ Attach \/ Read
  PROVE  \E do, on : AsksAny(do, on)
<1>1. page \in Pages
  BY DEF TypeOK
<1>2. "read" \notin OfPage /\ Confirms \subseteq OfPage /\ "attachDocument" \in OfPage
  BY DEF OfPage, Confirms
<1>3. ASSUME NEW do \in OfPage, Confirm(do)
      PROVE  AsksAny(do, Subject(do))
  BY <1>1, <1>2, <1>3, SubjectIsTyped DEF Confirm, AsksAny
<1>4. CASE Attach
  <2>1. Subject("attachDocument") = page.attaching
    BY DEF Subject
  <2>2. AsksAny("attachDocument", page.attaching)
    BY <1>1, <1>2, <1>4, <2>1, SubjectIsTyped DEF Attach, AsksAny
  <2>3. QED
    BY <2>2
<1>5. CASE Read
  <2>1. page' \in Pages
    BY <1>1, <1>5 DEF Read, Pages, Trails
  <2>2. AsksAny("read", Nothing)
    BY <1>2, <1>5, <2>1 DEF Read, AsksAny
  <2>3. QED
    BY <2>2
<1>6. QED
  BY <1>3, <1>4, <1>5

LEMMA SignsAreAsked ==
  ASSUME TypeOK, Sign
  PROVE  \E do, on : AsksSign(do, on)
<1>1. stack[at].from \in Paths \cup {Nothing} /\ Path \in Paths /\ Kept
  BY PlaceIsTyped DEF Sign
<1>2. CASE SubmitSignIn
  <2>1. AsksSign("login", stack[at].from)
    BY <1>1, <1>2 DEF SubmitSignIn, AsksSign, AuthWrites
  <2>2. QED
    BY <2>1
<1>3. CASE SubmitChange
  <2>1. AsksSign("change", Path)
    BY <1>1, <1>3 DEF SubmitChange, AsksSign, AuthWrites
  <2>2. QED
    BY <2>1
<1>4. CASE SignOut
  <2>1. AsksSign("logout", Nothing)
    BY <1>1, <1>4 DEF SignOut, AsksSign, AuthWrites
  <2>2. QED
    BY <2>1
<1>5. QED
  BY <1>2, <1>3, <1>4 DEF Sign

(* What is in the air once somebody signs in, out or anew.                  *)
LEMMA SignsSend ==
  ASSUME TypeOK, NEW do, NEW on, AsksSign(do, on)
  PROVE  \E fs \in SUBSET Flights :
           /\ Sends(fs) /\ flights \subseteq fs
           /\ \A g \in fs : g \in flights \/ g = Request(do, on) \/ g = Request("me", Nothing)
<1>1. PICK again \in AsksAgain : Sends(flights \cup {Request(do, on)} \cup again)
  BY DEF AsksSign, AsksAuth
<1>2. again \subseteq {Request("me", Nothing)}
  BY DEF AsksAgain
<1>3. Request("me", Nothing) \in Flights /\ Request(do, on) \in Flights /\ flights \subseteq Flights
  BY RequestIsTyped DEF AsksSign, Kinds, Reads, TypeOK
<1>4. flights \cup {Request(do, on)} \cup again \in SUBSET Flights
  BY <1>2, <1>3
<1>5. QED
  BY <1>1, <1>2, <1>4

LEMMA AsksSignIsTyped ==
  ASSUME TypeOK, NEW do, NEW on, AsksSign(do, on)
  PROVE  TypeOK'
<1>1. /\ UNCHANGED <<server, cookie, lost, place>> /\ Drawn /\ Kept
      /\ me' \in {me, "nobody"} /\ adrift' = FALSE /\ chose' \in BOOLEAN
  BY DEF AsksSign, AsksAuth, Redrawn, Belief, TypeOK
<1>2. flights' \subseteq Flights
  BY SignsSend, SendsIsTyped
<1>3. wasCaged' \in {"unmounted", "yes", "no"}
  BY <1>1, DrawnIsTyped
<1>4. page' \in Pages /\ (~PayoutPage' => page' = Fresh)
  BY <1>1, KeptIsTyped DEF KeepsDialogs
<1>5. QED
  BY <1>1, <1>2, <1>3, <1>4 DEF TypeOK, server, place

-----------------------------------------------------------------------------
(* Steps *)

(* The steps of Next, by what they do to the page and to what is in the air. *)
LEMMA Steps ==
  ASSUME TypeOK, [Next]_vars
  PROVE  \/ UNCHANGED vars
         \/ \E path \in Typed : Load(path) /\ Kept
         \/ \E f \in flights : Serve(f) /\ UNCHANGED page
         \/ \E f \in flights : Lose(f) /\ UNCHANGED page
         \/ \E f \in flights : LandAuth(f) /\ Refused(f)
         \/ \E f \in flights : LandRead(f)
         \/ \E f \in flights : LandWrite(f)
         \/ Elsewhere /\ UNCHANGED page
         \/ Draw \/ Walk
         \/ \E do, on : AsksAny(do, on)
         \/ \E do, on : AsksSign(do, on)
         \/ Opens \/ Done
<1>1. CASE UNCHANGED vars
  BY <1>1
<1>2. ASSUME NEW f \in flights, Answer(f) \/ Land(f)
      PROVE  \/ Serve(f) /\ UNCHANGED page
             \/ Lose(f) /\ UNCHANGED page
             \/ LandAuth(f) /\ Refused(f)
             \/ LandRead(f) \/ LandWrite(f)
  BY <1>2 DEF Answer, Land
<1>3. ASSUME Sign
      PROVE  \E do, on : AsksSign(do, on)
  BY <1>3, SignsAreAsked
<1>4. ASSUME Talk
      PROVE  Opens \/ Done \/ \E do, on : AsksAny(do, on)
  BY <1>4, AskedIsSo, DialogsOpen DEF Talk
<1>5. CASE Next
  BY <1>2, <1>3, <1>4, <1>5 DEF Next
<1>6. QED
  BY <1>1, <1>5

LEMMA AsksAnyIsTyped ==
  ASSUME TypeOK, NEW do, NEW on, AsksAny(do, on)
  PROVE  TypeOK'
<1>1. do \in Kinds /\ on \in Targets \cup Paths \cup {Nothing}
  BY DEF AsksAny, Kinds, Reads
<1>2. QED
  BY <1>1, AsksIsTyped DEF AsksAny

LEMMA NextIsTyped ==
  ASSUME IInv, [Next]_vars
  PROVE  TypeOK'
<1>1. TypeOK /\ FlightsMakeSense /\ Busy
  BY DEF IInv, Honest
<1>2. CASE UNCHANGED vars
  <2>1. PayoutPage' = PayoutPage
    BY <1>2, PageStays DEF vars, sessionVars
  <2>2. QED
    BY <1>1, <1>2, <2>1 DEF TypeOK, vars, sessionVars
<1>3. CASE ~UNCHANGED vars
  BY <1>1, <1>3, Steps, LoadIsTyped, ServeIsTyped, LoseIsTyped, LandAuthIsTyped, LandReadIsTyped,
     LandWriteIsTyped, ElsewhereIsTyped, DrawIsTyped, WalkIsTyped, AsksAnyIsTyped,
     AsksSignIsTyped, OpensIsTyped, DoneIsTyped
<1>4. QED
  BY <1>2, <1>3

-----------------------------------------------------------------------------
(* What is in the air makes sense *)

Same(g, f) ==
  /\ g.do = f.do /\ g.on = f.on /\ g.cookie = f.cookie
  /\ g.says = f.says /\ g.gives = f.gives

LEMMA SameIsSensible ==
  ASSUME NEW f, NEW g, Same(g, f), Sensible(f), issued \in Nat, issued' \in Nat, issued <= issued'
  PROVE  Sensible(g)'
<1>1. f.gives \in 1..issued => f.gives \in 1..issued'
  OBVIOUS
<1>2. QED
  BY <1>1 DEF Sensible, Same

New(g) ==
  /\ g.says = "unanswered" /\ g.gives = 0
  /\ g.do = "login" => g.on \in Paths \cup {Nothing}
  /\ g.do \in OfPage => g.on \in Targets

Carried(fs) == \A g \in flights' : New(g) \/ \E f \in fs : Same(g, f)

LEMMA CarriedMakeSense ==
  ASSUME TypeOK, FlightsMakeSense, UNCHANGED issued, Carried(flights)
  PROVE  FlightsMakeSense'
<1>1. issued \in Nat /\ issued' = issued
  BY SessionConstants DEF TypeOK
<1>2. ASSUME NEW g \in flights', New(g)
      PROVE  Sensible(g)'
  BY <1>2 DEF New, Sensible
<1>3. ASSUME NEW g \in flights', NEW f \in flights, Same(g, f)
      PROVE  Sensible(g)'
  BY <1>1, <1>3, SameIsSensible DEF FlightsMakeSense
<1>4. QED
  BY <1>2, <1>3 DEF Carried, FlightsMakeSense

LEMMA SendsCarry ==
  ASSUME NEW fs \in SUBSET Flights, Sends(fs)
  PROVE  /\ Carried(fs)
         /\ \A f \in fs : f.do \in AuthWrites \cup {"me"} => f \in flights'
  BY HeldKeeps DEF Sends, Carried, Same

(* A landing takes its answer out of the air; signing out takes the reads   *)
(* with it, and a cage with nobody in it asks who is there.                 *)
LEMMA LandAuthCarries ==
  ASSUME TypeOK, NEW f \in flights, LandAuth(f)
  PROVE  /\ Carried(Landed(f))
         /\ \A g \in Landed(f) : g.do \in AuthWrites => g \in flights'
<1>1. /\ Landed(f) \subseteq Flights /\ Cleared(Landed(f)) \subseteq Landed(f)
      /\ Request("me", Nothing) \in Flights
  BY RequestIsTyped DEF TypeOK, Landed, Cleared, Kinds, Reads
<1>2. \A g \in Landed(f) : g.do \in AuthWrites => g \in Cleared(Landed(f))
  BY DEF Cleared, Reads, AuthWrites
<1>3. CASE Sends(Landed(f))
  BY <1>1, <1>3, SendsCarry
<1>4. CASE Sends(Cleared(Landed(f)))
  <2>1. /\ Carried(Cleared(Landed(f)))
        /\ \A g \in Cleared(Landed(f)) : g.do \in AuthWrites \cup {"me"} => g \in flights'
    BY <1>1, <1>4, SendsCarry
  <2>2. QED
    BY <1>1, <1>2, <2>1 DEF Carried
<1>5. CASE Sends(Landed(f) \cup {Request("me", Nothing)})
  <2>1. /\ Carried(Landed(f) \cup {Request("me", Nothing)})
        /\ \A g \in Landed(f) : g.do \in AuthWrites \cup {"me"} => g \in flights'
    BY <1>1, <1>5, SendsCarry
  <2>2. ASSUME NEW g, Same(g, Request("me", Nothing))
        PROVE  New(g)
    BY <2>2 DEF Same, New, Request, OfPage
  <2>3. QED
    BY <2>1, <2>2 DEF Carried
<1>6. CASE flights' = Cleared(Landed(f))
  BY <1>1, <1>2, <1>6 DEF Carried, Same
<1>7. Landed(f) \cup {} = Landed(f)
  OBVIOUS
<1>8. QED
  BY <1>3, <1>4, <1>5, <1>6, <1>7
  DEF LandAuth, LandMe, LandLogin, LandLogout, LandChange, LandRefused, SignedOutEverywhere,
      SignedOutUnseen

(* Every other step of the browser leaves the answers of the account alone. *)
LEMMA BrowserCarries ==
  ASSUME TypeOK,
         \/ \E f \in flights : LandRead(f) \/ LandWrite(f)
         \/ Draw \/ Walk
         \/ \E do, on : AsksAny(do, on)
         \/ Opens \/ Done
  PROVE  /\ UNCHANGED <<server, cookie, me, adrift, lost>> /\ Carried(flights)
         /\ \A f \in flights : f.do \in AuthWrites => f \in flights'
<1>1. flights \subseteq Flights /\ "read" \notin AuthWrites /\ OfPage \cap AuthWrites = {}
  BY DEF TypeOK, AuthWrites, OfPage
<1>2. ASSUME Sends(flights)
      PROVE  Carried(flights) /\ \A f \in flights : f.do \in AuthWrites => f \in flights'
  BY <1>1, <1>2, SendsCarry
<1>3. ASSUME flights' = flights
      PROVE  Carried(flights) /\ \A f \in flights : f.do \in AuthWrites => f \in flights'
  BY <1>3 DEF Carried, Same
<1>4. ASSUME NEW f \in flights, LandRead(f)
      PROVE  /\ UNCHANGED <<server, cookie, me, adrift, lost>> /\ Carried(flights)
             /\ \A g \in flights : g.do \in AuthWrites => g \in flights'
  BY <1>1, <1>4 DEF LandRead, Landed, Carried, Same, auth
<1>5. ASSUME NEW f \in flights, LandWrite(f)
      PROVE  /\ UNCHANGED <<server, cookie, me, adrift, lost>> /\ Carried(flights)
             /\ \A g \in flights : g.do \in AuthWrites => g \in flights'
  <2>1. Landed(f) \subseteq flights /\ \A g \in flights : g.do \in AuthWrites => g \in Landed(f)
    BY <1>1, <1>5 DEF LandWrite, Landed
  <2>2. Carried(Landed(f)) /\ \A g \in Landed(f) : g.do \in AuthWrites => g \in flights'
    BY <1>1, <1>5, <2>1, SendsCarry DEF LandWrite
  <2>3. QED
    BY <1>5, <2>1, <2>2 DEF Carried, LandWrite, auth
<1>6. ASSUME Draw
      PROVE  /\ UNCHANGED <<server, cookie, me, adrift, lost>>
             /\ Sends(flights) \/ flights' = flights
  BY <1>6 DEF Draw, Redirect, CarryOut, Call, Replace, Moved, auth
<1>7. ASSUME Walk
      PROVE  UNCHANGED <<server, cookie, me, adrift, lost>> /\ Sends(flights)
  BY <1>7 DEF Walk, Follow, GoTo, Walks, Moved, auth
<1>8. ASSUME NEW do, NEW on, AsksAny(do, on)
      PROVE  /\ UNCHANGED <<server, cookie, me, adrift, lost>> /\ Carried(flights)
             /\ \A f \in flights : f.do \in AuthWrites => f \in flights'
  <2>1. flights' = flights \cup {Request(do, on)} /\ UNCHANGED <<server, cookie, me, adrift, lost>>
    BY <1>8 DEF AsksAny, Asks, auth
  <2>2. New(Request(do, on))
    BY <1>8 DEF AsksAny, New, Request, OfPage
  <2>3. QED
    BY <2>1, <2>2 DEF Carried, Same
<1>9. ASSUME Opens
      PROVE  UNCHANGED <<server, cookie, me, adrift, lost>> /\ flights' = flights
  BY <1>9 DEF Opens, auth
<1>10. ASSUME Done
       PROVE  /\ UNCHANGED <<server, cookie, me, adrift, lost>> /\ Carried(flights)
              /\ \A f \in flights : f.do \in AuthWrites => f \in flights'
  <2>1. /\ flights' = {IF f.do = "attachDocument" THEN [f EXCEPT !.heard = FALSE] ELSE f :
                         f \in flights}
        /\ UNCHANGED <<server, cookie, me, adrift, lost>>
    BY <1>10 DEF Done, Unheard, auth
  <2>2. \A f \in flights : Same([f EXCEPT !.heard = FALSE], f) /\ Same(f, f)
    BY <1>1 DEF Same, Flights
  <2>3. "attachDocument" \notin AuthWrites
    BY DEF AuthWrites
  <2>4. QED
    BY <2>1, <2>2, <2>3 DEF Carried
<1>11. QED
  BY <1>2, <1>3, <1>4, <1>5, <1>6, <1>7, <1>8, <1>9, <1>10

-----------------------------------------------------------------------------
(* The tab and its session *)

LEMMA CarriedVouch ==
  ASSUME TypeOK, UNCHANGED cookie, Carried(flights), NEW g \in flights', Vouches(g)'
  PROVE  \E f \in flights : Vouches(f)
  BY DEF Carried, New, Same, Vouches

LEMMA QuietIsHonest ==
  ASSUME TypeOK, Honest, UNCHANGED <<server, cookie, lost>>, Carried(flights),
         Gone' => Gone, Believed' => Believed,
         \A f \in flights : f.do \in AuthWrites => f \in flights'
  PROVE  Honest'
<1>1. UNCHANGED <<live, issued, cookie, lost>>
  BY DEF server
<1>2. FlightsMakeSense'
  BY <1>1, CarriedMakeSense DEF Honest
<1>3. NobodyHasNoCookie' /\ SomebodyHasACookie'
  BY <1>1 DEF Honest, NobodyHasNoCookie, SomebodyHasACookie
<1>4. Relied' => Relied
  BY <1>1, CarriedVouch DEF Relied
<1>5. ASSUME NEW f \in flights, WillTell(f)
      PROVE  f \in flights' /\ WillTell(f)'
  BY <1>1, <1>5 DEF WillTell, AuthWrites
<1>6. LiveOrSoonTold'
  BY <1>1, <1>4, <1>5 DEF Honest, LiveOrSoonTold
<1>7. QED
  BY <1>2, <1>3, <1>6 DEF Honest

LEMMA SameBelief ==
  ASSUME UNCHANGED <<me, adrift>>
  PROVE  Gone' = Gone /\ Believed' = Believed
  BY DEF Gone, Believed, SignedIn

(* Drawn again, the provider believes less or the same.                     *)
LEMMA AsksSignIsHonest ==
  ASSUME TypeOK, Honest, NEW do, NEW on, AsksSign(do, on)
  PROVE  Honest'
<1>1. /\ UNCHANGED <<server, cookie, lost>> /\ adrift' = FALSE
      /\ me' = (IF adrift THEN "nobody" ELSE me)
  BY DEF AsksSign, AsksAuth, Redrawn, Belief
<1>2. (Gone' => Gone) /\ (Believed' => Believed)
  BY <1>1 DEF Gone, Believed, SignedIn
<1>3. PICK fs \in SUBSET Flights :
        /\ Sends(fs) /\ flights \subseteq fs
        /\ \A g \in fs : g \in flights \/ g = Request(do, on) \/ g = Request("me", Nothing)
  BY SignsSend
<1>4. /\ Carried(fs)
      /\ \A f \in fs : f.do \in AuthWrites \cup {"me"} => f \in flights'
  BY <1>3, SendsCarry
<1>5. ASSUME NEW g, NEW h \in {Request(do, on), Request("me", Nothing)}, Same(g, h)
      PROVE  New(g)
  BY <1>5 DEF Same, New, Request, OfPage, AsksSign, AuthWrites
<1>6. Carried(flights)
  BY <1>3, <1>4, <1>5 DEF Carried
<1>7. QED
  BY <1>1, <1>2, <1>3, <1>4, <1>6, QuietIsHonest

(* A session dies by an answer that will say so; an answer that vouches for *)
(* one is given while it lives.                                             *)
LEMMA ServeIsHonest ==
  ASSUME TypeOK, TypeOK', Honest, NEW f \in flights, Serve(f)
  PROVE  Honest'
<1> DEFINE Answered(a) ==
             /\ flights' = (flights \ {f}) \cup {a} /\ a.do = f.do /\ a.cookie = f.cookie
             /\ Sensible(a)'
             /\ (a.do \in {"me", "change"} /\ a.says \in {"caged", "free"}) => a.cookie \in live'
             /\ cookie \in live => (cookie \in live' \/ WillTell(a))
<1>1. /\ f \in Flights /\ f.says = "unanswered" /\ Sensible(f) /\ f.gives = 0
      /\ UNCHANGED <<cookie, me, adrift, lost>>
  BY DEF TypeOK, Honest, FlightsMakeSense, Sensible, Serve, auth
<1>2. 0 \notin live /\ issued \in Nat /\ Flag \in {"caged", "free"}
  BY SessionConstants DEF TypeOK, Flag
<1>3. ASSUME NEW answer
      PROVE  LET a == [f EXCEPT !.says = answer]
             IN  /\ a.do = f.do /\ a.on = f.on /\ a.cookie = f.cookie /\ a.says = answer
                 /\ a.gives = 0
  BY <1>1 DEF Flights
<1>4. \E a : Answered(a)
  <2>1. CASE Refuse(f)
    <3>1. CASE ~SessionGuard(f) /\ Says(f, "unauthenticated") /\ UNCHANGED server
      <4>1. Answered([f EXCEPT !.says = "unauthenticated"])
        BY <1>1, <1>3, <3>1 DEF Says, Sensible, SessionGuard, PUBLIC_ROUTES, server
      <4>2. QED
        BY <4>1
    <3>2. CASE ~PasswordGuard(f) /\ Says(f, "mustChange") /\ UNCHANGED server
      <4>1. Answered([f EXCEPT !.says = "mustChange"])
        BY <1>1, <1>3, <3>2 DEF Says, Sensible, PasswordGuard, MUST_CHANGE_EXEMPT, server
      <4>2. QED
        BY <4>1
    <3>3. QED
      BY <2>1, <3>1, <3>2 DEF Refuse
  <2>2. CASE ServeMe(f) /\ SessionGuard(f)
    <3>1. f.cookie \in live /\ f.do = "me" /\ Says(f, Flag) /\ UNCHANGED server
      BY <2>2 DEF ServeMe, SessionGuard, PUBLIC_ROUTES
    <3>2. PICK a : a = [f EXCEPT !.says = Flag]
      OBVIOUS
    <3>3. /\ a.do = f.do /\ a.on = f.on /\ a.cookie = f.cookie /\ a.says \in {"caged", "free"}
          /\ a.gives = 0
      BY <1>2, <1>3, <3>2
    <3>4. Answered(a)
      BY <1>1, <1>2, <3>1, <3>2, <3>3 DEF Says, Sensible, OfPage, server
    <3>5. QED
      BY <3>4
  <2>3. CASE ServeLogin(f) /\ Says(f, "wrongPassword") /\ UNCHANGED <<live, issued>>
    <3>1. f.do = "login"
      BY <2>3 DEF ServeLogin
    <3>2. Answered([f EXCEPT !.says = "wrongPassword"])
      BY <1>1, <1>3, <2>3, <3>1 DEF Says, Sensible, OfPage
    <3>3. QED
      BY <3>2
  <2>4. CASE /\ f.do = "login" /\ issued' = issued + 1 /\ live' = live \cup {issued'}
             /\ flights' = (flights \ {f}) \cup {[f EXCEPT !.says = Flag, !.gives = issued']}
    <3>1. PICK a : a = [f EXCEPT !.says = Flag, !.gives = issued']
      OBVIOUS
    <3>2. a.do = f.do /\ a.on = f.on /\ a.cookie = f.cookie /\ a.says = Flag /\ a.gives = issued'
      BY <1>1, <3>1 DEF Flights
    <3>3. issued' \in 1..issued'
      BY <1>2, <2>4
    <3>4. Sensible(a)'
      BY <1>1, <1>2, <2>4, <3>2, <3>3 DEF Sensible, OfPage
    <3>5. Answered(a)
      BY <2>4, <3>1, <3>2, <3>4
    <3>6. QED
      BY <3>5
  <2>5. CASE ServeLogout(f)
    <3>1. Answered([f EXCEPT !.says = "done"])
      BY <1>1, <1>3, <2>5 DEF ServeLogout, Says, Sensible, OfPage, WillTell
    <3>2. QED
      BY <3>1
  <2>6. CASE ServeChange(f) /\ Says(f, "wrongPassword") /\ UNCHANGED live
    <3>1. f.do = "change"
      BY <2>6 DEF ServeChange
    <3>2. Answered([f EXCEPT !.says = "wrongPassword"])
      BY <1>1, <1>3, <2>6, <3>1 DEF Says, Sensible, OfPage
    <3>3. QED
      BY <3>2
  <2>7. CASE ServeChange(f) /\ SessionGuard(f) /\ live' = live \cap {f.cookie} /\ Says(f, "free")
    <3>1. f.do = "change" /\ f.cookie \in live
      BY <2>7 DEF ServeChange, SessionGuard, PUBLIC_ROUTES
    <3>2. Answered([f EXCEPT !.says = "free"])
      BY <1>1, <1>2, <1>3, <2>7, <3>1 DEF Says, Sensible, OfPage, WillTell
    <3>3. QED
      BY <3>2
  <2>8. CASE ServePage(f)
    <3>1. Answered([f EXCEPT !.says = "done"])
      BY <1>1, <1>3, <2>8 DEF ServePage, Says, Sensible, OfPage, server
    <3>2. QED
      BY <3>1
  <2>9. QED
    BY <2>1, <2>2, <2>3, <2>4, <2>5, <2>6, <2>7, <2>8 DEF Serve, ServeLogin, ServeChange
<1>5. PICK a : Answered(a)
  BY <1>4
<1>6. issued' \in Nat /\ issued <= issued'
  BY <1>2, SessionConstants DEF TypeOK, Serve, Refuse, ServeMe, ServeLogin, ServeLogout,
                                ServeChange, ServePage, server
<1>7. FlightsMakeSense'
  <2>1. ASSUME NEW g \in flights
        PROVE  Sensible(g)'
    BY <1>2, <1>6, SameIsSensible DEF Same, Honest, FlightsMakeSense
  <2>2. QED
    BY <1>5, <2>1 DEF FlightsMakeSense
<1>8. NobodyHasNoCookie' /\ SomebodyHasACookie'
  BY <1>1, SameBelief DEF Honest, NobodyHasNoCookie, SomebodyHasACookie
<1>9. Relied' => (Relied \/ cookie \in live')
  BY <1>1, <1>5, SameBelief DEF Relied, Vouches
<1>10. ASSUME NEW w \in flights, WillTell(w)
       PROVE  w \in flights' /\ WillTell(w)'
  BY <1>1, <1>5, <1>10 DEF WillTell
<1>11. cookie \in live => (cookie' \in live' \/ \E w \in flights' : WillTell(w)')
  BY <1>1, <1>5 DEF WillTell
<1>12. LiveOrSoonTold'
  BY <1>1, <1>9, <1>10, <1>11 DEF Honest, LiveOrSoonTold
<1>13. QED
  BY <1>7, <1>8, <1>12 DEF Honest

(* An answer that would have told, and never arrives, is counted as lost.   *)
LEMMA LoseIsHonest ==
  ASSUME TypeOK, Honest, NEW f \in flights, Lose(f)
  PROVE  Honest'
<1>1. f \in Flights /\ Sensible(f) /\ UNCHANGED <<server, cookie, me, adrift>>
  BY DEF TypeOK, Honest, FlightsMakeSense, Lose
<1>2. PICK a : a = [f EXCEPT !.says = "failed"]
  OBVIOUS
<1>3. /\ flights' = (flights \ {f}) \cup {a}
      /\ a.do = f.do /\ a.on = f.on /\ a.cookie = f.cookie /\ a.says = "failed"
      /\ a.gives = f.gives
  BY <1>1, <1>2 DEF Flights, Lose, Says
<1>4. \/ lost' = lost
      \/ lost' # "no" /\ (lost' \in {"refused", "crossed"} <=> lost \in {"refused", "crossed"})
  BY DEF Lose, Ended
<1>5. issued' = issued /\ live' = live /\ issued \in Nat
  BY <1>1, SessionConstants DEF server, TypeOK
<1>6. Sensible(a)'
  BY <1>1, <1>3, <1>5 DEF Sensible
<1>7. FlightsMakeSense'
  <2>1. ASSUME NEW g \in flights
        PROVE  Sensible(g)'
    BY <1>5, SameIsSensible DEF Same, Honest, FlightsMakeSense
  <2>2. QED
    BY <1>3, <1>6, <2>1 DEF FlightsMakeSense
<1>8. NobodyHasNoCookie' /\ SomebodyHasACookie'
  BY <1>1, <1>4, SameBelief DEF Honest, NobodyHasNoCookie, SomebodyHasACookie
<1>9. ASSUME lost' = "no"
      PROVE  lost = "no" /\ ~WillTell(f)
  <2>1. ~(f.do \in AuthWrites /\ f.says # "unanswered")
    BY <1>9 DEF Lose, Ended
  <2>2. QED
    BY <1>4, <1>9, <2>1 DEF WillTell, AuthWrites
<1>10. Relied' => Relied
  BY <1>1, <1>3, SameBelief DEF Relied, Vouches
<1>11. ASSUME NEW w \in flights, WillTell(w), w # f
       PROVE  w \in flights' /\ WillTell(w)'
  BY <1>1, <1>3, <1>11 DEF WillTell
<1>12. LiveOrSoonTold'
  BY <1>5, <1>1, <1>9, <1>10, <1>11 DEF Honest, LiveOrSoonTold
<1>13. QED
  BY <1>7, <1>8, <1>12 DEF Honest

LEMMA ElsewhereIsHonest ==
  ASSUME TypeOK, Honest, Elsewhere
  PROVE  Honest'
<1>1. /\ UNCHANGED <<issued, cookie, me, adrift, flights>>
      /\ lost' # "no" \/ (UNCHANGED <<live, lost>>)
      /\ lost' \in {"refused", "crossed"} <=> lost \in {"refused", "crossed"}
  BY DEF Elsewhere, Ended
<1>2. FlightsMakeSense'
  BY <1>1 DEF Honest, FlightsMakeSense, Sensible
<1>3. NobodyHasNoCookie' /\ SomebodyHasACookie'
  BY <1>1, SameBelief DEF Honest, NobodyHasNoCookie, SomebodyHasACookie
<1>4. LiveOrSoonTold'
  BY <1>1, SameBelief DEF Honest, LiveOrSoonTold, Relied, Vouches, WillTell
<1>5. QED
  BY <1>2, <1>3, <1>4 DEF Honest

LEMMA LoadIsHonest ==
  ASSUME TypeOK, Honest, NEW path \in Typed, Load(path)
  PROVE  Honest'
<1>1. /\ me' = "asking" /\ adrift' = FALSE /\ flights' = {Request("me", Nothing)}
      /\ UNCHANGED issued
  BY DEF Load, server
<1>2. Request("me", Nothing).says = "unanswered" /\ New(Request("me", Nothing))
  BY DEF Request, New, OfPage
<1>3. FlightsMakeSense'
  BY <1>1, <1>2, CarriedMakeSense DEF Carried, Honest
<1>4. ~Relied' /\ ~Believed' /\ ~Gone'
  BY <1>1, <1>2 DEF Relied, Vouches, SignedIn, Believed, Gone
<1>5. QED
  BY <1>1, <1>3, <1>4 DEF Honest, NobodyHasNoCookie, SomebodyHasACookie, LiveOrSoonTold

(* Signing out takes the cookie; and whoever the tab believed in, drawn or  *)
(* not, unless it took the refusal for a wrong password.                    *)
LEMMA GoneIsHonest ==
  ASSUME FlightsMakeSense', cookie' = 0, Gone' \/ lost' \in {"refused", "crossed"}
  PROVE  Honest'
<1>1. NobodyHasNoCookie' /\ SomebodyHasACookie'
  BY DEF NobodyHasNoCookie, SomebodyHasACookie, Gone, Believed, SignedIn
<1>2. (lost' = "no") => ~Relied'
  BY DEF Relied, Vouches, Gone, Believed, SignedIn, FlightsMakeSense, Sensible
<1>3. QED
  BY <1>1, <1>2 DEF Honest, LiveOrSoonTold

(* The answer that is landing tells nothing more once the tab's session is  *)
(* as it was: whoever will tell is still in the air.                        *)
LEMMA SameSessionIsHonest ==
  ASSUME TypeOK, Honest, NEW f \in flights, ~WillTell(f), FlightsMakeSense',
         Carried(Landed(f)), \A g \in Landed(f) : g.do \in AuthWrites => g \in flights',
         UNCHANGED <<live, cookie>>, lost' \in {lost, "crossed"},
         Gone' => Gone,
         (Believed' /\ lost' # "crossed") => (Believed \/ Vouches(f))
  PROVE  Honest'
<1>1. Carried(flights)
  BY DEF Carried, Landed
<1>2. \A w \in flights : WillTell(w) => (w \in flights' /\ WillTell(w)')
  BY DEF Landed, WillTell, AuthWrites
<1>3. (Relied' /\ lost' # "crossed") => Relied
  BY <1>1, CarriedVouch DEF Relied
<1>4. LiveOrSoonTold'
  BY <1>2, <1>3 DEF Honest, LiveOrSoonTold
<1>5. Vouches(f) => cookie # 0
  BY DEF Honest, FlightsMakeSense, Sensible, Vouches
<1>6. NobodyHasNoCookie' /\ SomebodyHasACookie'
  BY <1>5 DEF Honest, NobodyHasNoCookie, SomebodyHasACookie
<1>7. QED
  BY <1>4, <1>6 DEF Honest

LEMMA RedrawnBelievesNoMore ==
  ASSUME Redrawn
  PROVE  (Believed' => Believed) /\ (Gone' => Gone)
  BY DEF Redrawn, Belief, Believed, Gone, SignedIn

LEMMA LandAuthIsHonest ==
  ASSUME TypeOK, Honest, NEW f \in flights, LandAuth(f)
  PROVE  Honest'
<1>1. /\ Carried(Landed(f)) /\ \A g \in Landed(f) : g.do \in AuthWrites => g \in flights'
      /\ UNCHANGED server /\ UNCHANGED <<live, issued>> /\ f.says # "unanswered" /\ Sensible(f)
  BY LandAuthCarries DEF LandAuth, server, Honest, FlightsMakeSense
<1>2. FlightsMakeSense'
  BY <1>1, CarriedMakeSense DEF Honest, Carried, Landed
<1>3. FlightsMakeSense
  BY DEF Honest
<1>4. CASE (SignedOutUnseen(f) /\ f.says = "unauthenticated")
           \/ (SignedOutEverywhere(f) /\ f.do = "logout" /\ f.says = "done")
  <2>1. cookie' = 0 /\ Gone'
    BY <1>3, <1>4, CookieIsTyped DEF SignedOutEverywhere, SignedOutUnseen, Gone
  <2>2. QED
    BY <1>2, <2>1, GoneIsHonest
<1>5. CASE LandMe(f)
  <2>1. f.do = "me" /\ cookie' = Cookie(f) /\ ~WillTell(f)
    BY <1>5 DEF LandMe, WillTell
  <2>2. CASE f.says = "unauthenticated"
    <3>1. cookie' = 0 /\ Gone'
      BY <1>3, <1>5, <2>1, <2>2, CookieIsTyped DEF LandMe, Gone
    <3>2. QED
      BY <1>2, <3>1, GoneIsHonest
  <2>3. CASE f.says \in {"caged", "free"}
    <3>1. /\ me' = f.says /\ cookie' = cookie /\ adrift' = adrift
          /\ lost' = IF Stale(f) THEN "crossed" ELSE lost
      BY <1>3, <1>5, <2>1, <2>3, CookieIsTyped DEF LandMe
    <3>2. ~Stale(f) => Vouches(f)
      BY <2>1, <2>3 DEF Stale, Vouches
    <3>3. Gone' => Gone
      BY <2>3, <3>1 DEF Gone
    <3>4. QED
      BY <1>1, <1>2, <2>1, <2>3, <3>1, <3>2, <3>3, SameSessionIsHonest
  <2>4. CASE f.says = "failed"
    <3>1. cookie' = cookie /\ me' \in {me, "broken"} /\ lost' = lost /\ adrift' = adrift
      BY <1>3, <1>5, <2>1, <2>4, CookieIsTyped DEF LandMe, Stale
    <3>2. (Believed' => Believed) /\ (Gone' => Gone)
      BY <3>1 DEF Believed, Gone, SignedIn
    <3>3. QED
      BY <1>1, <1>2, <2>1, <3>1, <3>2, SameSessionIsHonest
  <2>5. QED
    BY <1>1, <2>1, <2>2, <2>3, <2>4 DEF Sensible
<1>6. CASE LandLogin(f)
  <2>1. f.do = "login" /\ cookie' = Cookie(f) /\ ~WillTell(f)
    BY <1>6 DEF LandLogin, WillTell
  <2>2. CASE f.says \in {"caged", "free"}
    <3>1. /\ cookie' = f.gives /\ me' = f.says /\ f.gives \in 1..issued /\ adrift' = FALSE
          /\ lost' = IF f.gives \in live THEN "no" ELSE "ended"
      BY <1>1, <1>3, <1>6, <2>1, <2>2, CookieIsTyped DEF LandLogin, Sensible
    <3>2. NobodyHasNoCookie' /\ SomebodyHasACookie' /\ LiveOrSoonTold'
      BY <1>1, <2>2, <3>1 DEF Gone, NobodyHasNoCookie, SomebodyHasACookie, LiveOrSoonTold
    <3>3. QED
      BY <1>2, <3>2 DEF Honest
  <2>3. CASE f.says \notin {"caged", "free"}
    <3>1. cookie' = cookie /\ Redrawn /\ lost' = lost
      BY <1>3, <1>6, <2>1, <2>3, CookieIsTyped DEF LandLogin
    <3>2. (Believed' => Believed) /\ (Gone' => Gone)
      BY <3>1, RedrawnBelievesNoMore
    <3>3. QED
      BY <1>1, <1>2, <2>1, <3>1, <3>2, SameSessionIsHonest
  <2>4. QED
    BY <2>2, <2>3
<1>7. CASE LandLogout(f) /\ f.says # "done"
  <2>1. cookie' = cookie /\ Redrawn /\ lost' = lost /\ ~WillTell(f)
    BY <1>7 DEF LandLogout, WillTell
  <2>2. (Believed' => Believed) /\ (Gone' => Gone)
    BY <2>1, RedrawnBelievesNoMore
  <2>3. QED
    BY <1>1, <1>2, <2>1, <2>2, SameSessionIsHonest
<1>8. CASE LandChange(f)
  <2>1. /\ f.do = "change" /\ cookie' = Cookie(f)
        /\ IF f.says = "free" THEN me' = "free" /\ adrift' = FALSE ELSE Redrawn
        /\ f.says = "unauthenticated" => lost' \in {"refused", "crossed"}
        /\ f.says # "unauthenticated" => lost' = IF Stale(f) THEN "crossed" ELSE lost
    BY <1>8 DEF LandChange, Stale
  <2>2. CASE f.says = "unauthenticated"
    <3>1. cookie' = 0 /\ lost' \in {"refused", "crossed"}
      BY <1>3, <2>1, <2>2, CookieIsTyped
    <3>2. QED
      BY <1>2, <3>1, GoneIsHonest
  <2>3. CASE f.says # "unauthenticated" /\ Stale(f)
    <3>1. cookie' = cookie /\ lost' = "crossed" /\ (Gone' => Gone)
      BY <1>3, <2>1, <2>3, CookieIsTyped, RedrawnBelievesNoMore DEF Gone
    <3>2. NobodyHasNoCookie' /\ SomebodyHasACookie' /\ LiveOrSoonTold'
      BY <3>1 DEF Honest, NobodyHasNoCookie, SomebodyHasACookie, LiveOrSoonTold
    <3>3. QED
      BY <1>2, <3>2 DEF Honest
  <2>4. CASE f.says # "unauthenticated" /\ ~Stale(f)
    <3>1. cookie' = cookie /\ lost' = lost
      BY <1>3, <2>1, <2>4, CookieIsTyped
    <3>2. ~WillTell(f) /\ (f.says = "free" => Vouches(f))
      BY <2>1, <2>4 DEF Stale, WillTell, Vouches
    <3>3. Believed' => (Believed \/ Vouches(f))
      BY <2>1, <3>2, RedrawnBelievesNoMore
    <3>4. Gone' => Gone
      BY <2>1, RedrawnBelievesNoMore DEF Gone
    <3>5. QED
      BY <1>1, <1>2, <3>1, <3>2, <3>3, <3>4, SameSessionIsHonest
  <2>5. QED
    BY <2>2, <2>3, <2>4
<1>9. CASE LandRefused(f) /\ f.says = "mustChange"
  <2>1. /\ cookie' = cookie /\ lost' = lost /\ adrift' = adrift
        /\ me' = IF SignedIn /\ ~adrift THEN "caged" ELSE me
        /\ ~WillTell(f)
    BY <1>9 DEF LandRefused, WillTell
  <2>2. Believed' => Believed
    BY <2>1 DEF Believed, SignedIn
  <2>3. Gone' => Gone
    BY <2>1 DEF Gone
  <2>4. QED
    BY <1>1, <1>2, <2>1, <2>2, <2>3, SameSessionIsHonest
<1>10. QED
  BY <1>4, <1>5, <1>6, <1>7, <1>8, <1>9 DEF LandAuth, LandLogout, LandRefused

LEMMA NextIsHonest ==
  ASSUME TypeOK, TypeOK', Honest, [Next]_vars
  PROVE  Honest'
<1>1. CASE UNCHANGED vars
  <2>1. UNCHANGED <<server, cookie, me, adrift, lost>> /\ flights' = flights
    BY <1>1 DEF vars, sessionVars, server
  <2>2. QED
    BY <2>1, SameBelief, QuietIsHonest DEF Carried, Same
<1>2. CASE \/ \E f \in flights : LandRead(f) \/ LandWrite(f)
           \/ Draw \/ Walk
           \/ \E do, on : AsksAny(do, on)
           \/ Opens \/ Done
  <2>1. /\ UNCHANGED <<server, cookie, me, adrift, lost>> /\ Carried(flights)
        /\ \A f \in flights : f.do \in AuthWrites => f \in flights'
    BY <1>2, BrowserCarries
  <2>2. QED
    BY <2>1, SameBelief, QuietIsHonest
<1>3. QED
  BY <1>1, <1>2, Steps, ServeIsHonest, LoseIsHonest, ElsewhereIsHonest, LoadIsHonest,
     LandAuthIsHonest, AsksSignIsHonest

-----------------------------------------------------------------------------
(* The dialogs and what is in the air for them *)

OnThePage(g) == g.do = "read" \/ (g.heard /\ g.do \in OfPage)

LEMMA SubjectsAre ==
  /\ Subject("deleteTransaction") = page.deleting
  /\ Subject("detachDocument") = page.removing
  /\ Subject("attachDocument") = page.attaching
  /\ OfPage = {"deletePayout", "deleteTransaction", "detachDocument", "attachDocument"}
  BY DEF Subject, OfPage

LEMMA SubjectsAreNext ==
  /\ Subject("deleteTransaction")' = page'.deleting
  /\ Subject("detachDocument")' = page'.removing
  /\ Subject("attachDocument")' = page'.attaching
  BY DEF Subject

SamePage(do) ==
  /\ do = "deletePayout" => page'.asking = page.asking
  /\ do = "deleteTransaction" => page'.deleting = page.deleting
  /\ do = "detachDocument" => page'.removing = page.removing
  /\ do = "attachDocument" => page'.attaching = page.attaching

(* What is asked stays asked, of the same page, for as long as it is heard. *)
LEMMA StillBusy ==
  ASSUME Busy,
         \A g \in flights' :
           OnThePage(g) => (PayoutPage' /\ g \in flights /\ SamePage(g.do))
  PROVE  Busy'
<1>1. ASSUME NEW g \in flights', g.heard, g.do \in OfPage
      PROVE  /\ PayoutPage' /\ g \in flights
             /\ g.do = "deletePayout" => page'.asking
             /\ g.do # "deletePayout" => Subject(g.do)' = g.on
  <2>1. PayoutPage' /\ g \in flights /\ SamePage(g.do)
    BY <1>1 DEF OnThePage
  <2>2. /\ g.do = "deletePayout" => page.asking
        /\ g.do # "deletePayout" => Subject(g.do) = g.on
    BY <1>1, <2>1 DEF Busy, HeardOnThePage, BusyNamesWhatGoes
  <2>3. QED
    BY <1>1, <2>1, <2>2, SubjectsAre, SubjectsAreNext DEF SamePage
<1>2. BusyNamesWhatGoes'
  BY <1>1 DEF BusyNamesWhatGoes
<1>3. HeardOnThePage'
  BY <1>1 DEF HeardOnThePage, OnThePage
<1>4. OneAtATime'
  BY <1>1 DEF OneAtATime, Busy
<1>5. QED
  BY <1>2, <1>3, <1>4 DEF Busy

LEMMA BusyIsOnThePage ==
  ASSUME Busy, NEW f \in flights, OnThePage(f)
  PROVE  PayoutPage
  BY DEF Busy, HeardOnThePage, OnThePage

LEMMA KeptIsBusy ==
  ASSUME TypeOK, Busy, KeepsDialogs,
         \A g \in flights' : OnThePage(g) => (PayoutPage' /\ g \in flights)
  PROVE  Busy'
<1>1. ASSUME NEW g \in flights', OnThePage(g)
      PROVE  PayoutPage' /\ g \in flights /\ SamePage(g.do)
  <2>1. PayoutPage' /\ g \in flights /\ PayoutPage
    BY <1>1, BusyIsOnThePage
  <2>2. QED
    BY <2>1 DEF KeepsDialogs, SamePage
<1>2. QED
  BY <1>1, StillBusy

LEMMA SendsHeard ==
  ASSUME NEW fs \in SUBSET Flights, Sends(fs), NEW g \in flights', OnThePage(g)
  PROVE  PayoutPage' /\ g \in fs
  BY HeldKeeps DEF Sends, OnThePage

LEMMA LandAuthIsBusy ==
  ASSUME TypeOK, Busy, NEW f \in flights, LandAuth(f), Refused(f)
  PROVE  Busy'
<1>0. KeepsDialogs
  BY RefusedIsTyped
<1>1. /\ flights \subseteq Flights /\ Landed(f) \subseteq flights
      /\ Cleared(Landed(f)) \subseteq flights /\ Request("me", Nothing) \in Flights
      /\ ~OnThePage(Request("me", Nothing))
  BY RequestIsTyped DEF TypeOK, Landed, Cleared, Kinds, Reads, OnThePage, Request, OfPage
<1> DEFINE more == Landed(f) \cup {Request("me", Nothing)}
<1>2. ASSUME NEW fs \in {Landed(f), Cleared(Landed(f)), more}, Sends(fs)
      PROVE  Busy'
  <2>1. fs \subseteq Flights /\ \A g \in fs : OnThePage(g) => g \in flights
    BY <1>1
  <2> HIDE DEF more
  <2>2. QED
    BY <1>0, <1>2, <2>1, SendsHeard, KeptIsBusy
<1>3. CASE SignedOutUnseen(f)
  <2>1. UNCHANGED <<me, stack, at>> /\ flights' = Cleared(Landed(f))
    BY <1>3 DEF SignedOutUnseen, place
  <2>2. \A g \in flights' : OnThePage(g) => (PayoutPage' /\ g \in flights)
    BY <1>1, <2>1, BusyIsOnThePage, PageStays
  <2>3. QED
    BY <1>0, <2>2, KeptIsBusy
<1>4. Landed(f) \cup {} = Landed(f)
  OBVIOUS
<1>5. (\E fs \in {Landed(f), Cleared(Landed(f)), more} : Sends(fs))
      \/ SignedOutUnseen(f)
  BY <1>4 DEF LandAuth, LandMe, LandLogin, LandLogout, LandChange, LandRefused, SignedOutEverywhere
<1> HIDE DEF more
<1>6. QED
  BY <1>2, <1>3, <1>5

LEMMA LandWriteIsBusy ==
  ASSUME TypeOK, Busy, NEW f \in flights, LandWrite(f)
  PROVE  Busy'
<1>1. Landed(f) \subseteq Flights /\ Sends(Landed(f)) /\ page \in Pages
  BY DEF LandWrite, Landed, TypeOK
<1>2. \A g \in flights' : OnThePage(g) => (PayoutPage' /\ g \in flights /\ g # f)
  BY <1>1, SendsHeard DEF Landed
<1>3. CASE Leaves(f)
  <2>1. ~PayoutPage'
    BY <1>3, LandWriteMoves
  <2>2. QED
    BY <1>2, <2>1, StillBusy
<1>4. CASE ~Leaves(f)
  <2>1. page' = Told(f) /\ f.do \in OfPage
    BY <1>4, LandWriteMoves
  <2>2. ASSUME NEW g \in flights', OnThePage(g)
        PROVE  SamePage(g.do)
    <3>1. CASE page' = page
      BY <3>1 DEF SamePage
    <3>2. CASE f.heard /\ page' = Closed(f.do)
      <4>1. g \in flights /\ g # f /\ g.do # f.do
        BY <1>2, <2>1, <2>2, <3>2 DEF Busy, OneAtATime, OnThePage, OfPage
      <4>2. QED
        BY <1>1, <2>1, <3>2, <4>1, ClosedIsTyped DEF SamePage
    <3>3. QED
      BY <2>1, <3>1, <3>2 DEF Told
  <2>3. QED
    BY <1>2, <2>2, StillBusy
<1>5. QED
  BY <1>3, <1>4

LEMMA LandReadIsBusy ==
  ASSUME TypeOK, Busy, NEW f \in flights, LandRead(f)
  PROVE  Busy'
<1>1. /\ UNCHANGED <<me, stack, at>> /\ flights' \subseteq flights /\ page \in Pages
      /\ \E t : page' = [page EXCEPT !.trail = t]
  BY DEF LandRead, Landed, auth, place, TypeOK
<1>2. \A do : SamePage(do)
  BY <1>1 DEF SamePage, Pages
<1>3. QED
  BY <1>1, <1>2, PageStays, BusyIsOnThePage, StillBusy

(* The server's answers change what a request says, and nothing it is.      *)
LEMMA AnswersStayBusy ==
  ASSUME TypeOK, Busy, NEW f \in flights, NEW a,
         flights' = (flights \ {f}) \cup {a}, a.do = f.do, a.on = f.on, a.heard = f.heard,
         UNCHANGED <<me, stack, at, page>>
  PROVE  Busy'
<1>1. /\ PayoutPage' = PayoutPage
      /\ \A do \in OfPage \ {"deletePayout"} : Subject(do)' = Subject(do)
  BY PageStays, SubjectsAre, SubjectsAreNext
<1>2. BusyNamesWhatGoes'
  BY <1>1 DEF Busy, BusyNamesWhatGoes
<1>3. HeardOnThePage'
  BY <1>1 DEF Busy, HeardOnThePage
<1>4. OneAtATime'
  BY DEF Busy, OneAtATime
<1>5. QED
  BY <1>2, <1>3, <1>4 DEF Busy

LEMMA ServeIsBusy ==
  ASSUME TypeOK, Busy, NEW f \in flights, Serve(f) \/ Lose(f), UNCHANGED page
  PROVE  Busy'
<1>1. f \in Flights /\ UNCHANGED <<me, stack, at>>
  BY DEF TypeOK, Serve, Lose, auth, place
<1>2. ASSUME NEW answer, Says(f, answer)
      PROVE  Busy'
  <2>1. PICK a : a = [f EXCEPT !.says = answer]
    OBVIOUS
  <2>2. a.do = f.do /\ a.on = f.on /\ a.heard = f.heard
    BY <1>1, <2>1 DEF Flights
  <2>3. QED
    BY <1>1, <1>2, <2>1, <2>2, AnswersStayBusy DEF Says
<1>3. CASE flights' = (flights \ {f}) \cup {[f EXCEPT !.says = Flag, !.gives = issued']}
  <2>1. PICK a : a = [f EXCEPT !.says = Flag, !.gives = issued']
    OBVIOUS
  <2>2. a.do = f.do /\ a.on = f.on /\ a.heard = f.heard
    BY <1>1, <2>1 DEF Flights
  <2>3. QED
    BY <1>1, <1>3, <2>1, <2>2, AnswersStayBusy
<1>4. (\E answer : Says(f, answer))
      \/ flights' = (flights \ {f}) \cup {[f EXCEPT !.says = Flag, !.gives = issued']}
  BY DEF Serve, Lose, Refuse, ServeMe, ServeLogin, ServeLogout, ServeChange, ServePage
<1>5. QED
  BY <1>2, <1>3, <1>4

LEMMA AsksAnyIsBusy ==
  ASSUME TypeOK, Busy, NEW do, NEW on, AsksAny(do, on)
  PROVE  Busy'
<1>1. /\ flights' = flights \cup {Request(do, on)} /\ UNCHANGED <<me, stack, at>>
      /\ page \in Pages
  BY DEF AsksAny, Asks, auth, place, TypeOK
<1>2. PICK r : r = Request(do, on)
  OBVIOUS
<1>3. r.do = do /\ r.on = on /\ r.heard = TRUE
  BY <1>2 DEF Request
<1>4. PayoutPage' = PayoutPage /\ \A d \in OfPage \ {"deletePayout"} : Subject(d)' = Subject(d)
  BY <1>1, PageStays, SubjectsAre, SubjectsAreNext DEF AsksAny, Pages
<1>5. page'.asking = page.asking
  BY <1>1 DEF AsksAny, Pages
<1>6. do \in OfPage => (PayoutPage /\ on = Subject(do) /\ on # Nothing /\ ~Pending(do))
  BY ScreensConstants DEF AsksAny, Open
<1>7. do = "read" => PayoutPage
  BY DEF AsksAny
<1>8. do = "deletePayout" => page.asking
  BY <1>6 DEF Subject, OfPage
<1>9. BusyNamesWhatGoes'
  BY <1>1, <1>2, <1>3, <1>4, <1>5, <1>6, <1>8 DEF Busy, BusyNamesWhatGoes
<1>10. HeardOnThePage'
  BY <1>1, <1>2, <1>3, <1>4, <1>5, <1>6, <1>7, <1>8 DEF Busy, HeardOnThePage
<1>11. OneAtATime'
  BY <1>1, <1>2, <1>3, <1>6 DEF Busy, OneAtATime, Pending
<1>12. QED
  BY <1>9, <1>10, <1>11 DEF Busy

LEMMA AsksSignIsBusy ==
  ASSUME TypeOK, Busy, NEW do, NEW on, AsksSign(do, on)
  PROVE  Busy'
<1>1. PICK fs \in SUBSET Flights :
        /\ Sends(fs) /\ flights \subseteq fs
        /\ \A g \in fs : g \in flights \/ g = Request(do, on) \/ g = Request("me", Nothing)
  BY SignsSend
<1>2. ~OnThePage(Request(do, on)) /\ ~OnThePage(Request("me", Nothing))
  BY DEF OnThePage, Request, AsksSign, AuthWrites, OfPage
<1>3. KeepsDialogs
  BY KeptIsTyped DEF AsksSign
<1>4. \A g \in flights' : OnThePage(g) => (PayoutPage' /\ g \in flights)
  BY <1>1, <1>2, SendsHeard
<1>5. QED
  BY <1>3, <1>4, KeptIsBusy

(* A dialog opens where none is open, and one that is not asked about is    *)
(* what nothing in the air belongs to; one that is busy cannot be cancelled. *)
LEMMA OpensIsBusy ==
  ASSUME TypeOK, FlightsMakeSense, Busy, Opens
  PROVE  Busy'
<1>1. UNCHANGED <<me, stack, at, flights>> /\ page \in Pages /\ page' \in Pages
  BY DEF Opens, auth, place, TypeOK
<1>2. ASSUME NEW g \in flights, OnThePage(g)
      PROVE  SamePage(g.do)
  <2>1. CASE g.do = "read"
    BY <2>1 DEF SamePage
  <2>2. CASE g.heard /\ g.do \in OfPage
    <3>1. g.on # Nothing /\ Pending(g.do)
      BY <2>2, ScreensConstants DEF FlightsMakeSense, Sensible, Pending
    <3>2. g.do # "deletePayout" => Subject(g.do) # Nothing
      BY <2>2, <3>1 DEF Busy, BusyNamesWhatGoes
    <3>3. CASE page.deleting = Nothing /\ page' = [page EXCEPT !.deleting = page'.deleting]
      <4>1. g.do # "deleteTransaction"
        BY <3>2, <3>3, SubjectsAre
      <4>2. /\ page'.asking = page.asking /\ page'.removing = page.removing
            /\ page'.attaching = page.attaching
        BY <1>1, <3>3 DEF Pages
      <4>3. QED
        BY <4>1, <4>2 DEF SamePage
    <3>4. CASE ~Pending("deletePayout") /\ page' = [page EXCEPT !.asking = TRUE]
      <4>1. g.do # "deletePayout"
        BY <3>1, <3>4
      <4>2. /\ page'.deleting = page.deleting /\ page'.removing = page.removing
            /\ page'.attaching = page.attaching
        BY <1>1, <3>4 DEF Pages
      <4>3. QED
        BY <4>1, <4>2 DEF SamePage
    <3>5. CASE page.removing = Nothing /\ page' = [page EXCEPT !.removing = page'.removing]
      <4>1. g.do # "detachDocument"
        BY <3>2, <3>5, SubjectsAre
      <4>2. /\ page'.asking = page.asking /\ page'.deleting = page.deleting
            /\ page'.attaching = page.attaching
        BY <1>1, <3>5 DEF Pages
      <4>3. QED
        BY <4>1, <4>2 DEF SamePage
    <3>6. CASE page.attaching = Nothing /\ page' = [page EXCEPT !.attaching = page'.attaching]
      <4>1. g.do # "attachDocument"
        BY <3>2, <3>6, SubjectsAre
      <4>2. /\ page'.asking = page.asking /\ page'.deleting = page.deleting
            /\ page'.removing = page.removing
        BY <1>1, <3>6 DEF Pages
      <4>3. QED
        BY <4>1, <4>2 DEF SamePage
    <3>7. ASSUME NEW do \in Confirms, ~Pending(do), page' = Closed(do)
          PROVE  SamePage(g.do)
      <4>1. g.do # do /\ do \in OfPage
        BY <3>1, <3>7 DEF Confirms
      <4>2. QED
        BY <1>1, <3>7, <4>1, ClosedIsTyped DEF SamePage
    <3>8. QED
      BY <3>3, <3>4, <3>5, <3>6, <3>7 DEF Opens
  <2>3. QED
    BY <1>2, <2>1, <2>2 DEF OnThePage
<1>3. QED
  BY <1>1, <1>2, PageStays, BusyIsOnThePage, StillBusy

LEMMA DoneIsBusy ==
  ASSUME TypeOK, Busy, Done
  PROVE  Busy'
<1>1. /\ UNCHANGED <<me, stack, at>> /\ page \in Pages /\ page' = Closed("attachDocument")
      /\ flights \subseteq Flights
      /\ flights' = {IF f.do = "attachDocument" THEN [f EXCEPT !.heard = FALSE] ELSE f :
                       f \in flights}
  BY DEF Done, Unheard, auth, place, TypeOK
<1>2. \A f \in flights : /\ [f EXCEPT !.heard = FALSE].heard = FALSE
                         /\ [f EXCEPT !.heard = FALSE].do = f.do
  BY <1>1 DEF Flights
<1>3. \A g \in flights' : OnThePage(g) => (g \in flights /\ g.do # "attachDocument")
  BY <1>1, <1>2 DEF OnThePage
<1>4. \A do : do # "attachDocument" => SamePage(do)
  BY <1>1, ClosedIsTyped DEF SamePage, OfPage
<1>5. QED
  BY <1>1, <1>3, <1>4, PageStays, BusyIsOnThePage, StillBusy

LEMMA DrawnIsBusy ==
  ASSUME TypeOK, Busy, Draw \/ Walk
  PROVE  Busy'
<1>1. KeepsDialogs /\ flights \subseteq Flights
  BY KeptIsTyped DEF Draw, Walk, TypeOK
<1>2. CASE Sends(flights)
  BY <1>1, <1>2, SendsHeard, KeptIsBusy
<1>3. CASE flights' = flights /\ UNCHANGED <<me, stack, at>>
  BY <1>1, <1>3, PageStays, BusyIsOnThePage, KeptIsBusy
<1>4. QED
  BY <1>2, <1>3 DEF Draw, Redirect, CarryOut, Call, Replace, Walk, Follow, GoTo, auth

LEMMA NextIsBusy ==
  ASSUME TypeOK, FlightsMakeSense, Busy, [Next]_vars
  PROVE  Busy'
<1>1. CASE UNCHANGED vars
  <2>1. UNCHANGED <<me, stack, at, page, flights>>
    BY <1>1 DEF vars, sessionVars
  <2>2. QED
    BY <2>1, PageStays, BusyIsOnThePage, StillBusy DEF SamePage
<1>2. ASSUME NEW path \in Typed, Load(path)
      PROVE  Busy'
  <2>1. \A g \in flights' : ~OnThePage(g)
    BY <1>2 DEF Load, Request, OnThePage, OfPage
  <2>2. QED
    BY <2>1, StillBusy
<1>3. CASE Elsewhere /\ UNCHANGED page
  <2>1. UNCHANGED <<me, stack, at, page, flights>>
    BY <1>3 DEF Elsewhere, place
  <2>2. QED
    BY <2>1, PageStays, BusyIsOnThePage, StillBusy DEF SamePage
<1>4. QED
  BY <1>1, <1>2, <1>3, Steps, ServeIsBusy, LandAuthIsBusy, LandReadIsBusy, LandWriteIsBusy,
     DrawnIsBusy, AsksAnyIsBusy, AsksSignIsBusy, OpensIsBusy, DoneIsBusy

-----------------------------------------------------------------------------
(* Theorems *)

LEMMA InitIsSound == Init => IInv
<1> SUFFICES ASSUME Init PROVE IInv
  OBVIOUS
<1>1. TypeOK
  BY InitIsTyped
<1>2. me = "asking" /\ adrift = FALSE /\ flights = {Request("me", Nothing)}
  BY DEF Init, SessionInit
<1>3. Request("me", Nothing).says = "unanswered" /\ Request("me", Nothing).do = "me"
      /\ Request("me", Nothing).gives = 0
  BY DEF Request
<1>4. Honest
  BY <1>2, <1>3 DEF Honest, FlightsMakeSense, Sensible, OfPage, NobodyHasNoCookie,
                    SomebodyHasACookie, LiveOrSoonTold, Relied, Vouches, Gone, Believed, SignedIn
<1>5. Busy
  BY <1>2, <1>3 DEF Busy, BusyNamesWhatGoes, HeardOnThePage, OneAtATime, OfPage
<1>6. QED
  BY <1>1, <1>4, <1>5 DEF IInv

LEMMA NextIsSound == IInv /\ [Next]_vars => IInv'
  BY NextIsTyped, NextIsHonest, NextIsBusy DEF IInv, Honest

THEOREM IInvHolds == Spec => []IInv
  BY InitIsSound, NextIsSound, PTL DEF Spec

(* Whatever lands, in any order, and wherever the tab is moved.  With       *)
(* nothing in the air a tab that shows somebody signed in has a live        *)
(* session's cookie, except after a 401 it has not drawn, a change of       *)
(* password refused by the guard, a session that ended untold, or an answer *)
(* about a session it had left.  And a busy dialog stays: about a leg or a  *)
(* link it is about what is being done; that of a payout is only open.      *)
THEOREM WhatIsShownIsSo == Spec => []TabIsSound
<1>1. IInv => TabIsSound
  BY DEF IInv, Honest, Busy, TabIsSound, TabKnowsItsSession, NobodyHasNoCookie,
         SomebodyHasACookie, LiveOrSoonTold, Relied, Gone, Believed
<1>2. QED
  BY <1>1, IInvHolds, PTL

LEMMA LandingsCloseTheirOwn ==
  ASSUME IInv, NEW f \in flights, Land(f), PayoutPage',
         NEW do \in OfPage, Subject(do) # Nothing, Subject(do)' = Nothing
  PROVE  f.do = do /\ (do # "deletePayout" => f.on = Subject(do))
<1>1. TypeOK /\ Busy /\ page \in Pages
  BY DEF IInv, TypeOK
<1>2. ~SamePage(do)
  <2>1. CASE do = "deletePayout"
    <3>1. OnPayout' \in Payouts
      BY DEF PayoutPage, OnPayout
    <3>2. OnPayout' # Nothing
      BY <3>1, ScreensConstants DEF Targets
    <3>3. page.asking = TRUE
      BY <1>1, <2>1 DEF Subject, Pages
    <3>4. page'.asking # TRUE
      BY <2>1, <3>2 DEF Subject
    <3>5. QED
      BY <2>1, <3>3, <3>4 DEF SamePage
  <2>2. CASE do # "deletePayout"
    BY <2>2, SubjectsAre, SubjectsAreNext DEF SamePage
  <2>3. QED
    BY <2>1, <2>2
<1>3. CASE LandAuth(f) /\ Refused(f)
  <2>1. CASE PayoutPage
    BY <1>1, <1>2, <1>3, <2>1, RefusedIsTyped DEF KeepsDialogs, SamePage
  <2>2. CASE ~PayoutPage
    <3>1. page = Fresh
      BY <2>2, <1>1 DEF TypeOK
    <3>2. Subject(do) = Nothing
      BY <3>1, SubjectsAre DEF Fresh, Subject
    <3>3. QED
      BY <3>2
  <2>3. QED
    BY <2>1, <2>2
<1>4. CASE LandRead(f)
  <2>1. \E t : page' = [page EXCEPT !.trail = t]
    BY <1>4 DEF LandRead
  <2>2. QED
    BY <1>1, <1>2, <2>1 DEF SamePage, Pages
<1>5. CASE LandWrite(f)
  <2>1. page' = Told(f) /\ f.do \in OfPage
    BY <1>1, <1>5, LandWriteMoves
  <2>2. CASE page' = page
    BY <1>2, <2>2 DEF SamePage
  <2>3. CASE f.heard /\ page' = Closed(f.do)
    <3>1. f.do = do
      BY <1>1, <1>2, <2>1, <2>3, ClosedIsTyped DEF SamePage
    <3>2. QED
      BY <1>1, <2>3, <3>1 DEF Busy, BusyNamesWhatGoes
  <2>4. QED
    BY <2>1, <2>2, <2>3 DEF Told
<1>6. QED
  BY <1>3, <1>4, <1>5 DEF Land

LEMMA LandingsMoveNobody ==
  ASSUME IInv, NEW f \in flights, Land(f), Path' # Path
  PROVE  f.do = "deletePayout" /\ f.heard /\ PayoutPage /\ page.asking
<1>1. TypeOK /\ Busy
  BY DEF IInv
<1>2. ~LandRead(f) /\ ~LandAuth(f)
  <2>1. UNCHANGED <<stack, at>> => Path' = Path
    BY DEF Path
  <2>2. LandAuth(f) => UNCHANGED <<stack, at>>
    BY DEF LandAuth, LandMe, LandLogin, LandLogout, LandChange, LandRefused,
           SignedOutEverywhere, SignedOutUnseen, place
  <2>3. LandRead(f) => UNCHANGED <<stack, at>>
    BY DEF LandRead, place
  <2>4. QED
    BY <2>1, <2>2, <2>3
<1>3. LandWrite(f)
  BY <1>2 DEF Land
<1>4. Leaves(f)
  BY <1>1, <1>3, LandWriteMoves
<1>5. QED
  BY <1>1, <1>4 DEF Leaves, Busy, HeardOnThePage, OfPage

(* An answer closes only a dialog of the kind it was asked from, about a leg *)
(* or a link only for what it was asked about; and only the answer to a     *)
(* payout's delete that is still waited for, on a page with that question   *)
(* open, moves the reader.  Which payout the page shows is not compared.    *)
THEOREM AnswersFindTheirDialog == Spec => AnswersKeepToTheirOwn
<1>1. IInv /\ [Next]_vars =>
        [\A f \in flights, do \in OfPage :
           (Land(f) /\ PayoutPage' /\ Subject(do) # Nothing /\ Subject(do)' = Nothing)
             => f.do = do /\ (do # "deletePayout" => f.on = Subject(do))]_vars
  BY LandingsCloseTheirOwn
<1>2. IInv /\ [Next]_vars =>
        [\A f \in flights :
           (Land(f) /\ Path' # Path) =>
             f.do = "deletePayout" /\ f.heard /\ PayoutPage /\ page.asking]_vars
  BY LandingsMoveNobody
<1>3. Spec => AnswersCloseTheirOwn
  BY <1>1, IInvHolds, PTL DEF Spec, AnswersCloseTheirOwn
<1>4. Spec => LateAnswersMoveNobody
  BY <1>2, IInvHolds, PTL DEF Spec, LateAnswersMoveNobody
<1>5. QED
  BY <1>3, <1>4 DEF AnswersKeepToTheirOwn
=============================================================================

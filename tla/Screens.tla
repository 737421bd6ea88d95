------------------------------ MODULE Screens ------------------------------
(***************************************************************************)
(* The payout screen and its dialogs, in a tab whose session, cage and     *)
(* history may move under them (apps/web/src/routes.tsx, features/         *)
(* transactions/TransactionTree.tsx, features/payouts, features/documents).*)
(*                                                                         *)
(* The page keeps a dialog's subject as it was when it was asked about.    *)
(* Going from one payout to another by Back or Forward keeps the page and  *)
(* so its dialogs; every other move unmounts it.  A mutation belongs to    *)
(* the component that asked: its callbacks run only while that is mounted. *)
(***************************************************************************)
EXTENDS Session

CONSTANTS Legs, LegsOf   \* LegsOf[p]: the legs in the trail of payout p

VARIABLE page

vars == <<sessionVars, page>>

Targets == Legs \cup Payouts

ASSUME ScreensConstants ==
  LegsOf \in [Payouts -> SUBSET Legs] /\ Nothing \notin Targets

(* The trail is loading, failed, empty, or drawn with its legs. *)
Trails == {"pending", "failed", "empty", "tree"}
Fresh ==
  [trail |-> "pending", deleting |-> Nothing, asking |-> FALSE, removing |-> Nothing,
   attaching |-> Nothing]

(* The tree draws its dialog only with the tree; the others always do. *)
DeleteOpen == page.trail = "tree" /\ page.deleting # Nothing
Modal ==
  PayoutPage /\ (DeleteOpen \/ page.asking \/ page.removing # Nothing \/ page.attaching # Nothing)

Page(next) == page' = next /\ UNCHANGED <<server, auth, place, drawing, flights>>
Free == PayoutPage /\ Idle /\ ~Modal

-----------------------------------------------------------------------------
(* Opening a dialog *)

Offered(do) == Free /\ do \in Offers

AskDelete(leg) ==
  /\ Offered("deleteTransaction") /\ page.trail = "tree" /\ leg \in LegsOf[OnPayout]
  /\ Page([page EXCEPT !.deleting = leg])

AskPayout ==
  /\ Offered("deletePayout") /\ ~Pending("deletePayout")
  /\ Page([page EXCEPT !.asking = TRUE])

(* On a leg of the drawn trail, or on the payout itself. *)
Listed == {OnPayout} \cup IF page.trail = "tree" THEN LegsOf[OnPayout] ELSE {}

AskRemove(t) ==
  Offered("detachDocument") /\ t \in Listed /\ Page([page EXCEPT !.removing = t])
AskAttach(t) ==
  Offered("attachDocument") /\ t \in Listed /\ Page([page EXCEPT !.attaching = t])

-----------------------------------------------------------------------------
(* What each dialog is about, and whether it is drawn *)

Subject(do) ==
  CASE do = "deleteTransaction" -> page.deleting
    [] do = "deletePayout" -> IF page.asking THEN OnPayout ELSE Nothing
    [] do = "detachDocument" -> page.removing
    [] do = "attachDocument" -> page.attaching

Open(do) ==
  /\ PayoutPage /\ Subject(do) # Nothing
  /\ do = "deleteTransaction" => DeleteOpen

Closed(do) ==
  CASE do = "deleteTransaction" -> [page EXCEPT !.deleting = Nothing]
    [] do = "deletePayout" -> [page EXCEPT !.asking = FALSE]
    [] do = "detachDocument" -> [page EXCEPT !.removing = Nothing]
    [] do = "attachDocument" -> [page EXCEPT !.attaching = Nothing]

Confirms == OfPage \ {"attachDocument"}

(* ConfirmDialog: busy disables both buttons, Escape and the backdrop.      *)
Cancel(do) ==
  /\ do \in Confirms /\ Open(do) /\ Idle /\ ~Pending(do)
  /\ Page(Closed(do))

Confirm(do) ==
  /\ do \in Confirms /\ Open(do) /\ ~Pending(do)
  /\ Asks(do, Subject(do)) /\ UNCHANGED page

(* AttachDocumentForm is mounted for one target; `Done' closes it whatever  *)
(* is in the air, and what it sent is then answered to nobody.              *)
Attach ==
  /\ Open("attachDocument") /\ ~Pending("attachDocument")
  /\ Asks("attachDocument", page.attaching) /\ UNCHANGED page

Unheard(do) == {IF f.do = do THEN [f EXCEPT !.heard = FALSE] ELSE f : f \in flights}

Done ==
  /\ Open("attachDocument") /\ Idle
  /\ flights' = Unheard("attachDocument")
  /\ page' = Closed("attachDocument")
  /\ UNCHANGED <<server, auth, place, drawing>>

-----------------------------------------------------------------------------
(* The trail *)

(* Drawn again after a 401, the page finds nothing cached, and asks.        *)
Read ==
  /\ PayoutPage /\ (page.trail \in {"pending", "failed"} \/ adrift)
  /\ ~Pending("read")
  /\ Asks("read", Nothing) /\ page' = [page EXCEPT !.trail = "pending"]

LandRead(f) ==
  /\ calls = {} /\ f.do = "read" /\ f.says \in {"done", "failed"}
  /\ \E t \in IF f.says = "done" THEN {"tree", "empty"} ELSE {"failed"} :
       page' = [page EXCEPT !.trail = t]
  /\ flights' = Landed(f)
  /\ UNCHANGED <<server, auth, place, drawing>>

ToldAnyway(f) == IF f.says = "done" THEN Closed(f.do) ELSE page

(* DeletePayoutButton.onDeleted: away, by replacing the entry. *)
Leaves(f) == f.do = "deletePayout" /\ f.says = "done" /\ f.heard

(* A failure leaves the dialog open, its question still live. *)
Told(f) == IF f.heard /\ f.says = "done" THEN Closed(f.do) ELSE page

LandWrite(f) ==
  /\ calls = {} /\ f.do \in OfPage /\ f.says \in {"done", "failed"}
  /\ IF Leaves(f) THEN stack' = Replaced(Entry(ListPath)) ELSE UNCHANGED stack
  /\ page' = IF Leaves(f) THEN Fresh ELSE Told(f)
  /\ UNCHANGED <<server, auth, at, due, calls, chose>>
  /\ Drawn
  /\ Sends(Landed(f))

-----------------------------------------------------------------------------
(* A step of the session keeps the page if it is still the payout page: its *)
(* trail is then another payout's, cached or not.                           *)
Kept ==
  IF ~(PayoutPage /\ PayoutPage') THEN page' = Fresh
  ELSE IF Path' = Path THEN UNCHANGED page
  ELSE page' \in {[page EXCEPT !.trail = t] : t \in {"pending", "tree"}}

(* A read that is refused on a page that stays has failed, as any other.    *)
Refused(f) ==
  IF f.do = "read" /\ PayoutPage' THEN page' = [page EXCEPT !.trail = "failed"] ELSE Kept

Land(f) == (LandAuth(f) /\ Refused(f)) \/ LandRead(f) \/ LandWrite(f)
Answer(f) == (Serve(f) \/ Lose(f)) /\ UNCHANGED page

Draw == (Redirect \/ CarryOut \/ Call) /\ Kept

(* The rail leads to the shell's screens; the list to a payout, a payout to *)
(* its form, and the form back.                                             *)
Links ==
  {ListPath, AccountPath}
  \cup (IF Path = ListPath THEN {PayoutPath(p) : p \in Payouts} ELSE {})
  \cup (IF PayoutPage THEN {RecordPath(OnPayout)} ELSE {})
  \cup {PayoutPath(p) : p \in {q \in Payouts : Path = RecordPath(q)}}

Walk ==
  /\ \/ ~Modal /\ \E path \in Links \ {Path} : Follow(path)
     \/ \E n \in DOMAIN stack : GoTo(n)
  /\ Kept

Sign == (SubmitSignIn \/ SubmitChange \/ (~Modal /\ SignOut)) /\ Kept

Talk ==
  \/ \E leg \in Legs : AskDelete(leg)
  \/ AskPayout
  \/ \E t \in Targets : AskRemove(t) \/ AskAttach(t)
  \/ \E do \in OfPage : Cancel(do) \/ Confirm(do)
  \/ Attach \/ Done \/ Read

Init == SessionInit /\ page = Fresh
Counted == asked' = IF Cardinality(flights') > Cardinality(flights) THEN asked + 1 ELSE asked

Next ==
  \/ \E path \in Typed : Load(path) /\ Kept /\ asked' = asked + 1
  \/ /\ \/ \E f \in flights : Answer(f) \/ Land(f)
        \/ Draw \/ Walk \/ Sign \/ Talk
        \/ Elsewhere /\ UNCHANGED page
     /\ Counted

(* The browser draws, and carries out what drawing and answers ask for. The *)
(* network and the reader need do nothing.                                  *)
Fairness == WF_vars(Draw /\ Counted)

Spec == Init /\ [][Next]_vars /\ Fairness

-----------------------------------------------------------------------------
(* Properties *)

Flights ==
  [do : Kinds, on : Targets \cup Paths \cup {Nothing}, cookie : 0..MaxSession,
   says : {"unanswered", "caged", "free", "done", "unauthenticated", "wrongPassword",
           "mustChange", "failed"},
   gives : 0..MaxSession, heard : BOOLEAN]
Entries == [path : Paths, from : Paths \cup {Nothing}]
Pages ==
  [trail : Trails, deleting : Legs \cup {Nothing}, asking : BOOLEAN,
   removing : Targets \cup {Nothing}, attaching : Targets \cup {Nothing}]

(* The state is of its types, at most one redirect is due, and a page that  *)
(* is not drawn remembers nothing: no dialog outlives its page or session.  *)
TypeOK ==
  /\ live \subseteq 1..issued /\ issued \in 0..MaxSession /\ mustChange \in BOOLEAN
  /\ cookie \in 0..issued
  /\ me \in {"asking", "nobody", "broken", "caged", "free"}
  /\ stack \in Seq(Entries) /\ Len(stack) <= MaxHistory /\ at \in DOMAIN stack
  /\ due \subseteq Entries /\ Cardinality(due) <= 1 /\ calls \subseteq Paths
  /\ wasCaged \in {"unmounted", "yes", "no"}
  /\ chose \in BOOLEAN /\ adrift \in BOOLEAN
  /\ lost \in {"no", "ended", "refused", "crossed"}
  /\ flights \subseteq Flights
  /\ page \in Pages /\ (~PayoutPage => page = Fresh)

(* With nothing in the air, a tab that shows somebody signed in holds a     *)
(* live session's cookie, unless a 401 has been drawn by nobody yet; it     *)
(* holds some cookie if the session ended where this tab is not told; and   *)
(* one that shows nobody, or was refused, holds none (queryClient.ts's 401  *)
(* handler, AuthProvider's writes, guards.ts's clear).                      *)
TabKnowsItsSession ==
  flights = {} =>
    /\ SignedIn /\ ~adrift /\ lost = "no" => cookie \in live
    /\ SignedIn /\ ~adrift /\ lost = "ended" => cookie # 0
    /\ me = "nobody" \/ adrift => cookie = 0

(* A dialog that is busy stays open; about a leg or a link, it is about     *)
(* what is being done: nothing lets a reader close it or turn it to another *)
(* in the meantime (ConfirmDialog's `busy', AttachDocumentDialog's key).    *)
BusyNamesWhatGoes ==
  \A f \in flights : f.heard /\ f.do \in OfPage =>
    IF f.do = "deletePayout" THEN page.asking ELSE Subject(f.do) = f.on

(* An answer closes only the dialog that asked it, and one about a leg or a *)
(* link only about what it asked: an upload answered after `Done' does not  *)
(* close the form of another leg.                                           *)
AnswersCloseTheirOwn ==
  [][\A f \in flights, do \in OfPage :
       (Land(f) /\ PayoutPage' /\ Subject(do) # Nothing /\ Subject(do)' = Nothing)
         => f.do = do /\ (do # "deletePayout" => f.on = Subject(do))]_vars

(* No answer moves a reader but that to a payout's delete, and it only one  *)
(* who has a payout's delete in front of them, and waits for an answer to   *)
(* it (DeletePayoutButton's onDeleted).                                     *)
LateAnswersMoveNobody ==
  [][\A f \in flights :
       (Land(f) /\ Path' # Path) =>
         f.do = "deletePayout" /\ f.heard /\ PayoutPage /\ page.asking]_vars

(* Every chain of redirects ends: the route guards never send a reader in   *)
(* circles (RequireAuth.tsx: "would redirect to itself forever").           *)
NavigationSettles == []<>(due = {} /\ Redirects = {})

(* Whoever chooses a password in the cage arrives at the payouts, and stays *)
(* (ChangePasswordScreen.tsx: "being dropped on account settings").         *)
ChosenArrives == chose ~> (~chose \/ (Path = ListPath /\ Idle))

(* endpoints.ts: a broken server "is not the same as being signed out and   *)
(* must not render as a sign-in screen".                                    *)
BrokenIsNotSignedOut == \A entry \in due : me = "broken" => entry.path # SignInPath

(* queryClient.ts: a 401 to change-credentials "means `that is not your     *)
(* current password'", and is not a session expiring.                       *)
ChangeRefusalIsThePassword ==
  \A f \in flights : f.do = "change" => f.says # "unauthenticated"

(* RequireAuth.tsx: a stale tab is "impossible to sit on: the moment it     *)
(* asks the server for anything, the answer routes it here".                *)
StaleTabsAreRouted == flights = {} /\ SignedIn => cookie # 0

(* DeletePayoutButton's question names the payout that is being deleted, and *)
(* its answer moves a reader of that payout.                                 *)
PayoutDialogIsItsOwn ==
  \A f \in flights : f.heard /\ f.do = "deletePayout" => PayoutPage /\ f.on = OnPayout

(* routes.tsx: `replace', "so Back does not return to the screen of a       *)
(* payout that is gone".                                                    *)
BackReturnsToNoneThatIsGone ==
  [][\A p \in Payouts :
       (Path = PayoutPath(p) /\ \E f \in flights : Leaves(f) /\ f.on = p /\ Land(f))
         => \A n \in 1..at' : stack'[n].path \notin {PayoutPath(p), RecordPath(p)}]_vars

(* What the tab shows is what is the case: who is signed in, by what it was *)
(* told, and which leg or link is being deleted, by its dialog.             *)
TabIsSound == TypeOK /\ TabKnowsItsSession /\ BusyNamesWhatGoes

(* An answer finds the dialog it belongs to or changes nothing on screen.   *)
AnswersKeepToTheirOwn == AnswersCloseTheirOwn /\ LateAnswersMoveNobody
=============================================================================

------------------------------ MODULE ChainForm ------------------------------
(***************************************************************************)
(* The chain fields of a leg's form, and the form around them: a link that *)
(* fills two addresses and an amount from what the lookup answers          *)
(* (ChainFieldset, RecordTransactionForm, EditTransactionDialog).          *)
(*                                                                         *)
(* A lookup starts 600 ms after the link last changed, or at once when the *)
(* reader asks, and is answered while the reader goes on typing.  What the *)
(* callback sees of the fieldset is current (refs); what it sees of the    *)
(* form is as it was rendered when the lookup was armed (a closure).       *)
(*                                                                         *)
(* Of the two sides of the leg one is modelled, each side being judged on  *)
(* its own currency; of the form's other fields, none: they meet only the  *)
(* save.                                                                   *)
(***************************************************************************)
EXTENDS ChainLookup

CONSTANTS
  Pasted,     \* links the reader types or pastes
  Typings,    \* what the reader types into a field, each at most once
  Currencies, \* currencies of the accounts offered, tokens among them
  MaxEdits    \* bound: changes the reader makes

(* What the reader types is told apart from what was recorded before and    *)
(* from what an answer fills.                                               *)
ASSUME ChainFormConstants ==
  /\ Pasted \subseteq Links \cup {NoLink}
  /\ "recorded" \notin Typings /\ "reader" \notin Txs

Blank == <<>>
Typed(v) == <<"reader", v>>
Ends == {"from", "to"}

VARIABLES
  link,      \* explorerUrl
  ends,      \* fromAddress, toAddress
  mine,      \* filled: what was last put there
  asked,     \* the link last looked up
  timer,     \* the pause, with the form as rendered when it began
  call,      \* the request whose answer is awaited, and that same rendering
  dialog,    \* the form edits a recorded leg
  amount, filledAmount, currency, wallet, saving,
  unused,    \* of Typings
  edits,     \* so far
  typed,     \* auxiliary: addresses and amount typed since an answer landed
  wrote      \* auxiliary: the link was put there by an answer

fieldVars == <<link, ends, mine, asked, timer, call, typed, wrote>>
formVars == <<dialog, amount, filledAmount, currency, wallet, saving>>
reader == <<unused, edits>>
vars == <<fieldVars, formVars, reader, lookupVars>>

Off == [on |-> FALSE, amount |-> Blank, currency |-> "none"]
NoCall == [id |-> 0, amount |-> Blank, currency |-> "none"]
Untyped == [f \in Ends \cup {"amount"} |-> FALSE]

Tokens == {TokenOf[x] : x \in Txs} \ {NoToken}
MovesOnChain(c, w) == w \/ c \in Tokens

(* The effect, run when the link or the disabled flag changes.              *)
Armed(l, known, disabled, a, c) ==
  IF disabled \/ l \in {NoLink, known} THEN Off
  ELSE [on |-> TRUE, amount |-> a, currency |-> c]

Edits == edits < MaxEdits /\ edits' = edits + 1
Shown == MovesOnChain(currency, wallet)

(* While it saves the dialog disables every field, the form the fieldset.   *)
Editable == ~(dialog /\ saving)

-----------------------------------------------------------------------------
(* The reader *)

EditLink(l) ==
  /\ Shown /\ ~saving /\ l # link
  /\ Edits
  /\ link' = l
  /\ wrote' = FALSE
  /\ timer' = Armed(l, asked, FALSE, amount, currency)
  /\ UNCHANGED <<ends, mine, asked, call, typed, formVars, unused, lookupVars>>

EditEnd(e) ==
  /\ Shown /\ ~saving
  /\ Edits
  /\ \/ \E v \in unused :
          /\ ends' = [ends EXCEPT ![e] = Typed(v)]
          /\ unused' = unused \ {v}
          /\ typed' = [typed EXCEPT ![e] = TRUE]
     \/ /\ ends' = [ends EXCEPT ![e] = Blank]
        /\ typed' = [typed EXCEPT ![e] = FALSE]
        /\ UNCHANGED unused
  /\ UNCHANGED <<link, mine, asked, timer, call, wrote, formVars, lookupVars>>

EditAmount ==
  /\ Editable
  /\ Edits
  /\ \E v \in unused : amount' = Typed(v) /\ unused' = unused \ {v}
  /\ typed' = [typed EXCEPT !["amount"] = TRUE]
  /\ UNCHANGED <<link, ends, mine, asked, timer, call, wrote,
                 dialog, filledAmount, currency, wallet, saving, lookupVars>>

(* Whether the fields are on screen follows the accounts and the currency.  *)
(* Taken off, the fieldset loses its refs, its pause and its callback; the  *)
(* values stay in the form.  Put back, it finds a link it never looked up.  *)
Reform(c, w) ==
  /\ currency' = c /\ wallet' = w
  /\ IF MovesOnChain(c, w) = Shown
     THEN UNCHANGED <<mine, asked, timer, call, typed, wrote>>
     ELSE /\ mine' = [e \in Ends |-> Blank]
          /\ asked' = NoLink
          /\ call' = NoCall
          /\ timer' = IF Shown THEN Off ELSE Armed(link, NoLink, saving, amount, c)
          /\ typed' = [f \in Ends \cup {"amount"} |-> f = "amount" /\ typed[f]]
          /\ wrote' = FALSE
  /\ UNCHANGED <<link, ends, dialog, amount, filledAmount, saving, unused, lookupVars>>

PickCurrency(c) == Editable /\ c # currency /\ Edits /\ Reform(c, wallet)

(* Another account: the form forgets the currency, the dialog keeps it. *)
PickAccount(w) == Editable /\ Edits /\ Reform(IF dialog THEN currency ELSE "none", w)

-----------------------------------------------------------------------------
(* The lookup *)

(* The requests of the instance are taken in order. *)
Free == {i \in DOMAIN requests : requests[i] = Idle}
Ask(a, c) ==
  \E i \in Free :
    /\ \A j \in Free : i <= j
    /\ requests' = [requests EXCEPT ![i] = Asked(link)]
    /\ call' = [id |-> i, amount |-> a, currency |-> c]
    /\ asked' = link
    /\ UNCHANGED <<hasKey, onChain, tokens>>

(* Asked once the typing stops.  An earlier call's answer is then ignored.  *)
TimerFires ==
  /\ timer.on
  /\ Ask(timer.amount, timer.currency)
  /\ timer' = Off
  /\ UNCHANGED <<link, ends, mine, typed, wrote, formVars, reader>>

(* The button, which does not stop the pause. *)
AskNow ==
  /\ Shown /\ ~saving /\ call = NoCall /\ link # NoLink
  /\ Edits
  /\ Ask(amount, currency)
  /\ UNCHANGED <<link, ends, mine, timer, typed, wrote, formVars, unused>>

Value(a, e) ==
  IF a.ends = "call" /\ e = "to" /\ a.tx \in Receiverless THEN Blank ELSE <<a.tx, a.ends>>

(* Faulty: whatever is in the fields by now. *)
FilledAnyway(a) ==
  [e \in Ends |-> IF Value(a, e) # Blank THEN Value(a, e) ELSE ends[e]]

Filled(a) ==
  [e \in Ends |->
     IF Value(a, e) # Blank /\ ends[e] \in {Blank, mine[e]} THEN Value(a, e) ELSE ends[e]]

(* Native coins are no currency of the ledger. *)
Matches(a, c) == c = "none" \/ (TokenOf[a.tx] # NoToken /\ c = TokenOf[a.tx])

(* fillFromChain, on the form as the closure has it; the ref is current.    *)
FillAmount(a) ==
  IF a.amount /\ Matches(a, call.currency) /\ call.amount \in {Blank, filledAmount}
  THEN amount' = <<a.tx, "amount">> /\ filledAmount' = <<a.tx, "amount">>
  ELSE UNCHANGED <<amount, filledAmount>>

(* Faulty: the page is put in the field and not taken as asked. *)
AskedAsTyped(a) == asked

(* The page takes the place of what is in the link, and is not looked up.   *)
AskedAfter(a) == IF link = Page(a.tx) THEN asked ELSE Page(a.tx)

Received(i) ==
  /\ requests' = [requests EXCEPT ![i] = Idle]
  /\ UNCHANGED <<hasKey, onChain, tokens>>
Landed == call # NoCall /\ Waits(call.id, "answered")

AnswerLands ==
  /\ Landed /\ requests[call.id].answer.kind = "found"
  /\ LET a == requests[call.id].answer IN
       /\ ends' = Filled(a)
       /\ link' = Page(a.tx)
       /\ asked' = AskedAfter(a)
       /\ FillAmount(a)
       /\ timer' = IF link = Page(a.tx) THEN timer
                   ELSE Armed(Page(a.tx), asked', saving, amount', currency)
       /\ wrote' = (wrote \/ link # Page(a.tx))
  /\ mine' = ends'
  /\ typed' = Untyped
  /\ call' = NoCall
  /\ Received(call.id)
  /\ UNCHANGED <<dialog, currency, wallet, saving, reader>>

(* Said in a line under the fields; nothing is filled, nothing is retried.  *)
LookupFails ==
  /\ Landed /\ requests[call.id].answer.kind # "found"
  /\ call' = NoCall
  /\ Received(call.id)
  /\ UNCHANGED <<link, ends, mine, asked, timer, typed, wrote, formVars, reader>>

(* Of a call a later one has replaced, or a fieldset that is gone. *)
Ignored(i) ==
  /\ i # call.id /\ Waits(i, "answered")
  /\ Received(i)
  /\ UNCHANGED <<fieldVars, formVars, reader>>

-----------------------------------------------------------------------------
(* Saving disables the fields, and so ends a pause; a refusal begins it     *)
(* again.  A save that succeeds closes the form.                            *)
Save ==
  /\ ~saving
  /\ Edits
  /\ saving' = TRUE
  /\ timer' = Off
  /\ UNCHANGED <<link, ends, mine, asked, call, typed, wrote,
                 dialog, amount, filledAmount, currency, wallet, unused, lookupVars>>

(* Faulty: the flag is no dependency of the effect. *)
RefusedUnarmed ==
  /\ saving
  /\ saving' = FALSE
  /\ UNCHANGED <<fieldVars, dialog, amount, filledAmount, currency, wallet, reader, lookupVars>>

SaveRefused ==
  /\ saving
  /\ saving' = FALSE
  /\ timer' = IF Shown THEN Armed(link, asked, FALSE, amount, currency) ELSE Off
  /\ UNCHANGED <<link, ends, mine, asked, call, typed, wrote,
                 dialog, amount, filledAmount, currency, wallet, reader, lookupVars>>

(* A blank form, or the dialog opened on a leg recorded with a link.        *)
Blanks == [e \in Ends |-> Blank]
Init ==
  /\ LookupInit
  /\ \/ dialog = FALSE /\ link = NoLink /\ ends = Blanks /\ amount = Blank /\ currency = "none"
     \/ /\ dialog = TRUE
        /\ link \in {Page(x) : x \in Txs}
        /\ ends \in {Blanks, [e \in Ends |-> Typed("recorded")]}
        /\ amount = Typed("recorded")
        /\ currency \in Currencies
  /\ mine = Blanks /\ asked = NoLink /\ call = NoCall /\ filledAmount = Blank
  /\ wallet = TRUE /\ saving = FALSE
  /\ timer = IF Shown THEN Armed(link, NoLink, FALSE, amount, currency) ELSE Off
  /\ unused = Typings /\ edits = 0
  /\ typed = Untyped /\ wrote = FALSE

Elsewhere == UNCHANGED <<fieldVars, formVars, reader>>

Next ==
  \/ \E l \in Pasted : EditLink(l)
  \/ \E e \in Ends : EditEnd(e)
  \/ EditAmount
  \/ \E c \in Currencies : PickCurrency(c)
  \/ \E w \in BOOLEAN : PickAccount(w)
  \/ TimerFires \/ AskNow \/ AnswerLands \/ LookupFails
  \/ \E i \in DOMAIN requests : Ignored(i)
  \/ Save \/ SaveRefused
  \/ Elsewhere /\ (\/ \E i \in DOMAIN requests : Serve(i)
                   \/ \E x \in Txs : Advance(x))

(* The pause ends, a call is answered or times out, and its answer reaches  *)
(* the page.  Nobody has to type, save or be refused.                       *)
Fairness ==
  /\ WF_vars(TimerFires)
  /\ WF_vars(AnswerLands \/ LookupFails)
  /\ \A i \in 1..MaxAsked : WF_vars((Elsewhere /\ Serve(i)) \/ Ignored(i))

Spec == Init /\ [][Next]_vars /\ Fairness

-----------------------------------------------------------------------------
(* Properties *)

Values == {Blank, Typed("recorded")} \cup {Typed(v) : v \in Typings}
            \cup (Txs \X {"own", "call", "amount"})
TypeOK ==
  /\ link \in Links \cup {NoLink} /\ asked \in Links \cup {NoLink}
  /\ ends \in [Ends -> Values] /\ mine \in [Ends -> Values]
  /\ timer \in [on : BOOLEAN, amount : Values, currency : Currencies \cup {"none"}]
  /\ call \in [id : 0..MaxAsked, amount : Values, currency : Currencies \cup {"none"}]
  /\ amount \in Values /\ filledAmount \in Values
  /\ \A i \in DOMAIN requests :
       requests[i].step \in Steps /\ requests[i].answer \in Answers

(* An answer never overwrites an address typed since the last one, however  *)
(* long it was under way (chain.tsx: "An address they typed is never        *)
(* overwritten").  The answer after that one may: it takes what it left in  *)
(* place for its own.                                                       *)
TypedEndsKept ==
  [][\A e \in Ends : AnswerLands /\ typed[e] => ends'[e] = ends[e]]_vars

(* The comment taken at its word (chain.tsx:135).                           *)
TypedEndsNeverReplaced ==
  [][\A e \in Ends :
       AnswerLands /\ ends[e] \in {Typed(v) : v \in Typings} => ends'[e] = ends[e]]_vars

(* The same said of the amount (RecordTransactionForm.tsx, EditTransaction- *)
(* Dialog.tsx: "only into a field that is empty or that this filled         *)
(* before").                                                                *)
TypedAmountKept == [][AnswerLands /\ typed["amount"] => amount' = amount]_vars

(* A page an answer put in the field is not looked up by itself (chain.tsx: *)
(* `asked' is moved with it, or the effect would look the link up again).   *)
NoEcho == wrote => ~timer.on

(* A link on screen that has not been looked up is, or is changed by the    *)
(* reader, whose changes the instance bounds: the pause is not lost to an   *)
(* answer for another link, to other fields, or to a save that was refused. *)
LinkIsAsked ==
  LET known == link \in {NoLink, asked} \/ ~Shown \/ saving IN ~known ~> known

(* A call under way ends, in an answer or in a reason (the button is off,   *)
(* and reads "Reading...", for as long).                                    *)
LookupEnds == call # NoCall ~> call = NoCall

(* The form keeps its shape, and never asks about a link of its own making. *)
FormIsSound == TypeOK /\ NoEcho

(* A link in the form is read in the end: it is asked about, and whoever    *)
(* asks is told something.                                                  *)
LinksAreRead == LinkIsAsked /\ LookupEnds
=============================================================================

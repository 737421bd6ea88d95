----------------------------- MODULE ChainProofs -----------------------------
(***************************************************************************)
(* Theorems about ChainForm and the lookups of ChainLookup it makes, for   *)
(* every set of transactions and chains, any number of requests in flight  *)
(* and any number of edits.                                                *)
(***************************************************************************)
EXTENDS ChainForm, TLAPS

Knowledge == {"unseen", "pending", "mined"}
RequestShape ==
  [link : Links \cup {NoLink}, todo : SUBSET DOMAIN Explorers, step : Steps,
   answer : Answers, then : Knowledge]

(* A chain does not forget: what it knew when it was asked it knows still,  *)
(* and while a transaction it knows is looked for, its chain is among those *)
(* left to ask.                                                             *)
Underway == {"transaction", "receipt", "token", "calls"}
Sound(r, known) ==
  /\ r.step \in Underway => r.link[1] \in Txs
  /\ r.then # "unseen" => r.link[1] \in Txs /\ known[r.link[1]] # "unseen"
  /\ r.then = "mined" => known[r.link[1]] = "mined"
  /\ r.step = "transaction" /\ r.then # "unseen" =>
       \E k \in r.todo : Explorers[k] = ChainOf[r.link[1]]
  /\ r.answer.kind = "notFound" => r.then = "unseen"
  /\ r.answer.kind = "found" => r.answer.tx = r.link[1] /\ r.answer.tx \in Txs
  /\ r.answer.kind = "found" /\ TokenOf[r.answer.tx] # NoToken /\ r.then = "mined" =>
       r.answer.ends = "own"

LookupInv ==
  /\ hasKey \in BOOLEAN
  /\ onChain \in [Txs -> Knowledge]
  /\ requests \in [1..MaxAsked -> RequestShape]
  /\ \A i \in 1..MaxAsked : Sound(requests[i], onChain)

-----------------------------------------------------------------------------
(* Asking *)

LEMMA ToldIsAnswer ==
  \A k \in {"none", "notFound", "unavailable", "unsupported"} :
    Told(k) \in Answers /\ Told(k).kind = k
BY DEF Answers, Told

LEMMA FoundIsAnswer ==
  ASSUME NEW x \in Txs, NEW e \in {"own", "call"}, NEW b \in BOOLEAN
  PROVE  /\ Found(x, e, b) \in Answers /\ Found(x, e, b).kind = "found"
         /\ Found(x, e, b).tx = x /\ Found(x, e, b).ends = e
BY DEF Answers, Found

LEMMA IdleIsSound ==
  ASSUME NEW known
  PROVE  Idle \in RequestShape /\ Sound(Idle, known)
<1>1. Idle \in RequestShape
  BY ToldIsAnswer DEF Idle, RequestShape, Steps, Knowledge, NoLink
<1>2. Idle.step = "idle" /\ Idle.then = "unseen" /\ Idle.answer.kind = "none"
  BY ToldIsAnswer DEF Idle
<1> QED
  BY <1>1, <1>2 DEF Sound, Underway

(* One request is written; the others and the chain are as they were. *)
LEMMA OneRequest ==
  ASSUME LookupInv, NEW i \in 1..MaxAsked, NEW r \in RequestShape, Sound(r, onChain),
         requests' = [requests EXCEPT ![i] = r], UNCHANGED <<hasKey, onChain>>
  PROVE  LookupInv'
BY DEF LookupInv

LEMMA LinkForms ==
  ASSUME NEW l \in Links, l # Junk
  PROVE  /\ l[1] \in Txs /\ l[2] \in {"page", "hash"} /\ l # NoLink
BY DEF Links, Page, Hash, NoLink

LEMMA AskedIsSound ==
  ASSUME LookupInv, NEW l \in Links
  PROVE  Asked(l) \in RequestShape /\ Sound(Asked(l), onChain)
<1> DEFINE readable == {k \in Candidates(l) : CanRead(Explorers[k])}
           then == IF l \in {Junk, NoLink} THEN "unseen" ELSE onChain[l[1]]
<1>1. Candidates(l) \subseteq DOMAIN Explorers
  BY DEF Candidates
<1>2. then \in Knowledge /\ (then # "unseen" => l # Junk /\ l[1] \in Txs)
  BY LinkForms DEF LookupInv, Knowledge
<1>3. ASSUME NEW todo \in SUBSET DOMAIN Explorers, NEW step \in Steps, NEW a \in Answers
      PROVE  /\ Request(l, todo, step, a) \in RequestShape
             /\ Request(l, todo, step, a).then = then
             /\ Request(l, todo, step, a).todo = todo
             /\ Request(l, todo, step, a).link = l
             /\ Request(l, todo, step, a).step = step
             /\ Request(l, todo, step, a).answer = a
  BY <1>2 DEF Request, RequestShape
<1>4. then # "unseen" => then = onChain[l[1]]
  OBVIOUS
<1> HIDE DEF then
<1>5. CASE Candidates(l) = {}
  <2>1. Asked(l) = Request(l, {}, "answered", Told("unsupported"))
    BY <1>5 DEF Asked
  <2> QED
    BY <1>2, <1>3, <1>4, <2>1, ToldIsAnswer DEF Sound, Steps, Underway
<1>6. CASE Candidates(l) # {} /\ readable = {}
  <2>1. Asked(l) = Request(l, {}, "answered", Told("unavailable"))
    BY <1>6 DEF Asked
  <2> QED
    BY <1>2, <1>3, <1>4, <2>1, ToldIsAnswer DEF Sound, Steps, Underway
<1>7. CASE Candidates(l) # {} /\ readable # {}
  <2>1. Asked(l) = Request(l, readable, "transaction", Told("none"))
    BY <1>7 DEF Asked
  <2>2. l # Junk /\ l[1] \in Txs /\ l[2] \in {"page", "hash"}
    BY <1>7, LinkForms DEF Candidates
  <2>3. \E k \in readable : Explorers[k] = ChainOf[l[1]]
    <3>1. PICK k \in DOMAIN Explorers : Explorers[k] = ChainOf[l[1]]
      BY <2>2, ChainLookupConstants
    <3>2. k \in Candidates(l)
      BY <2>2, <3>1 DEF Candidates, Alike
    <3>3. PICK j \in readable : TRUE
      BY <1>7
    <3>4. Explorers[j] = "tron" => Explorers[k] = "tron"
      BY <2>2, <3>1, <3>3 DEF Candidates, Alike
    <3>5. CanRead(Explorers[k])
      BY <3>3, <3>4 DEF CanRead
    <3> QED
      BY <3>1, <3>2, <3>5
  <2>4. readable \in SUBSET DOMAIN Explorers
    BY <1>1
  <2> HIDE DEF readable
  <2> QED
    BY <1>2, <1>3, <1>4, <2>1, <2>2, <2>3, <2>4, ToldIsAnswer DEF Sound, Steps, Underway
<1> QED
  BY <1>5, <1>6, <1>7

-----------------------------------------------------------------------------
(* Answering *)

LEMMA RequestFields ==
  ASSUME NEW r \in RequestShape
  PROVE  /\ r.link \in Links \cup {NoLink} /\ r.todo \in SUBSET DOMAIN Explorers
         /\ r.step \in Steps /\ r.answer \in Answers /\ r.then \in Knowledge
BY DEF RequestShape

(* A step that only moves the request on. *)
LEMMA ContinueIsSound ==
  ASSUME LookupInv, NEW i \in 1..MaxAsked, NEW step \in {"receipt", "token", "calls"},
         requests[i].step \in Underway, Continue(i, step), UNCHANGED <<hasKey, onChain>>
  PROVE  LookupInv'
<1>1. PICK r \in RequestShape : r = requests[i] /\ Sound(r, onChain)
  BY DEF LookupInv
<1>2. PICK n : n = [r EXCEPT !.step = step]
  OBVIOUS
<1>3. /\ n \in RequestShape
      /\ n.link = r.link /\ n.todo = r.todo /\ n.step = step /\ n.answer = r.answer
      /\ n.then = r.then
  BY <1>2 DEF RequestShape, Steps
<1>4. Sound(n, onChain)
  BY <1>1, <1>3 DEF Sound, Underway
<1>5. requests' = [requests EXCEPT ![i] = n]
  BY <1>1, <1>2 DEF Continue, LookupInv
<1> QED
  BY <1>3, <1>4, <1>5, OneRequest

LEMMA AnswerIsSound ==
  ASSUME LookupInv, NEW i \in 1..MaxAsked, NEW a \in Answers,
         requests[i].step \in Underway, Answer(i, a), UNCHANGED <<hasKey, onChain>>,
         a.kind = "notFound" => requests[i].then = "unseen",
         a.kind = "found" => a.tx = requests[i].link[1],
         a.kind = "found" /\ TokenOf[a.tx] # NoToken /\ requests[i].then = "mined" =>
           a.ends = "own"
  PROVE  LookupInv'
<1>1. PICK r \in RequestShape : r = requests[i] /\ Sound(r, onChain)
  BY DEF LookupInv
<1>2. PICK n : n = [r EXCEPT !.step = "answered", !.answer = a]
  OBVIOUS
<1>3. /\ n \in RequestShape
      /\ n.link = r.link /\ n.todo = r.todo /\ n.step = "answered" /\ n.answer = a
      /\ n.then = r.then
  BY <1>2 DEF RequestShape, Steps
<1>4. Sound(n, onChain)
  BY <1>1, <1>3 DEF Sound, Underway
<1>5. requests' = [requests EXCEPT ![i] = n]
  BY <1>1, <1>2 DEF Answer, LookupInv
<1> QED
  BY <1>3, <1>4, <1>5, OneRequest

(* Found: the transaction of the link, with ends its receipt allows. *)
LEMMA FoundIsSound ==
  ASSUME LookupInv, NEW i \in 1..MaxAsked, NEW e \in {"own", "call"}, NEW b \in BOOLEAN,
         requests[i].step \in Underway, AnswerFound(i, e, b), UNCHANGED <<hasKey, onChain>>,
         Token(i) # NoToken /\ Mined(i) => e = "own"
  PROVE  LookupInv'
<1> DEFINE x == requests[i].link[1]
           a == Found(x, e, b)
<1>1. x \in Txs /\ (requests[i].then = "mined" => onChain[x] = "mined")
  BY DEF LookupInv, Sound
<1>2. a \in Answers /\ a.kind = "found" /\ a.tx = x /\ a.ends = e
  BY <1>1, FoundIsAnswer
<1>3. Answer(i, a)
  BY DEF AnswerFound
<1>4. TokenOf[x] # NoToken /\ requests[i].then = "mined" => e = "own"
  BY <1>1 DEF Token, Mined
<1> HIDE DEF a, x
<1>5. a.tx = requests[i].link[1]
  BY <1>2 DEF x
<1> QED
  BY <1>2, <1>3, <1>4, <1>5, AnswerIsSound

LEMMA NotThereKeeps == ASSUME LookupInv, NEW i \in 1..MaxAsked, NotThere(i) PROVE LookupInv'
<1>1. PICK r \in RequestShape : r = requests[i] /\ Sound(r, onChain)
  BY DEF LookupInv
<1>2. PICK rest : rest = r.todo \ {Asking(i)}
  OBVIOUS
<1>3. rest \in SUBSET DOMAIN Explorers
  BY <1>2, RequestFields
<1>4. r.step = "transaction" /\ r.link[1] \in Txs
  BY <1>1 DEF NotThere, Waits, Sound, Underway
<1>5. r.then # "unseen" => \E k \in rest : Explorers[k] = ChainOf[r.link[1]]
  <2> SUFFICES ASSUME r.then # "unseen" PROVE \E k \in rest : Explorers[k] = ChainOf[r.link[1]]
    OBVIOUS
  <2>1. PICK k \in r.todo : Explorers[k] = ChainOf[r.link[1]]
    BY <1>1, <1>4 DEF Sound
  <2>2. onChain[r.link[1]] # "unseen"
    BY <1>1 DEF Sound
  <2>3. Explorers[Asking(i)] # ChainOf[r.link[1]]
    BY <1>1, <2>2 DEF NotThere, Hears, Chain
  <2> QED
    BY <1>2, <2>1, <2>3
<1>6. PICK n : n = [r EXCEPT !.todo = rest,
                             !.step = IF rest = {} THEN "answered" ELSE @,
                             !.answer = IF rest = {} THEN Told("notFound") ELSE @]
  OBVIOUS
<1>7. n = [link |-> r.link, todo |-> rest,
           step |-> IF rest = {} THEN "answered" ELSE r.step,
           answer |-> IF rest = {} THEN Told("notFound") ELSE r.answer, then |-> r.then]
  BY <1>6 DEF RequestShape
<1>8. n \in RequestShape
  BY <1>3, <1>7, RequestFields, ToldIsAnswer DEF RequestShape, Steps
<1>9. Sound(n, onChain)
  <2>1. CASE rest = {}
    <3>1. /\ n.link = r.link /\ n.step = "answered" /\ n.then = r.then
          /\ n.answer = Told("notFound")
      BY <1>7, <2>1
    <3>2. r.then = "unseen" /\ n.answer.kind = "notFound"
      BY <1>5, <2>1, <3>1, ToldIsAnswer
    <3> QED
      BY <3>1, <3>2 DEF Sound, Underway
  <2>2. CASE rest # {}
    <3>1. /\ n.link = r.link /\ n.step = r.step /\ n.then = r.then
          /\ n.answer = r.answer /\ n.todo = rest
      BY <1>7, <2>2
    <3> QED
      BY <1>1, <1>5, <3>1 DEF Sound
  <2> QED
    BY <2>1, <2>2
<1>10. requests' = [requests EXCEPT ![i] = n] /\ UNCHANGED <<hasKey, onChain>>
  BY <1>1, <1>2, <1>6 DEF NotThere, LookupInv
<1> QED
  BY <1>8, <1>9, <1>10, OneRequest

LEMMA ServeKeeps == ASSUME LookupInv, NEW i \in 1..MaxAsked, Serve(i) PROVE LookupInv'
<1>1. CASE Unavailable(i)
  <2>1. /\ requests[i].step \in Underway /\ Answer(i, Told("unavailable"))
        /\ UNCHANGED <<hasKey, onChain>>
    BY <1>1 DEF Unavailable, Underway
  <2> QED
    BY <2>1, ToldIsAnswer, AnswerIsSound
<1>2. CASE NotThere(i)
  BY <1>2, NotThereKeeps
<1>3. CASE ReadTransaction(i)
  BY <1>3, ContinueIsSound DEF ReadTransaction, Waits, Underway
<1>4. CASE ReadTron(i)
  <2>1. requests[i].step \in Underway /\ UNCHANGED <<hasKey, onChain>>
    BY <1>4 DEF ReadTron, Waits, Underway
  <2>2. CASE Mined(i) /\ Token(i) # NoToken
    <3>1. PICK b \in BOOLEAN : AnswerFound(i, "own", b)
      BY <1>4, <2>2 DEF ReadTron
    <3> QED
      BY <2>1, <3>1, FoundIsSound
  <2>3. CASE ~(Mined(i) /\ Token(i) # NoToken)
    <3>1. AnswerFound(i, "call", FALSE)
      BY <1>4, <2>3 DEF ReadTron
    <3> QED
      BY <2>1, <2>3, <3>1, FoundIsSound
  <2> QED
    BY <2>2, <2>3
<1>5. CASE ReadReceipt(i)
  <2>1. requests[i].step \in Underway /\ UNCHANGED <<hasKey, onChain>>
    BY <1>5 DEF ReadReceipt, Waits, Underway
  <2>2. CASE Token(i) = NoToken
    <3>1. AnswerFound(i, "call", TRUE)
      BY <1>5, <2>2 DEF ReadReceipt
    <3> QED
      BY <2>1, <2>2, <3>1, FoundIsSound
  <2>3. CASE Token(i) # NoToken /\ Mined(i)
    <3>1. Continue(i, "token")
      BY <1>5, <2>3 DEF ReadReceipt
    <3> QED
      BY <2>1, <3>1, ContinueIsSound
  <2>4. CASE Token(i) # NoToken /\ ~Mined(i)
    <3>1. AnswerFound(i, "call", FALSE)
      BY <1>5, <2>4 DEF ReadReceipt
    <3> QED
      BY <2>1, <2>4, <3>1, FoundIsSound
  <2> QED
    BY <2>2, <2>3, <2>4
<1>6. CASE RecallToken(i)
  <2>1. requests[i].step \in Underway /\ UNCHANGED <<hasKey, onChain>>
    BY <1>6 DEF RecallToken, Waits, Underway
  <2>2. CASE Token(i) \in DOMAIN tokens
    <3>1. /\ AnswerFound(i, "own", Tells(tokens[Token(i)]))
          /\ Tells(tokens[Token(i)]) \in BOOLEAN
      BY <1>6, <2>2 DEF RecallToken, Tells
    <3> QED
      BY <2>1, <3>1, FoundIsSound
  <2>3. CASE Token(i) \notin DOMAIN tokens
    <3>1. Continue(i, "calls")
      BY <1>6, <2>3 DEF RecallToken
    <3> QED
      BY <2>1, <3>1, ContinueIsSound
  <2> QED
    BY <2>2, <2>3
<1>7. CASE AskToken(i)
  <2>1. requests[i].step \in Underway /\ UNCHANGED <<hasKey, onChain>>
    BY <1>7 DEF AskToken, Waits, Underway
  <2>2. PICK said \in SUBSET Says : AnswerFound(i, "own", Tells(said))
    BY <1>7 DEF AskToken
  <2>3. Tells(said) \in BOOLEAN
    BY DEF Tells
  <2> QED
    BY <2>1, <2>2, <2>3, FoundIsSound
<1> QED
  BY <1>1, <1>2, <1>3, <1>4, <1>5, <1>6, <1>7 DEF Serve

LEMMA AdvanceKeeps == ASSUME LookupInv, NEW x \in Txs, Advance(x) PROVE LookupInv'
<1>1. /\ onChain[x] # "mined" /\ UNCHANGED <<hasKey, requests>>
      /\ onChain' = [onChain EXCEPT ![x] =
                       IF @ = "unseen" /\ TokenOf[x] # NoToken THEN "pending" ELSE "mined"]
  BY DEF Advance
<1>2. /\ onChain' \in [Txs -> Knowledge]
      /\ \A y \in Txs : /\ onChain[y] # "unseen" => onChain'[y] # "unseen"
                        /\ onChain[y] = "mined" => onChain'[y] = "mined"
  BY <1>1 DEF LookupInv, Knowledge
<1>3. \A i \in 1..MaxAsked : Sound(requests[i], onChain')
  BY <1>2 DEF LookupInv, Sound
<1> QED
  BY <1>1, <1>2, <1>3 DEF LookupInv

LEMMA AskKeeps == ASSUME LookupInv, link \in Links, NEW a, NEW c, Ask(a, c) PROVE LookupInv'
<1>1. PICK i \in Free : requests' = [requests EXCEPT ![i] = Asked(link)]
                       /\ UNCHANGED <<hasKey, onChain>>
  BY DEF Ask
<1>2. i \in 1..MaxAsked
  BY DEF Free, LookupInv
<1> QED
  BY <1>1, <1>2, AskedIsSound, OneRequest

LEMMA ReceivedKeeps == ASSUME LookupInv, NEW i \in 1..MaxAsked, Received(i) PROVE LookupInv'
BY IdleIsSound, OneRequest DEF Received

-----------------------------------------------------------------------------
(* The form *)

Offered == Currencies \cup {"none"}
TimerShape == [on : BOOLEAN, amount : Values, currency : Offered]

Shape ==
  /\ link \in Links \cup {NoLink} /\ asked \in Links \cup {NoLink}
  /\ ends \in [Ends -> Values] /\ mine \in [Ends -> Values]
  /\ timer \in TimerShape
  /\ call \in [id : 0..MaxAsked, amount : Values, currency : Offered]
  /\ amount \in Values /\ filledAmount \in Values
  /\ currency \in Offered /\ saving \in BOOLEAN
  /\ unused \subseteq Typings
  /\ typed \in [Ends \cup {"amount"} -> BOOLEAN] /\ wrote \in BOOLEAN

(* A link an answer wrote is one that was looked up, so nothing is pending  *)
(* for it; and an address typed since is neither blank nor one an answer    *)
(* left, for what is yet to be typed is in no field.                        *)
Pending == timer.on => link # NoLink
Settled == wrote => link = asked /\ ~timer.on
Awaited == call # NoCall => call.id \in 1..MaxAsked
OwnWords ==
  /\ \A e \in Ends : typed[e] => ends[e] # Blank /\ ends[e] # mine[e]
  /\ \A e \in Ends : \A v \in unused : ends[e] # Typed(v) /\ mine[e] # Typed(v)

FormInv == Shape /\ Pending /\ Settled /\ Awaited /\ OwnWords
Inv == LookupInv /\ FormInv

LEMMA ValuesHold ==
  /\ Blank \in Values /\ Typed("recorded") \in Values
  /\ \A v \in Typings : Typed(v) \in Values /\ Typed(v) # Blank
  /\ \A x \in Txs, w \in {"own", "call", "amount"} :
       /\ <<x, w>> \in Values /\ <<x, w>> # Blank
       /\ \A v \in Typings : <<x, w>> # Typed(v)
  /\ \A v \in Typings : Typed("recorded") # Typed(v)
  /\ \A v, u \in Typings : Typed(v) = Typed(u) => v = u
BY ChainFormConstants DEF Values, Blank, Typed

LEMMA ArmedTimer ==
  ASSUME NEW l, NEW known, NEW disabled \in BOOLEAN, NEW a \in Values, NEW c \in Offered
  PROVE  /\ Armed(l, known, disabled, a, c) \in TimerShape
         /\ Armed(l, known, disabled, a, c).on => l # NoLink /\ l # known /\ ~disabled
BY ValuesHold DEF Armed, Off, TimerShape, Offered

LEMMA OffTimer == Off \in TimerShape /\ ~Off.on
BY ValuesHold DEF Off, TimerShape, Offered

LEMMA NoCallShape == NoCall \in [id : 0..MaxAsked, amount : Values, currency : Offered]
BY ValuesHold, ChainLookupConstants DEF NoCall, Offered

LEMMA UntypedShape ==
  Untyped \in [Ends \cup {"amount"} -> BOOLEAN] /\ \A e \in Ends : ~Untyped[e]
BY DEF Untyped

LEMMA InitInv == Init => Inv
<1> SUFFICES ASSUME Init PROVE Inv
  OBVIOUS
<1>1. LookupInv
  <2>1. /\ hasKey \in BOOLEAN /\ onChain \in [Txs -> Knowledge]
        /\ requests = [i \in 1..MaxAsked |-> Idle]
    BY DEF Init, LookupInit, Knowledge
  <2> QED
    BY <2>1, IdleIsSound DEF LookupInv
<1>2. /\ link \in Links \cup {NoLink} /\ asked = NoLink
      /\ ends \in {Blanks, [e \in Ends |-> Typed("recorded")]} /\ mine = Blanks
      /\ amount \in {Blank, Typed("recorded")} /\ filledAmount = Blank
      /\ currency \in Offered
  BY DEF Init, Links, Offered
<1>3. timer \in TimerShape /\ (timer.on => link # NoLink)
  <2>1. amount \in Values
    BY <1>2, ValuesHold
  <2>2. timer = IF Shown THEN Armed(link, NoLink, FALSE, amount, currency) ELSE Off
    BY DEF Init
  <2> QED
    BY <1>2, <2>1, <2>2, ArmedTimer, OffTimer
<1>4. Shape
  BY <1>2, <1>3, ValuesHold, NoCallShape, UntypedShape DEF Init, Shape, Blanks
<1>5. OwnWords
  BY <1>2, ValuesHold, UntypedShape DEF Init, OwnWords, Blanks
<1> QED
  BY <1>1, <1>3, <1>4, <1>5 DEF Init, Inv, FormInv, Pending, Settled, Awaited

LEMMA EditLinkKeeps ==
  ASSUME Inv, NEW l \in Pasted, EditLink(l)
  PROVE  Inv'
<1>1. /\ link' = l /\ wrote' = FALSE /\ timer' = Armed(l, asked, FALSE, amount, currency)
      /\ UNCHANGED <<ends, mine, asked, call, typed, formVars, unused, lookupVars>>
  BY DEF EditLink
<1>2. l \in Links \cup {NoLink}
  BY ChainFormConstants
<1>3. timer' \in TimerShape /\ (timer'.on => l # NoLink)
  BY <1>1, ArmedTimer DEF Inv, FormInv, Shape
<1>4. Shape'
  BY <1>1, <1>2, <1>3 DEF Inv, FormInv, Shape, formVars
<1>5. Pending' /\ Settled' /\ Awaited' /\ OwnWords'
  BY <1>1, <1>3 DEF Inv, FormInv, Pending, Settled, Awaited, OwnWords
<1>6. LookupInv'
  BY <1>1 DEF Inv, LookupInv, lookupVars
<1> QED
  BY <1>4, <1>5, <1>6 DEF Inv, FormInv

LEMMA EditEndKeeps ==
  ASSUME Inv, NEW e \in Ends, EditEnd(e)
  PROVE  Inv'
<1>1. UNCHANGED <<link, mine, asked, timer, call, wrote, formVars, lookupVars>>
  BY DEF EditEnd
<1>2. /\ ends \in [Ends -> Values] /\ mine \in [Ends -> Values] /\ unused \subseteq Typings
      /\ typed \in [Ends \cup {"amount"} -> BOOLEAN] /\ OwnWords
  BY DEF Inv, FormInv, Shape
<1>3. /\ ends' \in [Ends -> Values] /\ unused' \subseteq Typings
      /\ typed' \in [Ends \cup {"amount"} -> BOOLEAN] /\ OwnWords'
  <2>1. ASSUME NEW v \in unused, ends' = [ends EXCEPT ![e] = Typed(v)],
               unused' = unused \ {v}, typed' = [typed EXCEPT ![e] = TRUE]
        PROVE  /\ ends' \in [Ends -> Values] /\ unused' \subseteq Typings
               /\ typed' \in [Ends \cup {"amount"} -> BOOLEAN] /\ OwnWords'
    <3>1. v \in Typings
      BY <1>2
    <3>2. /\ ends' \in [Ends -> Values] /\ unused' \subseteq Typings
          /\ typed' \in [Ends \cup {"amount"} -> BOOLEAN]
      BY <1>2, <2>1, <3>1, ValuesHold
    <3>3. \A f \in Ends : typed'[f] => ends'[f] # Blank /\ ends'[f] # mine[f]
      BY <1>2, <2>1, <3>1, ValuesHold DEF OwnWords
    <3>4. \A f \in Ends : \A u \in unused' : ends'[f] # Typed(u) /\ mine[f] # Typed(u)
      BY <1>2, <2>1, <3>1, ValuesHold DEF OwnWords
    <3> QED
      BY <1>1, <3>2, <3>3, <3>4 DEF OwnWords
  <2>2. ASSUME ends' = [ends EXCEPT ![e] = Blank], unused' = unused,
               typed' = [typed EXCEPT ![e] = FALSE]
        PROVE  /\ ends' \in [Ends -> Values] /\ unused' \subseteq Typings
               /\ typed' \in [Ends \cup {"amount"} -> BOOLEAN] /\ OwnWords'
    <3>1. /\ ends' \in [Ends -> Values]
          /\ typed' \in [Ends \cup {"amount"} -> BOOLEAN]
      BY <1>2, <2>2, ValuesHold
    <3>2. \A f \in Ends : typed'[f] => ends'[f] # Blank /\ ends'[f] # mine[f]
      BY <1>2, <2>2, ValuesHold DEF OwnWords
    <3>3. \A f \in Ends : \A u \in unused : ends'[f] # Typed(u) /\ mine[f] # Typed(u)
      BY <1>2, <2>2, ValuesHold DEF OwnWords
    <3> QED
      BY <1>1, <1>2, <2>2, <3>1, <3>2, <3>3 DEF OwnWords
  <2> QED
    BY <2>1, <2>2 DEF EditEnd
<1>4. Shape'
  BY <1>1, <1>3 DEF Inv, FormInv, Shape, formVars
<1>5. Pending' /\ Settled' /\ Awaited'
  BY <1>1 DEF Inv, FormInv, Pending, Settled, Awaited
<1>6. LookupInv'
  BY <1>1 DEF Inv, LookupInv, lookupVars
<1> QED
  BY <1>3, <1>4, <1>5, <1>6 DEF Inv, FormInv

LEMMA EditAmountKeeps == ASSUME Inv, EditAmount PROVE Inv'
<1>1. PICK v \in unused : amount' = Typed(v) /\ unused' = unused \ {v}
  BY DEF EditAmount
<1>2. /\ typed' = [typed EXCEPT !["amount"] = TRUE]
      /\ UNCHANGED <<link, ends, mine, asked, timer, call, wrote, filledAmount, currency,
                     saving, lookupVars>>
  BY DEF EditAmount
<1>3. v \in Typings
  BY DEF Inv, FormInv, Shape
<1>4. Shape'
  BY <1>1, <1>2, <1>3, ValuesHold DEF Inv, FormInv, Shape
<1>5. OwnWords'
  BY <1>1, <1>2 DEF Inv, FormInv, Shape, OwnWords, Ends
<1>6. Pending' /\ Settled' /\ Awaited'
  BY <1>2 DEF Inv, FormInv, Pending, Settled, Awaited
<1>7. LookupInv'
  BY <1>2 DEF Inv, LookupInv, lookupVars
<1> QED
  BY <1>4, <1>5, <1>6, <1>7 DEF Inv, FormInv

LEMMA ReformKeeps ==
  ASSUME Inv, NEW c \in Offered, NEW w, Reform(c, w)
  PROVE  Inv'
<1>1. /\ currency' = c
      /\ UNCHANGED <<link, ends, amount, filledAmount, saving, unused, lookupVars>>
  BY DEF Reform
<1>2. LookupInv'
  BY <1>1 DEF Inv, LookupInv, lookupVars
<1>3. CASE MovesOnChain(c, w) = Shown
  <2>1. UNCHANGED <<mine, asked, timer, call, typed, wrote>>
    BY <1>3 DEF Reform
  <2>2. Shape'
    BY <1>1, <2>1 DEF Inv, FormInv, Shape
  <2>3. Pending' /\ Settled' /\ Awaited' /\ OwnWords'
    BY <1>1, <2>1 DEF Inv, FormInv, Pending, Settled, Awaited, OwnWords
  <2> QED
    BY <1>2, <2>2, <2>3 DEF Inv, FormInv
<1>4. CASE MovesOnChain(c, w) # Shown
  <2>1. /\ mine' = [e \in Ends |-> Blank] /\ asked' = NoLink /\ call' = NoCall
        /\ timer' = IF Shown THEN Off ELSE Armed(link, NoLink, saving, amount, c)
        /\ typed' = [f \in Ends \cup {"amount"} |-> f = "amount" /\ typed[f]]
        /\ wrote' = FALSE
    BY <1>4 DEF Reform
  <2>2. timer' \in TimerShape /\ (timer'.on => link # NoLink)
    BY <2>1, ArmedTimer, OffTimer DEF Inv, FormInv, Shape
  <2>3. typed' \in [Ends \cup {"amount"} -> BOOLEAN] /\ \A e \in Ends : ~typed'[e]
    BY <2>1 DEF Inv, FormInv, Shape, Ends
  <2>4. Shape'
    BY <1>1, <2>1, <2>2, <2>3, ValuesHold, NoCallShape DEF Inv, FormInv, Shape
  <2>5. OwnWords'
    BY <1>1, <2>1, <2>3, ValuesHold DEF Inv, FormInv, Shape, OwnWords
  <2>6. Pending' /\ Settled' /\ Awaited'
    BY <1>1, <2>1, <2>2 DEF Pending, Settled, Awaited
  <2> QED
    BY <1>2, <2>4, <2>5, <2>6 DEF Inv, FormInv
<1> QED
  BY <1>3, <1>4

LEMMA TimerFiresKeeps == ASSUME Inv, TimerFires PROVE Inv'
<1>1. /\ timer.on /\ Ask(timer.amount, timer.currency) /\ timer' = Off
      /\ UNCHANGED <<link, ends, mine, typed, wrote, formVars, reader>>
  BY DEF TimerFires
<1>2. link \in Links
  BY <1>1 DEF Inv, FormInv, Shape, Pending
<1>3. LookupInv'
  BY <1>1, <1>2, AskKeeps DEF Inv
<1>4. PICK i \in 1..MaxAsked :
        call' = [id |-> i, amount |-> timer.amount, currency |-> timer.currency]
  BY <1>1 DEF Ask, Free, Inv, LookupInv
<1>5. asked' = link
  BY <1>1 DEF Ask
<1>6. /\ call' \in [id : 0..MaxAsked, amount : Values, currency : Offered]
      /\ call'.id \in 1..MaxAsked
  BY <1>4 DEF Inv, FormInv, Shape, TimerShape
<1>7. Shape'
  BY <1>1, <1>5, <1>6, OffTimer DEF Inv, FormInv, Shape, formVars, reader
<1>8. Pending' /\ Settled' /\ Awaited' /\ OwnWords'
  BY <1>1, <1>5, <1>6, OffTimer
  DEF Inv, FormInv, Pending, Settled, Awaited, OwnWords, reader
<1> QED
  BY <1>3, <1>7, <1>8 DEF Inv, FormInv

LEMMA AskNowKeeps == ASSUME Inv, AskNow PROVE Inv'
<1>1. /\ link # NoLink /\ Ask(amount, currency)
      /\ UNCHANGED <<link, ends, mine, timer, typed, wrote, formVars, unused>>
  BY DEF AskNow
<1>2. link \in Links
  BY <1>1 DEF Inv, FormInv, Shape
<1>3. LookupInv'
  BY <1>1, <1>2, AskKeeps DEF Inv
<1>4. PICK i \in 1..MaxAsked :
        call' = [id |-> i, amount |-> amount, currency |-> currency]
  BY <1>1 DEF Ask, Free, Inv, LookupInv
<1>5. asked' = link
  BY <1>1 DEF Ask
<1>6. /\ call' \in [id : 0..MaxAsked, amount : Values, currency : Offered]
      /\ call'.id \in 1..MaxAsked
  BY <1>4 DEF Inv, FormInv, Shape
<1>7. Shape'
  BY <1>1, <1>5, <1>6 DEF Inv, FormInv, Shape, formVars
<1>8. Pending' /\ Settled' /\ Awaited' /\ OwnWords'
  BY <1>1, <1>5, <1>6
  DEF Inv, FormInv, Pending, Settled, Awaited, OwnWords
<1> QED
  BY <1>3, <1>7, <1>8 DEF Inv, FormInv

LEMMA FilledShape ==
  ASSUME Inv, NEW a \in Answers, a.kind = "found"
  PROVE  /\ Filled(a) \in [Ends -> Values]
         /\ \A e \in Ends : \A v \in unused : Filled(a)[e] # Typed(v)
         /\ Page(a.tx) \in Links /\ Page(a.tx) # NoLink
         /\ <<a.tx, "amount">> \in Values
<1>1. a.tx \in Txs /\ a.ends \in {"own", "call"}
  BY DEF Answers, Told
<1>2. \A e \in Ends : Value(a, e) = Blank \/ Value(a, e) = <<a.tx, a.ends>>
  BY DEF Value
<1>3. \A e \in Ends : Filled(a)[e] \in {ends[e], <<a.tx, a.ends>>}
  BY <1>2 DEF Filled
<1>4. \A e \in Ends : Filled(a)[e] \in Values
  BY <1>1, <1>3, ValuesHold DEF Inv, FormInv, Shape
<1>5. Filled(a) \in [Ends -> Values]
  BY <1>4 DEF Filled
<1>6. \A e \in Ends : \A v \in unused : Filled(a)[e] # Typed(v)
  BY <1>1, <1>3, ValuesHold DEF Inv, FormInv, Shape, OwnWords
<1>7. Page(a.tx) \in Links /\ Page(a.tx) # NoLink
  BY <1>1 DEF Links, Page, NoLink
<1> QED
  BY <1>1, <1>5, <1>6, <1>7, ValuesHold

LEMMA AnswerLandsKeeps == ASSUME Inv, AnswerLands PROVE Inv'
<1>1. /\ call.id \in 1..MaxAsked /\ Received(call.id)
      /\ requests[call.id].answer.kind = "found"
  BY DEF AnswerLands, Landed, Inv, FormInv, Awaited
<1>2. PICK a \in Answers : a = requests[call.id].answer /\ a.kind = "found"
  BY <1>1, RequestFields DEF Inv, LookupInv
<1>3. /\ ends' = Filled(a) /\ link' = Page(a.tx) /\ asked' = AskedAfter(a) /\ FillAmount(a)
      /\ timer' = IF link = Page(a.tx) THEN timer
                  ELSE Armed(Page(a.tx), asked', saving, amount', currency)
      /\ wrote' = (wrote \/ link # Page(a.tx))
      /\ mine' = ends' /\ typed' = Untyped /\ call' = NoCall
      /\ UNCHANGED <<dialog, currency, wallet, saving, reader>>
  BY <1>2 DEF AnswerLands
<1>4. LookupInv'
  BY <1>1, ReceivedKeeps DEF Inv
<1>5. amount' \in Values /\ filledAmount' \in Values
  BY <1>2, <1>3, FilledShape DEF FillAmount, Inv, FormInv, Shape
<1>6. CASE link = Page(a.tx)
  <2>1. /\ timer' = timer /\ asked' = asked /\ link' = link /\ wrote' = wrote
    BY <1>3, <1>6 DEF AskedAfter, Inv, FormInv, Shape
  <2>2. Shape'
    BY <1>2, <1>3, <1>5, <2>1, FilledShape, NoCallShape, UntypedShape
    DEF Inv, FormInv, Shape, reader
  <2>3. Pending' /\ Settled' /\ Awaited'
    BY <1>3, <2>1 DEF Inv, FormInv, Pending, Settled, Awaited
  <2>4. OwnWords'
    BY <1>2, <1>3, FilledShape, UntypedShape DEF OwnWords, reader
  <2> QED
    BY <1>4, <2>2, <2>3, <2>4 DEF Inv, FormInv
<1>7. CASE link # Page(a.tx)
  <2>1. asked' = Page(a.tx) /\ wrote' = TRUE
    BY <1>3, <1>7 DEF AskedAfter
  <2>2. timer' \in TimerShape /\ ~timer'.on
    BY <1>3, <1>5, <1>7, <2>1, ArmedTimer DEF Inv, FormInv, Shape
  <2>3. Shape'
    BY <1>2, <1>3, <1>5, <2>1, <2>2, FilledShape, NoCallShape, UntypedShape
    DEF Inv, FormInv, Shape, reader
  <2>4. Pending' /\ Settled' /\ Awaited'
    BY <1>3, <2>1, <2>2 DEF Pending, Settled, Awaited
  <2>5. OwnWords'
    BY <1>2, <1>3, FilledShape, UntypedShape DEF OwnWords, reader
  <2> QED
    BY <1>4, <2>3, <2>4, <2>5 DEF Inv, FormInv
<1> QED
  BY <1>6, <1>7

LEMMA LookupFailsKeeps == ASSUME Inv, LookupFails PROVE Inv'
<1>1. /\ call.id \in 1..MaxAsked /\ Received(call.id) /\ call' = NoCall
      /\ UNCHANGED <<link, ends, mine, asked, timer, typed, wrote, formVars, reader>>
  BY DEF LookupFails, Landed, Inv, FormInv, Awaited
<1>2. LookupInv'
  BY <1>1, ReceivedKeeps DEF Inv
<1>3. Shape'
  BY <1>1, NoCallShape DEF Inv, FormInv, Shape, formVars, reader
<1>4. Pending' /\ Settled' /\ Awaited' /\ OwnWords'
  BY <1>1 DEF Inv, FormInv, Pending, Settled, Awaited, OwnWords, reader
<1> QED
  BY <1>2, <1>3, <1>4 DEF Inv, FormInv

(* Nothing of the form changes. *)
LEMMA FormUntouched ==
  ASSUME FormInv, UNCHANGED <<fieldVars, formVars, reader>>
  PROVE  FormInv'
<1>1. Shape'
  BY DEF FormInv, Shape, fieldVars, formVars, reader
<1>2. Pending' /\ Settled' /\ Awaited' /\ OwnWords'
  BY DEF FormInv, Pending, Settled, Awaited, OwnWords, fieldVars, reader
<1> QED
  BY <1>1, <1>2 DEF FormInv

LEMMA SaveKeeps == ASSUME Inv, Save PROVE Inv'
<1>1. /\ saving' = TRUE /\ timer' = Off
      /\ UNCHANGED <<link, ends, mine, asked, call, typed, wrote, amount, filledAmount,
                     currency, unused, lookupVars>>
  BY DEF Save
<1>2. LookupInv'
  BY <1>1 DEF Inv, LookupInv, lookupVars
<1>3. Shape'
  BY <1>1, OffTimer DEF Inv, FormInv, Shape
<1>4. Pending' /\ Settled' /\ Awaited' /\ OwnWords'
  BY <1>1, OffTimer DEF Inv, FormInv, Pending, Settled, Awaited, OwnWords
<1> QED
  BY <1>2, <1>3, <1>4 DEF Inv, FormInv

LEMMA SaveRefusedKeeps == ASSUME Inv, SaveRefused PROVE Inv'
<1>1. /\ saving' = FALSE
      /\ timer' = IF Shown THEN Armed(link, asked, FALSE, amount, currency) ELSE Off
      /\ UNCHANGED <<link, ends, mine, asked, call, typed, wrote, amount, filledAmount,
                     currency, reader, lookupVars>>
  BY DEF SaveRefused
<1>2. LookupInv'
  BY <1>1 DEF Inv, LookupInv, lookupVars
<1>3. timer' \in TimerShape /\ (timer'.on => link # NoLink /\ link # asked)
  BY <1>1, ArmedTimer, OffTimer DEF Inv, FormInv, Shape
<1>4. Shape'
  BY <1>1, <1>3 DEF Inv, FormInv, Shape, reader
<1>5. Pending' /\ Settled' /\ Awaited' /\ OwnWords'
  BY <1>1, <1>3 DEF Inv, FormInv, Pending, Settled, Awaited, OwnWords, reader
<1> QED
  BY <1>2, <1>4, <1>5 DEF Inv, FormInv

LEMMA StepInv == Inv /\ [Next]_vars => Inv'
<1> SUFFICES ASSUME Inv, [Next]_vars PROVE Inv'
  OBVIOUS
<1>0. DOMAIN requests = 1..MaxAsked
  BY DEF Inv, LookupInv
<1>1. CASE UNCHANGED vars
  <2>1. LookupInv'
    BY <1>1 DEF Inv, LookupInv, vars, lookupVars
  <2> QED
    BY <1>1, <2>1, FormUntouched DEF Inv, vars
<1>2. ASSUME NEW l \in Pasted, EditLink(l) PROVE Inv'
  BY <1>2, EditLinkKeeps
<1>3. ASSUME NEW e \in Ends, EditEnd(e) PROVE Inv'
  BY <1>3, EditEndKeeps
<1>4. CASE EditAmount
  BY <1>4, EditAmountKeeps
<1>5. ASSUME NEW c \in Currencies, PickCurrency(c) PROVE Inv'
  BY <1>5, ReformKeeps DEF PickCurrency, Offered
<1>6. ASSUME NEW w \in BOOLEAN, PickAccount(w) PROVE Inv'
  <2>1. PICK c \in Offered : Reform(c, w)
    BY <1>6 DEF PickAccount, Offered, Inv, FormInv, Shape
  <2> QED
    BY <2>1, ReformKeeps
<1>7. CASE TimerFires \/ AskNow \/ AnswerLands \/ LookupFails
  BY <1>7, TimerFiresKeeps, AskNowKeeps, AnswerLandsKeeps, LookupFailsKeeps
<1>8. ASSUME NEW i \in DOMAIN requests, Ignored(i) PROVE Inv'
  <2>1. LookupInv'
    BY <1>0, <1>8, ReceivedKeeps DEF Ignored, Inv
  <2> QED
    BY <1>8, <2>1, FormUntouched DEF Inv, Ignored
<1>9. CASE Save \/ SaveRefused
  BY <1>9, SaveKeeps, SaveRefusedKeeps
<1>10. ASSUME Elsewhere, NEW i \in DOMAIN requests, Serve(i) PROVE Inv'
  <2>1. LookupInv'
    BY <1>0, <1>10, ServeKeeps DEF Inv
  <2> QED
    BY <1>10, <2>1, FormUntouched DEF Inv, Elsewhere
<1>11. ASSUME Elsewhere, NEW x \in Txs, Advance(x) PROVE Inv'
  <2>1. LookupInv'
    BY <1>11, AdvanceKeeps DEF Inv
  <2> QED
    BY <1>11, <2>1, FormUntouched DEF Inv, Elsewhere
<1> QED
  BY <1>1, <1>2, <1>3, <1>4, <1>5, <1>6, <1>7, <1>8, <1>9, <1>10, <1>11 DEF Next

LEMMA SpecInv == Spec => []Inv
BY InitInv, StepInv, PTL DEF Spec

-----------------------------------------------------------------------------
(* What the answers say and what they leave alone *)

(* A transaction the chain had heard of is not called unknown, and a mined  *)
(* transfer's ends are its own, however many requests share the memory of   *)
(* tokens (look-up-chain-transfer.ts, http-chain-lookup.ts).                *)
THEOREM LookupsTellTheTruth == Spec => []AnswersAreTrue
<1>1. Inv => AnswersAreTrue
  BY DEF Inv, LookupInv, Sound, AnswersAreTrue, SeenIsFound, MinedEndsAreTheTransfers
<1> QED
  BY <1>1, SpecInv, PTL

(* The fieldset keeps its shape, and a page an answer put in the link is    *)
(* not looked up by itself (chain.tsx).                                     *)
THEOREM NoLookupOfItsOwn == Spec => []FormIsSound
<1>1. Inv => FormIsSound
  <2> SUFFICES ASSUME Inv PROVE FormIsSound
    OBVIOUS
  <2>1. \A i \in DOMAIN requests :
          requests[i].step \in Steps /\ requests[i].answer \in Answers
    BY RequestFields DEF Inv, LookupInv
  <2>2. TypeOK
    BY <2>1 DEF Inv, FormInv, Shape, TypeOK, TimerShape, Offered
  <2>3. NoEcho
    BY DEF Inv, FormInv, Settled, NoEcho
  <2> QED
    BY <2>2, <2>3 DEF FormIsSound
<1> QED
  BY <1>1, SpecInv, PTL

(* An answer never overwrites an address typed since the last one           *)
(* (chain.tsx).                                                             *)
THEOREM AnswersSpareWhatWasTyped == Spec => TypedEndsKept
<1>1. Inv /\ [Next]_vars => [\A e \in Ends : AnswerLands /\ typed[e] => ends'[e] = ends[e]]_vars
  <2> SUFFICES ASSUME Inv, NEW e \in Ends, AnswerLands, typed[e]
               PROVE  ends'[e] = ends[e]
    OBVIOUS
  <2>1. ends[e] \notin {Blank, mine[e]}
    BY DEF Inv, FormInv, OwnWords
  <2>2. ends' = Filled(requests[call.id].answer)
    BY DEF AnswerLands
  <2> QED
    BY <2>1, <2>2 DEF Filled
<1> QED
  BY <1>1, SpecInv, PTL DEF Spec, TypedEndsKept
=============================================================================

----------------------------- MODULE ChainLookup -----------------------------
(***************************************************************************)
(* Reading a transfer off a chain: LookUpChainTransfer and HttpChainLookup, *)
(* the only code of the API that waits on another machine.                 *)
(*                                                                         *)
(* Each request is a chain of calls to an explorer, every one of which may *)
(* fail or time out; between them other requests run, transactions appear  *)
(* and are mined, and all requests share one memory of tokens.             *)
(*                                                                         *)
(* A transaction here is its hash.  The hosts of an explorer, the shapes a *)
(* link comes in and the digits of an amount are left out: a link is a     *)
(* page, which names its chain, or a bare hash, which may be of several.   *)
(***************************************************************************)
EXTENDS Naturals, Sequences, FiniteSetsExt

CONSTANTS
  Txs,
  ChainOf, TokenOf,   \* by transaction; the token it moves, or NoToken
  Receiverless,       \* transactions that pay nobody: contract deployments
  NoToken,
  Explorers,          \* the chains, in the order they are tried
  MaxAsked            \* bound: requests of an instance

ASSUME ChainLookupConstants ==
  /\ ChainOf \in [Txs -> {Explorers[k] : k \in DOMAIN Explorers}]
  /\ Receiverless \subseteq {x \in Txs : TokenOf[x] = NoToken}
  /\ MaxAsked \in Nat

Page(x) == <<x, "page">>
Hash(x) == <<x, "hash">>
Junk == <<"nothing", "junk">>
NoLink == <<>>
Links == {Page(x) : x \in Txs} \cup {Hash(x) : x \in Txs} \cup {Junk}

(* The explorers a link may be of, by their place in the order.  An         *)
(* Ethereum hash fits its lookalikes too; Tron writes its own kind.         *)
Alike(c, d) == (c = "tron") = (d = "tron")
Candidates(l) ==
  {k \in DOMAIN Explorers :
     /\ l # Junk
     /\ IF l[2] = "page" THEN Explorers[k] = ChainOf[l[1]]
        ELSE Alike(Explorers[k], ChainOf[l[1]])}

-----------------------------------------------------------------------------
VARIABLES
  hasKey,    \* ETHERSCAN_API_KEY is set
  onChain,   \* transaction -> "unseen", "pending" or "mined"
  tokens,    \* token -> what it was heard to say of itself
  requests   \* id -> the request and where it waits

lookupVars == <<hasKey, onChain, tokens, requests>>

CanRead(c) == c = "tron" \/ hasKey

(* What is answered: the two ends, as the receipt has them ("own") or as    *)
(* the transaction itself does ("call": signer and contract), and an amount *)
(* when the token said its name and its decimals.                           *)
Found(x, ends, amount) == [kind |-> "found", tx |-> x, ends |-> ends, amount |-> amount]
Told(kind) == [kind |-> kind, tx |-> "nothing", ends |-> "none", amount |-> FALSE]
Answers == [kind : {"found"}, tx : Txs, ends : {"own", "call"}, amount : BOOLEAN]
             \cup {Told(k) : k \in {"none", "notFound", "unavailable", "unsupported"}}

Says == {"decimals", "symbol"}
Tells(said) == said = Says

(* then: auxiliary, what the chain knew of the transaction when it was asked. *)
Request(l, todo, step, answer) ==
  [link |-> l, todo |-> todo, step |-> step, answer |-> answer,
   then |-> IF l \in {Junk, NoLink} THEN "unseen" ELSE onChain[l[1]]]
Idle == [link |-> NoLink, todo |-> {}, step |-> "idle", answer |-> Told("none"),
         then |-> "unseen"]
Steps == {"idle", "transaction", "receipt", "token", "calls", "answered"}

Asked(l) ==
  LET readable == {k \in Candidates(l) : CanRead(Explorers[k])}
  IN IF Candidates(l) = {} THEN Request(l, {}, "answered", Told("unsupported"))
     ELSE IF readable = {} THEN Request(l, {}, "answered", Told("unavailable"))
     ELSE Request(l, readable, "transaction", Told("none"))

Waits(i, step) == requests[i].step = step
Asking(i) == Min(requests[i].todo)
Chain(i) == Explorers[Asking(i)]
Hears(i) == LET x == requests[i].link[1] IN ChainOf[x] = Chain(i) /\ onChain[x] # "unseen"
Mined(i) == onChain[requests[i].link[1]] = "mined"
Token(i) == TokenOf[requests[i].link[1]]

Continue(i, step) == requests' = [requests EXCEPT ![i].step = step]
Answer(i, a) == requests' = [requests EXCEPT ![i].step = "answered", ![i].answer = a]
AnswerFound(i, ends, amount) == Answer(i, Found(requests[i].link[1], ends, amount))

-----------------------------------------------------------------------------
(* #read: a refusal, a bad answer or the deadline; nothing else is tried.   *)
Unavailable(i) ==
  /\ requests[i].step \in {"transaction", "receipt"}
  /\ Answer(i, Told("unavailable"))
  /\ UNCHANGED <<hasKey, onChain, tokens>>

(* A chain that has not heard of it: the next one is asked. *)
NotThere(i) ==
  /\ Waits(i, "transaction") /\ ~Hears(i)
  /\ LET rest == requests[i].todo \ {Asking(i)} IN
     requests' = [requests EXCEPT
       ![i].todo = rest,
       ![i].step = IF rest = {} THEN "answered" ELSE @,
       ![i].answer = IF rest = {} THEN Told("notFound") ELSE @]
  /\ UNCHANGED <<hasKey, onChain, tokens>>

(* Etherscan's first call; the receipt is a second. *)
ReadTransaction(i) ==
  /\ Waits(i, "transaction") /\ Hears(i) /\ Chain(i) # "tron"
  /\ Continue(i, "receipt")
  /\ UNCHANGED <<hasKey, onChain, tokens>>

(* Tronscan says it all at once, the token included. *)
ReadTron(i) ==
  /\ Waits(i, "transaction") /\ Hears(i) /\ Chain(i) = "tron"
  /\ IF Mined(i) /\ Token(i) # NoToken
     THEN \E amount \in BOOLEAN : AnswerFound(i, "own", amount)
     ELSE AnswerFound(i, "call", FALSE)
  /\ UNCHANGED <<hasKey, onChain, tokens>>

(* Faulty: a memory of the token stands in for the receipt. *)
ReceiptForNewTokens(i) ==
  /\ Waits(i, "receipt")
  /\ IF Token(i) = NoToken THEN AnswerFound(i, "call", TRUE)
     ELSE IF Mined(i) /\ Token(i) \notin DOMAIN tokens THEN Continue(i, "token")
     ELSE AnswerFound(i, "call", FALSE)
  /\ UNCHANGED <<hasKey, onChain, tokens>>

(* No token moved, or no receipt to say so yet: taken for a plain send.     *)
ReadReceipt(i) ==
  /\ Waits(i, "receipt")
  /\ IF Token(i) = NoToken THEN AnswerFound(i, "call", TRUE)
     ELSE IF Mined(i) THEN Continue(i, "token")
     ELSE AnswerFound(i, "call", FALSE)
  /\ UNCHANGED <<hasKey, onChain, tokens>>

(* #tokenOf, remembered. *)
RecallToken(i) ==
  /\ Waits(i, "token")
  /\ IF Token(i) \in DOMAIN tokens
     THEN AnswerFound(i, "own", Tells(tokens[Token(i)]))
     ELSE Continue(i, "calls")
  /\ UNCHANGED <<hasKey, onChain, tokens>>

(* #tokenOf, asked: two calls, each of which may fail on its own.  What was *)
(* not said is remembered as well, over whatever another request has heard. *)
AskToken(i) ==
  /\ Waits(i, "calls")
  /\ \E said \in SUBSET Says :
       /\ tokens' = [t \in DOMAIN tokens \cup {Token(i)} |->
                       IF t = Token(i) THEN said ELSE tokens[t]]
       /\ AnswerFound(i, "own", Tells(said))
  /\ UNCHANGED <<hasKey, onChain>>

(* The chain itself; of a plain send the receipt says nothing more. *)
Advance(x) ==
  /\ onChain[x] # "mined"
  /\ onChain' = [onChain EXCEPT ![x] =
                   IF @ = "unseen" /\ TokenOf[x] # NoToken THEN "pending" ELSE "mined"]
  /\ UNCHANGED <<hasKey, tokens, requests>>

Serve(i) ==
  \/ Unavailable(i) \/ NotThere(i)
  \/ ReadTransaction(i) \/ ReadTron(i) \/ ReadReceipt(i)
  \/ RecallToken(i) \/ AskToken(i)

LookupInit ==
  /\ hasKey \in BOOLEAN
  /\ onChain \in [Txs -> {"unseen", "mined"}]
  /\ tokens = [t \in {} |-> {}]
  /\ requests = [i \in 1..MaxAsked |-> Idle]

-----------------------------------------------------------------------------
(* Properties *)

(* A transaction the chain had heard of when it was asked for is not called *)
(* unknown, however many chains its hash had to be tried on and whatever    *)
(* other requests did meanwhile; the chain being readable                   *)
(* (look-up-chain-transfer.ts, ports/chain-lookup.ts: null is "never heard  *)
(* of", an error is everything else).                                       *)
SeenIsFound ==
  \A i \in DOMAIN requests :
    requests[i].answer.kind = "notFound" => requests[i].then = "unseen"

(* A token transfer mined before it was asked for is answered with the      *)
(* transfer's own ends, never with its signer and the contract it called    *)
(* (http-chain-lookup.ts, #fromEtherscan), whatever the memory of tokens    *)
(* holds.  One still pending is taken for a plain send: the code does that. *)
MinedEndsAreTheTransfers ==
  \A i \in DOMAIN requests :
    LET a == requests[i].answer IN
    /\ a.kind = "found" /\ TokenOf[a.tx] # NoToken /\ requests[i].then = "mined"
    => a.ends = "own"

(* What a lookup answers is true of the chain when it was asked, whichever  *)
(* calls, chains and tokens it took (look-up-chain-transfer.ts).            *)
AnswersAreTrue == SeenIsFound /\ MinedEndsAreTheTransfers
=============================================================================

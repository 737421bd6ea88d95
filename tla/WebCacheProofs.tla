--------------------------- MODULE WebCacheProofs ---------------------------
(***************************************************************************)
(* Theorems about WebCache, for every number of payouts, sign-ins, entries *)
(* and settlements, and every set of mutations that are sent.              *)
(***************************************************************************)
EXTENDS WebCache, SequenceTheorems, TLAPS

(* Keys and prefixes *)

Names ==
  {"companies", "traders", "accounts", "payouts", "transactions", "balances",
   "dataQuality", "documents", "reports", "ledger", "list", "search", "financialYear",
   "state", "trail", "settlement", "forPayout"}
Words == Names \cup Payouts

LEMMA PrefixByParts ==
  ASSUME NEW s \in Seq(Words), NEW t \in Seq(Words), Len(s) <= Len(t),
         \A i \in 1..Len(s) : s[i] = t[i]
  PROVE  IsPrefix(s, t)
<1>1. Len(s) \in Nat /\ Len(t) \in Nat
  BY LenProperties
<1>2. /\ SubSeq(s, 1, Len(s)) \in Seq(Words) /\ Len(SubSeq(s, 1, Len(s))) = Len(s)
      /\ \A i \in 1..Len(s) : SubSeq(s, 1, Len(s))[i] = s[i]
  BY <1>1, SubSeqProperties
<1>3. /\ SubSeq(t, 1, Len(s)) \in Seq(Words) /\ Len(SubSeq(t, 1, Len(s))) = Len(s)
      /\ \A i \in 1..Len(s) : SubSeq(t, 1, Len(s))[i] = t[i]
  BY <1>1, SubSeqProperties
<1>4. SubSeq(s, 1, Len(s)) = SubSeq(t, 1, Len(s))
  BY <1>2, <1>3, SeqEqual
<1> QED
  BY <1>4 DEF IsPrefix

LEMMA QueryShapes ==
  ASSUME NEW q \in Queries
  PROVE  \/ q \in {<<"companies", "list">>, <<"traders", "list">>, <<"accounts", "list">>}
         \/ q = <<"payouts", "list">>
         \/ q \in {<<"transactions", "list">>, <<"balances">>, <<"dataQuality">>}
         \/ q \in {<<"documents", "search">>, <<"documents", "list">>}
         \/ q = <<"reports", "financialYear">>
         \/ q = LedgerState
         \/ \E p \in Payouts : q = Trail(p)
         \/ \E p \in Payouts : q = SettlementOf(p)
         \/ \E p \in Payouts : q = DocumentsOf(p)
BY DEF Queries

LEMMA QueriesAreSequences ==
  ASSUME NEW q \in Queries
  PROVE  q \in Seq(Words) /\ Len(q) \in {1, 2, 3}
<1>1. \A a, b, c \in Words :
        /\ <<a>> \in Seq(Words) /\ Len(<<a>>) = 1
        /\ <<a, b>> \in Seq(Words) /\ Len(<<a, b>>) = 2
        /\ <<a, b, c>> \in Seq(Words) /\ Len(<<a, b, c>>) = 3
  OBVIOUS
<1>2. \A p \in Payouts : p \in Words
  BY DEF Words
<1>3. \A s \in Names : s \in Words
  BY DEF Words
<1>4. /\ <<"companies", "list">> \in Seq(Words) /\ Len(<<"companies", "list">>) = 2
      /\ <<"traders", "list">> \in Seq(Words) /\ Len(<<"traders", "list">>) = 2
      /\ <<"accounts", "list">> \in Seq(Words) /\ Len(<<"accounts", "list">>) = 2
      /\ <<"payouts", "list">> \in Seq(Words) /\ Len(<<"payouts", "list">>) = 2
      /\ <<"transactions", "list">> \in Seq(Words) /\ Len(<<"transactions", "list">>) = 2
      /\ <<"balances">> \in Seq(Words) /\ Len(<<"balances">>) = 1
      /\ <<"dataQuality">> \in Seq(Words) /\ Len(<<"dataQuality">>) = 1
      /\ <<"documents", "search">> \in Seq(Words) /\ Len(<<"documents", "search">>) = 2
      /\ <<"documents", "list">> \in Seq(Words) /\ Len(<<"documents", "list">>) = 2
      /\ <<"reports", "financialYear">> \in Seq(Words)
      /\ Len(<<"reports", "financialYear">>) = 2
      /\ LedgerState \in Seq(Words) /\ Len(LedgerState) = 2
  BY <1>1, <1>3 DEF LedgerState, Names
<1>5. \A p \in Payouts :
        /\ Trail(p) \in Seq(Words) /\ Len(Trail(p)) = 3
        /\ SettlementOf(p) \in Seq(Words) /\ Len(SettlementOf(p)) = 3
        /\ DocumentsOf(p) \in Seq(Words) /\ Len(DocumentsOf(p)) = 3
  BY <1>1, <1>2, <1>3 DEF Trail, SettlementOf, DocumentsOf, Names
<1> QED
  BY <1>4, <1>5, QueryShapes

LEMMA UnderNothing == Under(<<>>) = Queries
<1>1. <<>> \in Seq(Words) /\ Len(<<>>) = 0 /\ 1..0 = {}
  OBVIOUS
<1>2. ASSUME NEW q \in Queries
      PROVE  IsPrefix(<<>>, q)
  <2>1. q \in Seq(Words) /\ Len(<<>>) <= Len(q)
    BY <1>1, QueriesAreSequences
  <2> QED
    BY <1>1, <2>1, PrefixByParts
<1> QED
  BY <1>2 DEF Under

LEMMA UnderOne ==
  ASSUME NEW a \in Words, NEW q \in Queries, q[1] = a
  PROVE  q \in Under(<<a>>)
<1>1. <<a>> \in Seq(Words) /\ Len(<<a>>) = 1 /\ <<a>>[1] = a
  OBVIOUS
<1>2. \A i \in 1..1 : i = 1
  OBVIOUS
<1>3. q \in Seq(Words) /\ Len(<<a>>) <= Len(q)
  BY <1>1, QueriesAreSequences
<1>4. IsPrefix(<<a>>, q)
  BY <1>1, <1>2, <1>3, PrefixByParts
<1> QED
  BY <1>4 DEF Under

LEMMA UnderTwo ==
  ASSUME NEW a \in Words, NEW b \in Words, NEW q \in Queries,
         Len(q) >= 2, q[1] = a, q[2] = b
  PROVE  q \in Under(<<a, b>>)
<1>1. <<a, b>> \in Seq(Words) /\ Len(<<a, b>>) = 2 /\ <<a, b>>[1] = a /\ <<a, b>>[2] = b
  OBVIOUS
<1>2. \A i \in 1..2 : i = 1 \/ i = 2
  OBVIOUS
<1>3. q \in Seq(Words) /\ Len(<<a, b>>) <= Len(q)
  BY <1>1, QueriesAreSequences
<1>4. IsPrefix(<<a, b>>, q)
  BY <1>1, <1>2, <1>3, PrefixByParts
<1> QED
  BY <1>4 DEF Under

LEMMA UnderItself ==
  ASSUME NEW q \in Queries
  PROVE  q \in Under(q)
<1>1. Len(q) <= Len(q) /\ \A i \in 1..Len(q) : q[i] = q[i]
  BY QueriesAreSequences
<1> QED
  BY <1>1, PrefixByParts, QueriesAreSequences DEF Under

(* Who reads a fact. *)
LEMMA Readers ==
  ASSUME NEW q \in Queries, q # LedgerState
  PROVE  /\ <<"companies">> \in Reads(q) => q[1] \in {"companies", "reports"}
         /\ <<"traders">> \in Reads(q) => q[1] = "traders"
         /\ <<"accounts">> \in Reads(q) => q[1] = "accounts"
         /\ <<"terms">> \in Reads(q) => q[1] \in {"accounts", "balances", "dataQuality"}
         /\ <<"types">> \in Reads(q) =>
              q[1] \in {"accounts", "dataQuality"} \/ q[1] = "payouts"
         /\ <<"payouts">> \in Reads(q) =>
              q[1] = "reports" \/ q = <<"payouts", "list">>
         /\ <<"files">> \in Reads(q) => q[1] = "documents"
         /\ \A p \in Payouts :
              /\ <<"legs", p>> \in Reads(q) =>
                   \/ q \in {Trail(p), SettlementOf(p)}
                   \/ q[1] \in {"transactions", "balances", "dataQuality", "reports"}
              /\ <<"legLinks", p>> \in Reads(q) => q = Trail(p)
              /\ <<"payoutLinks", p>> \in Reads(q) => q = DocumentsOf(p)
<1>1. CASE q \in {<<"companies", "list">>, <<"traders", "list">>, <<"accounts", "list">>}
  <2>1. CASE q = <<"companies", "list">>
    BY <2>1 DEF Reads
  <2>2. CASE q = <<"traders", "list">>
    BY <2>2 DEF Reads
  <2>3. CASE q = <<"accounts", "list">>
    BY <2>3 DEF Reads
  <2> QED
    BY <1>1, <2>1, <2>2, <2>3
<1>2. CASE q = <<"payouts", "list">>
  <2>1. Reads(q) = {<<"payouts">>}
    BY <1>2 DEF Reads
  <2> QED
    BY <1>2, <2>1
<1>3. CASE q \in {<<"transactions", "list">>, <<"balances">>, <<"dataQuality">>}
  <2>1. /\ q[1] \in {"transactions", "balances", "dataQuality"}
        /\ Reads(q) \subseteq EachPayout("legs") \cup {<<"terms">>, <<"types">>}
        /\ <<"terms">> \in Reads(q) => q[1] \in {"balances", "dataQuality"}
        /\ <<"types">> \in Reads(q) => q[1] = "dataQuality"
    <3>1. CASE q = <<"transactions", "list">>
      BY <3>1 DEF Reads, EachPayout
    <3>2. CASE q = <<"balances">>
      BY <3>2 DEF Reads, EachPayout
    <3>3. CASE q = <<"dataQuality">>
      BY <3>3 DEF Reads, EachPayout
    <3> QED
      BY <1>3, <3>1, <3>2, <3>3
  <2> QED
    BY <2>1 DEF EachPayout
<1>4. CASE q \in {<<"documents", "search">>, <<"documents", "list">>}
  <2>1. q[1] = "documents" /\ Reads(q) = {<<"files">>}
    <3>1. CASE q = <<"documents", "search">>
      BY <3>1 DEF Reads
    <3>2. CASE q = <<"documents", "list">>
      BY <3>2 DEF Reads
    <3> QED
      BY <1>4, <3>1, <3>2
  <2> QED
    BY <2>1
<1>5. CASE q = <<"reports", "financialYear">>
  <2>1. /\ q[1] = "reports"
        /\ Reads(q) = EachPayout("legs") \cup {<<"payouts">>, <<"companies">>}
    BY <1>5 DEF Reads
  <2> QED
    BY <2>1 DEF EachPayout
<1>6. CASE \E p \in Payouts : q = Trail(p)
  <2>1. PICK p \in Payouts : q = Trail(p)
    BY <1>6
  <2>2. Reads(q) = {<<"legs", p>>, <<"legLinks", p>>} /\ q[1] = "payouts"
    BY <2>1 DEF Reads, Trail
  <2> QED
    BY <2>1, <2>2
<1>7. CASE \E p \in Payouts : q = SettlementOf(p)
  <2>1. PICK p \in Payouts : q = SettlementOf(p)
    BY <1>7
  <2>2. Reads(q) = {<<"legs", p>>, <<"types">>} /\ q[1] = "payouts"
    BY <2>1 DEF Reads, SettlementOf
  <2> QED
    BY <2>1, <2>2
<1>8. CASE \E p \in Payouts : q = DocumentsOf(p)
  <2>1. PICK p \in Payouts : q = DocumentsOf(p)
    BY <1>8
  <2>2. Reads(q) = {<<"payoutLinks", p>>}
    BY <2>1 DEF Reads, DocumentsOf
  <2> QED
    BY <2>1, <2>2
<1> QED
  BY <1>1, <1>2, <1>3, <1>4, <1>5, <1>6, <1>7, <1>8, QueryShapes

(* The queries a key reaches, one shape of key at a time. *)
LEMMA ReachedBy ==
  ASSUME NEW q \in Queries, NEW keys
  PROVE  /\ \A a \in Names : <<a>> \in keys /\ q[1] = a => q \in Reached(keys)
         /\ q \in keys => q \in Reached(keys)
         /\ <<>> \in keys => q \in Reached(keys)
         /\ \A p \in Payouts :
              <<"payouts", p>> \in keys /\ q \in {Trail(p), SettlementOf(p)}
              => q \in Reached(keys)
<1>1. ASSUME NEW a \in Names, <<a>> \in keys, q[1] = a
      PROVE  q \in Reached(keys)
  BY <1>1, UnderOne DEF Reached, Words
<1>2. ASSUME q \in keys
      PROVE  q \in Reached(keys)
  BY <1>2, UnderItself DEF Reached
<1>3. ASSUME <<>> \in keys
      PROVE  q \in Reached(keys)
  BY <1>3, UnderNothing DEF Reached
<1>4. ASSUME NEW p \in Payouts, <<"payouts", p>> \in keys,
             q \in {Trail(p), SettlementOf(p)}
      PROVE  q \in Reached(keys)
  <2>1. Len(q) >= 2 /\ q[1] = "payouts" /\ q[2] = p
    BY <1>4 DEF Trail, SettlementOf
  <2>2. q \in Under(<<"payouts", p>>)
    BY <2>1, UnderTwo DEF Words, Names
  <2> QED
    BY <1>4, <2>2 DEF Reached
<1> QED
  BY <1>1, <1>2, <1>3, <1>4

LEMMA KnownMutations ==
  ASSUME NEW m \in Known
  PROVE  \/ m.do \in {"recordCompany", "recordTrader", "editTrader", "recordAccount",
                     "deleteAccount", "editAccount", "retypeAccount", "recordPayout",
                     "deleteDocument", "importLedger"}
         \/ /\ m.do \in Addressed \cup {"settlePayout"}
            /\ m.payout \in Payouts
<1>1. CASE m \in [do : Sent \cap Addressed, payout : Payouts]
  BY <1>1
<1>2. CASE m \in [do : Sent \ Addressed, payout : {NoPayout}]
  BY <1>2, WebCacheConstants DEF Addressed
<1>3. CASE \E p \in Payouts : m = Settle(p)
  BY <1>3 DEF Settle
<1> QED
  BY <1>1, <1>2, <1>3 DEF Known, Mutations

LEMMA DocumentsBegin == \A p \in Payouts : DocumentsOf(p)[1] = "documents"
BY DEF DocumentsOf

(* The heart of the design: of the rows a write changes, every query that   *)
(* reads one is named by the write's hook, dropped by it, or is one of the  *)
(* gaps that are written down.                                              *)
THEOREM HooksNameWhatTheyChange ==
  ASSUME NEW m \in Known, NEW q \in Changes[m]
  PROVE  q \in Named[m] \/ q \in Removed[m] \/ q \in Missed[m]
<1> DEFINE keys == Invalidates(m)
           p == m.payout
<1>1. q \in Queries
  BY DEF Changes
<1>2. PICK f \in Writes(m) : f \in Reads(q)
  BY DEF Changes
<1>3. /\ \A a \in Names : <<a>> \in keys /\ q[1] = a => q \in Named[m]
      /\ q \in keys => q \in Named[m]
      /\ <<>> \in keys => q \in Named[m]
      /\ p \in Payouts /\ <<"payouts", p>> \in keys /\ q \in {Trail(p), SettlementOf(p)}
         => q \in Named[m]
  BY <1>1, ReachedBy DEF Named
<1>4. Overlooks(m, q) => q \in Missed[m]
  BY <1>1 DEF Missed
<1>5. CASE m.do = "importLedger"
  BY <1>3, <1>5 DEF Invalidates
<1>6. CASE q = LedgerState /\ m.do # "importLedger"
  BY <1>4, <1>6 DEF Overlooks
<1> HIDE DEF keys, p
<1>7. CASE q # LedgerState /\ m.do = "recordCompany"
  <2>1. Writes(m) = {<<"companies">>}
    BY <1>7 DEF Writes, p
  <2>2. {<<"companies">>} \subseteq keys
    BY <1>7 DEF keys, p, Invalidates, CachesOfRegisters
  <2>3. q[1] \in {"companies", "reports"}
    BY <1>1, <1>2, <1>7, <2>1, Readers
  <2>4. q[1] = "reports" => Overlooks(m, q)
    BY <1>7 DEF Overlooks
  <2> QED
    BY <1>3, <1>4, <1>7, <2>2, <2>3, <2>4 DEF Names
<1>8. CASE q # LedgerState /\ m.do \in {"recordTrader", "editTrader"}
  <2>1. Writes(m) = {<<"traders">>}
    BY <1>8 DEF Writes, p
  <2>2. {<<"traders">>} \subseteq keys
    BY <1>8 DEF keys, p, Invalidates, CachesOfRegisters
  <2>3. q[1] = "traders"
    BY <1>1, <1>2, <1>8, <2>1, Readers
  <2> QED
    BY <1>3, <1>4, <1>8, <2>2, <2>3 DEF Names
<1>9. CASE q # LedgerState /\ m.do \in {"recordAccount", "deleteAccount"}
  <2>1. Writes(m) = {<<"accounts">>}
    BY <1>9 DEF Writes, p
  <2>2. {<<"accounts">>} \subseteq keys
    BY <1>9 DEF keys, p, Invalidates, CachesOfRegisters
  <2>3. q[1] = "accounts"
    BY <1>1, <1>2, <1>9, <2>1, Readers
  <2> QED
    BY <1>3, <1>4, <1>9, <2>2, <2>3 DEF Names
<1>10. CASE q # LedgerState /\ m.do = "editAccount"
  <2>1. Writes(m) = {<<"terms">>}
    BY <1>10 DEF Writes, p
  <2>2. {<<"accounts">>, <<"balances">>, <<"dataQuality">>} \subseteq keys
    BY <1>10 DEF keys, p, Invalidates, CachesOfRegisters
  <2>3. q[1] \in {"accounts", "balances", "dataQuality"}
    BY <1>1, <1>2, <1>10, <2>1, Readers
  <2> QED
    BY <1>3, <1>4, <1>10, <2>2, <2>3 DEF Names
<1>11. CASE q # LedgerState /\ m.do = "retypeAccount"
  <2>1. Writes(m) = {<<"terms">>, <<"types">>}
    BY <1>11 DEF Writes, p
  <2>2. {<<"accounts">>, <<"balances">>, <<"dataQuality">>} \subseteq keys
    BY <1>11 DEF keys, p, Invalidates, CachesOfRegisters
  <2>3. q[1] \in {"accounts", "balances", "dataQuality", "payouts"}
    BY <1>1, <1>2, <1>11, <2>1, Readers
  <2>4. q[1] = "payouts" => Overlooks(m, q)
    BY <1>11 DEF Overlooks
  <2> QED
    BY <1>3, <1>4, <1>11, <2>2, <2>3, <2>4 DEF Names
<1>12. CASE q # LedgerState /\ m.do = "recordPayout"
  <2>1. Writes(m) = {<<"payouts">>}
    BY <1>12 DEF Writes, p
  <2>2. {<<"payouts", "list">>} \subseteq keys
    BY <1>12 DEF keys, p, Invalidates, CachesOfMoney
  <2>3. q[1] = "reports" \/ q = <<"payouts", "list">>
    BY <1>1, <1>2, <1>12, <2>1, Readers
  <2>4. q[1] = "reports" => Overlooks(m, q)
    BY <1>12 DEF Overlooks
  <2> QED
    BY <1>3, <1>4, <1>12, <2>2, <2>3, <2>4 DEF Names
<1>13. CASE q # LedgerState /\ p \in Payouts /\ m.do \in {"recordTransaction", "editTransaction",
                                                    "settlePayout"}
  <2>1. Writes(m) = {<<"legs", p>>}
    BY <1>13 DEF Writes, p
  <2>2. {<<"payouts", p>>, <<"transactions">>, <<"balances">>, <<"dataQuality">>} \subseteq keys
    BY <1>13 DEF keys, p, Invalidates, CachesOfMoney,
       cachesAffectedByTransaction
  <2>3. \/ q \in {Trail(p), SettlementOf(p)}
        \/ q[1] \in {"transactions", "balances", "dataQuality", "reports"}
    BY <1>1, <1>2, <1>13, <2>1, Readers
  <2>4. q[1] = "reports" => Overlooks(m, q)
    BY <1>13 DEF Overlooks
  <2> QED
    BY <1>3, <1>4, <1>13, <2>2, <2>3, <2>4 DEF Names
<1>14. CASE q # LedgerState /\ p \in Payouts /\ m.do = "deleteTransaction"
  <2>1. Writes(m) = {<<"legs", p>>, <<"legLinks", p>>}
    BY <1>14 DEF Writes, p
  <2>2. {<<"payouts", p>>, <<"transactions">>, <<"balances">>, <<"dataQuality">>} \subseteq keys
    BY <1>14 DEF keys, p, Invalidates, CachesOfMoney,
       cachesAffectedByTransaction
  <2>3. \/ q \in {Trail(p), SettlementOf(p)}
        \/ q[1] \in {"transactions", "balances", "dataQuality", "reports"}
    BY <1>1, <1>2, <1>14, <2>1, Readers
  <2>4. q[1] = "reports" => Overlooks(m, q)
    BY <1>14 DEF Overlooks
  <2> QED
    BY <1>3, <1>4, <1>14, <2>2, <2>3, <2>4 DEF Names
<1>15. CASE q # LedgerState /\ p \in Payouts /\ m.do = "deletePayout"
  <2>1. Writes(m) = 
          {<<"payouts">>, <<"legs", p>>, <<"legLinks", p>>, <<"payoutLinks", p>>}
    BY <1>15 DEF Writes, p
  <2>2. {<<"payouts", "list">>, <<"transactions">>, <<"balances">>,
        <<"dataQuality">>, <<"reports">>} \subseteq keys
    BY <1>15 DEF keys, p, Invalidates, CachesOfMoney
  <2>3. \/ q \in {<<"payouts", "list">>, Trail(p), SettlementOf(p)}
        \/ q[1] \in {"transactions", "balances", "dataQuality", "reports"}
        \/ q[1] = "documents"
    BY <1>1, <1>2, <1>15, <2>1, Readers, DocumentsBegin
  <2>4. q[1] = "documents" => Overlooks(m, q)
    BY <1>15 DEF Overlooks
  <2>5. q \in {Trail(p), SettlementOf(p)} => q \in Removed[m]
    BY <1>1, <1>15, ReachedBy DEF Removed, Removes, p
  <2> QED
    BY <1>3, <1>4, <1>15, <2>2, <2>3, <2>4, <2>5 DEF Names
<1>16. CASE q # LedgerState /\ p \in Payouts /\ m.do = "attachDocument"
  <2>1. Writes(m) = 
          {<<"files">>, <<"legLinks", p>>, <<"payoutLinks", p>>}
    BY <1>16 DEF Writes, p
  <2>2. {Trail(p), DocumentsOf(p), <<"documents">>} \subseteq keys
    BY <1>16 DEF keys, p, Invalidates, CachesOfDocuments,
       cachesAffectedByAttachment
  <2>3. q \in {Trail(p), DocumentsOf(p)} \/ q[1] = "documents"
    BY <1>1, <1>2, <1>16, <2>1, Readers
  <2> QED
    BY <1>3, <1>4, <1>16, <2>2, <2>3 DEF Names
<1>17. CASE q # LedgerState /\ p \in Payouts /\ m.do \in {"linkDocument", "detachDocument"}
  <2>1. Writes(m) = {<<"legLinks", p>>, <<"payoutLinks", p>>}
    BY <1>17 DEF Writes, p
  <2>2. {Trail(p), DocumentsOf(p), <<"documents">>} \subseteq keys
    BY <1>17 DEF keys, p, Invalidates, CachesOfDocuments,
       cachesAffectedByAttachment
  <2>3. q \in {Trail(p), DocumentsOf(p)}
    BY <1>1, <1>2, <1>17, <2>1, Readers
  <2> QED
    BY <1>3, <1>4, <1>17, <2>2, <2>3 DEF Names
<1>18. CASE q # LedgerState /\ m.do = "deleteDocument"
  <2>1. Writes(m) = {<<"files">>} \cup EachPayout("legLinks") \cup EachPayout("payoutLinks")
    BY <1>18 DEF Writes
  <2>2. <<"documents">> \in keys /\ \A x \in Payouts : Trail(x) \in keys
    BY <1>18 DEF keys, Invalidates, CachesOfDocuments
  <2>3. \/ f = <<"files">>
        \/ \E x \in Payouts : f = <<"legLinks", x>>
        \/ \E x \in Payouts : f = <<"payoutLinks", x>>
    BY <1>2, <2>1 DEF EachPayout
  <2>4. /\ <<"files">> \in Reads(q) => q[1] = "documents"
        /\ \A x \in Payouts : /\ <<"legLinks", x>> \in Reads(q) => q = Trail(x)
                              /\ <<"payoutLinks", x>> \in Reads(q) => q = DocumentsOf(x)
    BY <1>1, <1>18, Readers
  <2>5. CASE f = <<"files">> \/ \E x \in Payouts : f = <<"payoutLinks", x>>
    <3>1. q[1] = "documents"
      BY <1>2, <2>4, <2>5, DocumentsBegin
    <3> QED
      BY <1>3, <2>2, <3>1 DEF Names
  <2>6. ASSUME NEW x \in Payouts, f = <<"legLinks", x>>
        PROVE  q \in Named[m]
    <3>1. q = Trail(x)
      BY <1>2, <2>4, <2>6
    <3> QED
      BY <1>3, <2>2, <3>1
  <2> QED
    BY <2>3, <2>5, <2>6
<1> QED
  BY <1>5, <1>6, <1>7, <1>8, <1>9, <1>10, <1>11,
     <1>12, <1>13, <1>14, <1>15, <1>16, <1>17, <1>18, KnownMutations DEF Addressed, p

-----------------------------------------------------------------------------
(* The invariant *)

WriteSteps == {"none", "sent", "done", "failed", "signedOut"}
Shape ==
  /\ DOMAIN cache \subseteq Queries /\ \A q \in DOMAIN cache : cache[q] \in Entries
  /\ write \in [m : Mutations \cup {NoWrite.m}, step : WriteSteps, by : 0..MaxSession]
  /\ write.step \in {"sent", "done"} => write.m \in Mutations
  /\ settle \in [payout : Payouts \cup {NoPayout}, step : WriteSteps,
                 by : 0..MaxSession, snapshot : Entries]
  /\ settle.step # "none" => settle.payout \in Payouts
  /\ me \in 0..MaxSession /\ live \subseteq 1..MaxSession
  /\ sessions \in 0..MaxSession

(* An answer is due whose hook names the query: what is wrong with it is    *)
(* about to be put right.                                                   *)
Due(q, w, s) ==
  \/ w.step = "done" /\ q \in Named[w.m] \cup Removed[w.m]
  \/ s.step \in {"done", "failed"} /\ q \in Named[Settle(s.payout)]

(* The optimistic settlement stands in the entry, and will be taken back. *)
Guessing(q, s) == s.step # "none" /\ q = SettlementOf(s.payout)

(* What keeps an entry honest between a commit and its invalidation, and    *)
(* between one session and the next.                                        *)
Honest(q, e, w, s) ==
  /\ Pending(e) => e.shown
  /\ e.fetch = "wrong" => Due(q, w, s)
  /\ e.data = "wrong" => e.stale \/ Due(q, w, s) \/ Guessing(q, s)
  /\ e.shown /\ e.data = "none" => e.fetch # "idle" \/ Guessing(q, s)
Owned(q, e, s, who) ==
  /\ e.fetch \in Truths => who # 0
  /\ e.data # "none" => e.by # 0
  /\ e.data # "none" /\ e.by # who =>
       /\ \E p \in Payouts : q = SettlementOf(p)
       /\ e.stale \/ Guessing(q, s)

(* What is kept for a rollback. *)
Aside(e) ==
  /\ e.fetch = "idle" /\ ~e.shown
  /\ e.data # "none" => e.by # 0

Inv ==
  /\ Shape
  /\ \A q \in DOMAIN cache : Honest(q, cache[q], write, settle)
  /\ \A q \in DOMAIN cache : Owned(q, cache[q], settle, me)
  /\ Aside(settle.snapshot)

(* What the steps do to one entry *)

LEMMA EntryFields ==
  ASSUME NEW e \in Entries
  PROVE  /\ e.data \in Truths \cup {"none"} /\ e.stale \in BOOLEAN /\ e.by \in 0..MaxSession
         /\ e.fetch \in {"idle", "failed", "asked"} \cup Truths /\ e.shown \in BOOLEAN
BY DEF Entries

LEMMA TaintedTruth ==
  ASSUME NEW m \in Known, NEW heard \in BOOLEAN, NEW q \in Queries, NEW t
  PROVE  /\ t \notin Truths => Tainted(m, heard, q, t) = t
         /\ t \in Truths => Tainted(m, heard, q, t) \in Truths
         /\ Tainted(m, heard, q, t) = "wrong" =>
              t = "wrong" \/ (heard /\ q \in Named[m] \cup Removed[m])
<1>1. q \in Changes[m] /\ q \notin Missed[m] => q \in Named[m] \cup Removed[m]
  BY HooksNameWhatTheyChange
<1> QED
  BY <1>1 DEF Tainted, Truths

TaintedBy(m, heard, q, e) ==
  [e EXCEPT !.data = Tainted(m, heard, q, @), !.fetch = Tainted(m, heard, q, @)]

LEMMA TaintedEntry ==
  ASSUME NEW m \in Known, NEW heard \in BOOLEAN, NEW q \in Queries, NEW e \in Entries,
         NEW f, f = TaintedBy(m, heard, q, e)
  PROVE  /\ f \in Entries
         /\ f.shown = e.shown /\ f.stale = e.stale /\ f.by = e.by
         /\ f.data = "none" <=> e.data = "none"
         /\ f.fetch = "idle" <=> e.fetch = "idle"
         /\ f.fetch \in Truths <=> e.fetch \in Truths
         /\ Pending(f) <=> Pending(e)
         /\ f.data = "wrong" =>
              e.data = "wrong" \/ (heard /\ q \in Named[m] \cup Removed[m])
         /\ f.fetch = "wrong" =>
              e.fetch = "wrong" \/ (heard /\ q \in Named[m] \cup Removed[m])
<1>1. /\ f.data = Tainted(m, heard, q, e.data) /\ f.fetch = Tainted(m, heard, q, e.fetch)
      /\ f.shown = e.shown /\ f.stale = e.stale /\ f.by = e.by
  BY DEF Entries, TaintedBy
<1>2. /\ e.data \notin Truths => f.data = e.data
      /\ e.data \in Truths => f.data \in Truths
      /\ e.fetch \notin Truths => f.fetch = e.fetch
      /\ e.fetch \in Truths => f.fetch \in Truths
  BY <1>1, TaintedTruth
<1>3. f.data \in Truths \cup {"none"} /\ f.fetch \in {"idle", "failed", "asked"} \cup Truths
  BY <1>2, EntryFields
<1>4. f \in Entries
  BY <1>1, <1>3 DEF Entries, TaintedBy
<1>5. /\ f.data = "wrong" =>
           e.data = "wrong" \/ (heard /\ q \in Named[m] \cup Removed[m])
      /\ f.fetch = "wrong" =>
           e.fetch = "wrong" \/ (heard /\ q \in Named[m] \cup Removed[m])
  BY <1>1, TaintedTruth
<1>6. /\ f.data = "none" <=> e.data = "none"
      /\ f.fetch = "idle" <=> e.fetch = "idle"
      /\ f.fetch \in Truths <=> e.fetch \in Truths
      /\ Pending(f) <=> Pending(e)
  BY <1>2, EntryFields DEF Truths, Pending
<1> QED
  BY <1>1, <1>4, <1>5, <1>6

LEMMA InvalidatedEntry ==
  ASSUME NEW e \in Entries, Pending(e) => e.shown, NEW f, f = Invalidated(e)
  PROVE  /\ f \in Entries
         /\ f.data = e.data /\ f.shown = e.shown /\ f.by = e.by
         /\ Pending(f) => f.shown
         /\ f.fetch \in Truths => e.fetch \in Truths
         /\ f.fetch # "wrong"
         /\ f.data # "none" => f.stale
         /\ f.shown /\ f.data = "none" => f.fetch # "idle"
<1>1. CASE e.data = "none" /\ Pending(e)
  <2>1. f = [e EXCEPT !.fetch = IF @ = "wrong" THEN "raced" ELSE @]
    BY <1>1 DEF Invalidated
  <2>2. /\ f.data = e.data /\ f.shown = e.shown /\ f.by = e.by /\ f.stale = e.stale
        /\ f.fetch = (IF e.fetch = "wrong" THEN "raced" ELSE e.fetch)
    BY <2>1 DEF Entries
  <2>3. f \in Entries
    BY <2>1 DEF Entries, Truths
  <2> QED
    BY <1>1, <2>2, <2>3 DEF Pending, Truths
<1>2. CASE ~(e.data = "none" /\ Pending(e))
  <2>1. f = [e EXCEPT !.stale = (e.data # "none"), !.fetch = IF e.shown THEN "asked" ELSE @]
    BY <1>2 DEF Invalidated
  <2>2. /\ f.data = e.data /\ f.shown = e.shown /\ f.by = e.by
        /\ f.stale = (e.data # "none")
        /\ f.fetch = (IF e.shown THEN "asked" ELSE e.fetch)
    BY <2>1 DEF Entries
  <2>3. f \in Entries
    BY <2>1 DEF Entries
  <2> QED
    BY <1>2, <2>2, <2>3 DEF Pending, Truths
<1> QED
  BY <1>1, <1>2

LEMMA GuessedEntry ==
  ASSUME NEW e \in Entries, NEW f, f = Guessed(e)
  PROVE  /\ f \in Entries
         /\ f.shown = e.shown /\ f.by = e.by
         /\ f.data = "none" <=> e.data = "none"
         /\ ~Pending(f)
<1>1. CASE e.data = "none"
  <2>1. f = [e EXCEPT !.fetch = IF Pending(e) THEN "idle" ELSE @]
    BY <1>1 DEF Guessed
  <2>2. /\ f.data = e.data /\ f.shown = e.shown /\ f.by = e.by
        /\ f.fetch = (IF Pending(e) THEN "idle" ELSE e.fetch)
    BY <2>1 DEF Entries
  <2>3. f \in Entries
    BY <2>1 DEF Entries
  <2> QED
    BY <1>1, <2>2, <2>3 DEF Pending, Truths
<1>2. CASE e.data # "none"
  <2>1. f = [e EXCEPT !.data = "wrong", !.stale = FALSE,
                      !.fetch = IF Pending(e) THEN "idle" ELSE @]
    BY <1>2 DEF Guessed
  <2>2. /\ f.data = "wrong" /\ f.shown = e.shown /\ f.by = e.by
        /\ f.fetch = (IF Pending(e) THEN "idle" ELSE e.fetch)
    BY <2>1 DEF Entries
  <2>3. f \in Entries
    BY <2>1 DEF Entries, Truths
  <2> QED
    BY <1>2, <2>2, <2>3 DEF Pending, Truths
<1> QED
  BY <1>1, <1>2

LEMMA SettleIsNamed ==
  ASSUME NEW p \in Payouts
  PROVE  /\ Settle(p) \in Known /\ Removed[Settle(p)] = {}
         /\ SettlementOf(p) \in Queries /\ SettlementOf(p) \in Named[Settle(p)]
<1>1. Settle(p) \in Known
  BY DEF Known
<1>2. SettlementOf(p) \in Queries
  BY DEF Queries
<1>3. <<"payouts", p>> \in Invalidates(Settle(p))
  BY DEF Settle, Invalidates, CachesOfMoney, cachesAffectedByTransaction
<1>4. SettlementOf(p) \in Named[Settle(p)]
  BY <1>1, <1>2, <1>3, ReachedBy DEF Named
<1>5. Removed[Settle(p)] = {}
  BY <1>1 DEF Removed, Removes, Reached, Settle
<1> QED
  BY <1>1, <1>2, <1>4, <1>5

LEMMA SettlementsDiffer ==
  \A p, x \in Payouts : SettlementOf(p) = SettlementOf(x) => p = x
BY DEF SettlementOf

-----------------------------------------------------------------------------
(* The steps *)

LEMMA InitInv == Init => Inv
<1> SUFFICES ASSUME Init PROVE Inv
  OBVIOUS
<1>1. DOMAIN cache = {}
  BY DEF Init, Empty
<1>2. Fresh("none", 0) \in Entries /\ Aside(Fresh("none", 0))
  BY WebCacheConstants DEF Fresh, Entries, Aside
<1>3. /\ write \in [m : Mutations \cup {NoWrite.m}, step : WriteSteps, by : 0..MaxSession]
      /\ write.step = "none"
  BY WebCacheConstants DEF Init, NoWrite, WriteSteps
<1>4. /\ settle \in [payout : Payouts \cup {NoPayout}, step : WriteSteps,
                    by : 0..MaxSession, snapshot : Entries]
      /\ settle.step = "none" /\ Aside(settle.snapshot)
  BY <1>2, WebCacheConstants DEF Init, NoSettle, WriteSteps
<1> QED
  BY <1>1, <1>3, <1>4, WebCacheConstants DEF Init, Inv, Shape

LEMMA NoneInFlight ==
  /\ NoWrite.step = "none" /\ NoSettle.step = "none"
  /\ Unsuccessful.step = "failed" /\ Unsuccessful.m = NoWrite.m /\ Unsuccessful.by = 0
  /\ Unsuccessful = [m |-> NoWrite.m, step |-> "failed", by |-> 0]
BY DEF NoWrite, NoSettle, Unsuccessful

(* One entry is put; the rest of the state is as it was. *)
LEMMA OneEntry ==
  ASSUME Inv, UNCHANGED others, NEW q \in Queries, NEW e \in Entries, Set(q, e),
         Honest(q, e, write, settle), Owned(q, e, settle, me)
  PROVE  Inv'
<1>1. /\ DOMAIN cache' = DOMAIN cache \cup {q}
      /\ \A x \in DOMAIN cache' : cache'[x] = IF x = q THEN e ELSE cache[x]
  BY DEF Set
<1>2. Shape'
  BY <1>1 DEF Inv, Shape, others
<1>3. \A x \in DOMAIN cache' : Honest(x, cache'[x], write, settle)
  BY <1>1 DEF Inv
<1>4. \A x \in DOMAIN cache' : Owned(x, cache'[x], settle, me)
  BY <1>1 DEF Inv
<1> QED
  BY <1>2, <1>3, <1>4 DEF Inv, others

LEMMA InvOfEntry ==
  ASSUME Inv, NEW q \in Queries, Has(q)
  PROVE  /\ cache[q] \in Entries /\ Honest(q, cache[q], write, settle)
         /\ Owned(q, cache[q], settle, me)
BY DEF Inv, Shape, Has

LEMMA MountKeeps == ASSUME Inv, NEW q \in Queries, Mount(q) PROVE Inv'
<1>1. UNCHANGED others
  BY DEF Mount
<1>2. CASE ~HasData(q)
  <2> DEFINE e == [Fresh("none", 0) EXCEPT !.fetch = "asked", !.shown = TRUE]
  <2>0. Fresh("none", 0) \in Entries
    BY WebCacheConstants DEF Fresh, Entries
  <2>1. /\ e.data = "none" /\ e.fetch = "asked" /\ e.shown /\ ~e.stale
        /\ e \in Entries
    BY <2>0 DEF Fresh, Entries
  <2>2. Set(q, e)
    BY <1>2 DEF Mount
  <2> HIDE DEF e
  <2>3. Honest(q, e, write, settle) /\ Owned(q, e, settle, me)
    BY <1>1, <2>1 DEF Honest, Owned, Truths
  <2> QED
    BY <1>1, <2>1, <2>2, <2>3, OneEntry
<1>3. CASE HasData(q)
  <2>1. PICK c \in Entries : c = cache[q] /\ Has(q)
    BY <1>3, InvOfEntry DEF HasData
  <2> DEFINE e == IF c.stale THEN [c EXCEPT !.fetch = "asked", !.shown = TRUE]
                  ELSE [c EXCEPT !.shown = TRUE]
  <2>2. /\ e.data = c.data /\ e.stale = c.stale /\ e.by = c.by /\ e.shown
        /\ e.fetch \in {"asked", c.fetch}
        /\ e \in Entries
    BY DEF Entries
  <2>3. Set(q, e)
    BY <1>3, <2>1 DEF Mount
  <2> HIDE DEF e
  <2>4. Honest(q, e, write, settle) /\ Owned(q, e, settle, me)
    BY <1>1, <1>3, <2>1, <2>2, InvOfEntry DEF Honest, Owned, HasData, Truths
  <2> QED
    BY <1>1, <2>2, <2>3, <2>4, OneEntry
<1> QED
  BY <1>2, <1>3

LEMMA UnmountKeeps == ASSUME Inv, NEW q \in Queries, Unmount(q) PROVE Inv'
<1>1. PICK c \in Entries : c = cache[q] /\ Has(q)
  BY InvOfEntry DEF Unmount
<1> DEFINE e == [c EXCEPT !.fetch = "idle", !.shown = FALSE]
<1>2. /\ e.data = c.data /\ e.stale = c.stale /\ e.by = c.by /\ ~e.shown
      /\ e.fetch = "idle" /\ e \in Entries
  BY DEF Entries
<1>3. Set(q, e) /\ UNCHANGED others
  BY <1>1 DEF Unmount, Left
<1> HIDE DEF e
<1>4. Honest(q, e, write, settle) /\ Owned(q, e, settle, me)
  BY <1>1, <1>2, InvOfEntry DEF Honest, Owned, Pending, Truths
<1> QED
  BY <1>2, <1>3, <1>4, OneEntry

LEMMA AgeKeeps == ASSUME Inv, NEW q \in Queries, Age(q) PROVE Inv'
<1>1. PICK c \in Entries : c = cache[q] /\ Has(q)
  BY InvOfEntry DEF Age, HasData
<1> DEFINE e == [c EXCEPT !.stale = TRUE]
<1>2. /\ e.data = c.data /\ e.stale /\ e.by = c.by /\ e.shown = c.shown
      /\ e.fetch = c.fetch /\ e \in Entries
  BY DEF Entries
<1>3. Set(q, e) /\ UNCHANGED others
  BY <1>1 DEF Age
<1> HIDE DEF e
<1>4. Honest(q, e, write, settle) /\ Owned(q, e, settle, me)
  BY <1>1, <1>2, InvOfEntry DEF Honest, Owned, Pending
<1> QED
  BY <1>2, <1>3, <1>4, OneEntry

LEMMA CollectKeeps == ASSUME Inv, NEW q \in Queries, Collect(q) PROVE Inv'
<1>1. /\ DOMAIN cache' \subseteq DOMAIN cache
      /\ \A x \in DOMAIN cache' : cache'[x] = cache[x]
      /\ UNCHANGED others
  BY DEF Collect, Restrict
<1>2. Shape'
  BY <1>1 DEF Inv, Shape, others
<1> QED
  BY <1>1, <1>2 DEF Inv, others

LEMMA ServerReadsKeeps == ASSUME Inv, NEW q \in Queries, ServerReads(q) PROVE Inv'
<1>1. PICK c \in Entries : c = cache[q] /\ Has(q) /\ c.fetch = "asked"
  BY InvOfEntry DEF ServerReads
<1>0. me # 0
  BY DEF ServerReads, Inv, Shape
<1> DEFINE e == [c EXCEPT !.fetch = "right"]
<1>2. /\ e.data = c.data /\ e.stale = c.stale /\ e.by = c.by /\ e.shown = c.shown
      /\ e.fetch = "right" /\ e \in Entries
  BY DEF Entries, Truths
<1>3. Set(q, e) /\ UNCHANGED others
  BY <1>1 DEF ServerReads
<1> HIDE DEF e
<1>4. Honest(q, e, write, settle) /\ Owned(q, e, settle, me)
  BY <1>0, <1>1, <1>2, InvOfEntry DEF Honest, Owned, Pending, Truths
<1> QED
  BY <1>2, <1>3, <1>4, OneEntry

LEMMA AnswerLandsKeeps == ASSUME Inv, NEW q \in Queries, AnswerLands(q) PROVE Inv'
<1>1. PICK c \in Entries : c = cache[q] /\ Has(q) /\ c.fetch \in Truths
  BY InvOfEntry DEF AnswerLands
<1>2. me # 0 /\ me \in 0..MaxSession
  BY <1>1, InvOfEntry DEF Honest, Owned, Pending, Inv, Shape
<1> DEFINE e == [Fresh(c.fetch, me) EXCEPT !.shown = TRUE]
<1>3. /\ e.data = c.fetch /\ ~e.stale /\ e.by = me /\ e.shown
      /\ e.fetch = "idle" /\ e \in Entries
  BY <1>1, <1>2 DEF Entries, Fresh
<1>4. Set(q, e) /\ UNCHANGED others
  BY <1>1 DEF AnswerLands
<1> HIDE DEF e
<1>5. Honest(q, e, write, settle) /\ Owned(q, e, settle, me)
  BY <1>1, <1>2, <1>3, InvOfEntry DEF Honest, Owned, Pending, Truths
<1> QED
  BY <1>3, <1>4, <1>5, OneEntry

LEMMA FetchFailsKeeps == ASSUME Inv, NEW q \in Queries, FetchFails(q) PROVE Inv'
<1>1. PICK c \in Entries : c = cache[q] /\ Has(q)
  BY InvOfEntry DEF FetchFails
<1> DEFINE e == [c EXCEPT !.fetch = "failed", !.stale = (c.data # "none")]
<1>2. /\ e.data = c.data /\ e.stale = (c.data # "none") /\ e.by = c.by
      /\ e.shown = c.shown /\ e.fetch = "failed" /\ e \in Entries
  BY DEF Entries
<1>3. Set(q, e) /\ UNCHANGED others
  BY <1>1 DEF FetchFails, HasData
<1> HIDE DEF e
<1>4. Honest(q, e, write, settle) /\ Owned(q, e, settle, me)
  BY <1>1, <1>2, InvOfEntry DEF Honest, Owned, Pending, Truths
<1> QED
  BY <1>2, <1>3, <1>4, OneEntry

(* Clearing leaves nothing to be honest about. *)
LEMMA ClearKeeps ==
  ASSUME Inv, Clear, Shape', settle'.snapshot = settle.snapshot
  PROVE  Inv'
<1>1. DOMAIN cache' = {}
  BY DEF Clear, Empty
<1> QED
  BY <1>1 DEF Inv

LEMMA ReadSignedOutKeeps == ASSUME Inv, NEW q \in Queries, ReadSignedOut(q) PROVE Inv'
<1>1. /\ Clear /\ write' = write /\ settle' = settle /\ live' = live /\ sessions' = sessions
      /\ DOMAIN cache' = {} /\ me' = 0
  BY DEF ReadSignedOut, Clear, Empty
<1>2. Shape'
  BY <1>1, WebCacheConstants DEF Inv, Shape
<1> QED
  BY <1>1, <1>2, ClearKeeps

(* Nothing but a mutation's own state changes, and no answer that is due    *)
(* becomes less so.                                                         *)
LEMMA InFlight ==
  ASSUME Inv, cache' = cache, me' = me, Shape', Aside(settle'.snapshot),
         \A q \in DOMAIN cache :
           /\ Due(q, write, settle) => Due(q, write', settle')
           /\ Guessing(q, settle) => Guessing(q, settle')
  PROVE  Inv'
<1>1. \A q \in DOMAIN cache : Honest(q, cache[q], write', settle')
  BY DEF Inv, Honest
<1>2. \A q \in DOMAIN cache : Owned(q, cache[q], settle', me)
  BY DEF Inv, Owned
<1> QED
  BY <1>1, <1>2 DEF Inv

LEMMA SendKeeps == ASSUME Inv, NEW m \in Mutations, Send(m) PROVE Inv'
<1>1. /\ write = NoWrite /\ write' = [m |-> m, step |-> "sent", by |-> me]
      /\ UNCHANGED <<cache, settle, me, live, sessions>>
  BY DEF Send
<1>2. /\ write' \in [m : Mutations \cup {NoWrite.m}, step : WriteSteps, by : 0..MaxSession]
      /\ write'.m \in Mutations
  BY <1>1 DEF Inv, Shape, WriteSteps
<1>3. Shape'
  BY <1>1, <1>2 DEF Inv, Shape
<1>4. ~(write.step = "done")
  BY <1>1, NoneInFlight
<1> QED
  BY <1>1, <1>3, <1>4, InFlight DEF Due, Inv

LEMMA RefuseKeeps == ASSUME Inv, Refuse PROVE Inv'
<1>1. /\ write.step = "sent" /\ UNCHANGED <<cache, settle, me, live, sessions>>
      /\ write' = IF write.by \in live THEN Unsuccessful
                  ELSE [Unsuccessful EXCEPT !.step = "signedOut"]
  BY DEF Refuse
<1>2. /\ write' \in [m : Mutations \cup {NoWrite.m}, step : WriteSteps, by : 0..MaxSession]
      /\ write'.step \in {"failed", "signedOut"}
  BY <1>1, NoneInFlight, WebCacheConstants DEF WriteSteps
<1>3. Shape'
  BY <1>1, <1>2 DEF Inv, Shape
<1> QED
  BY <1>1, <1>3, InFlight DEF Due, Inv

LEMMA FailKeeps == ASSUME Inv, Fail PROVE Inv'
<1>1. /\ write.step = "failed" /\ write' = NoWrite
      /\ UNCHANGED <<cache, settle, me, live, sessions>>
  BY DEF Fail
<1>2. /\ write' \in [m : Mutations \cup {NoWrite.m}, step : WriteSteps, by : 0..MaxSession]
      /\ write'.step = "none"
  BY <1>1, NoneInFlight, WebCacheConstants DEF WriteSteps, NoWrite
<1>3. Shape'
  BY <1>1, <1>2 DEF Inv, Shape
<1> QED
  BY <1>1, <1>3, InFlight DEF Due, Inv

LEMMA WriteSignedOutKeeps == ASSUME Inv, WriteSignedOut PROVE Inv'
<1>1. /\ Clear /\ write' = NoWrite /\ settle' = settle /\ live' = live /\ sessions' = sessions
      /\ DOMAIN cache' = {} /\ me' = 0
  BY DEF WriteSignedOut, Clear, Empty
<1>2. /\ write' \in [m : Mutations \cup {NoWrite.m}, step : WriteSteps, by : 0..MaxSession]
      /\ write'.step = "none"
  BY <1>1, NoneInFlight, WebCacheConstants DEF WriteSteps, NoWrite
<1>3. Shape'
  BY <1>1, <1>2, WebCacheConstants DEF Inv, Shape
<1> QED
  BY <1>1, <1>3, ClearKeeps

(* A commit: what it taints is named by the answer it leaves behind. *)
LEMMA TaintKeeps ==
  ASSUME Inv, NEW m \in Known, NEW heard \in BOOLEAN, Taint(m, heard), me' = me,
         \A q \in DOMAIN cache :
           /\ heard /\ q \in Named[m] \cup Removed[m] => Due(q, write', settle')
           /\ Due(q, write, settle) => Due(q, write', settle')
           /\ Guessing(q, settle) => Guessing(q, settle')
  PROVE  /\ DOMAIN cache' \subseteq Queries
         /\ \A q \in DOMAIN cache' : cache'[q] \in Entries
         /\ \A q \in DOMAIN cache' : Honest(q, cache'[q], write', settle')
         /\ \A q \in DOMAIN cache' : Owned(q, cache'[q], settle', me')
<1>1. DOMAIN cache' = DOMAIN cache /\ DOMAIN cache \subseteq Queries
  BY DEF Taint, Inv, Shape
<1>2. SUFFICES ASSUME NEW q \in DOMAIN cache
               PROVE  /\ cache'[q] \in Entries
                      /\ Honest(q, cache'[q], write', settle')
                      /\ Owned(q, cache'[q], settle', me')
  BY <1>1
<1>3. PICK e \in Entries : e = cache[q]
  BY DEF Inv, Shape
<1>4. PICK f : f = TaintedBy(m, heard, q, e)
  OBVIOUS
<1>5. cache'[q] = f
  BY <1>3, <1>4 DEF Taint, TaintedBy
<1>6. Honest(q, e, write, settle) /\ Owned(q, e, settle, me)
  BY <1>3 DEF Inv
<1>7. q \in Queries
  BY <1>1
<1>8. /\ f \in Entries
      /\ f.shown = e.shown /\ f.stale = e.stale /\ f.by = e.by
      /\ f.data = "none" <=> e.data = "none"
      /\ f.fetch = "idle" <=> e.fetch = "idle"
      /\ f.fetch \in Truths <=> e.fetch \in Truths
      /\ Pending(f) <=> Pending(e)
      /\ f.data = "wrong" =>
           e.data = "wrong" \/ (heard /\ q \in Named[m] \cup Removed[m])
      /\ f.fetch = "wrong" =>
           e.fetch = "wrong" \/ (heard /\ q \in Named[m] \cup Removed[m])
  BY <1>4, <1>7, TaintedEntry
<1>9. Honest(q, f, write', settle')
  BY <1>6, <1>8 DEF Honest
<1>10. Owned(q, f, settle', me)
  BY <1>6, <1>8 DEF Owned
<1> QED
  BY <1>5, <1>8, <1>9, <1>10

LEMMA KnownSent == Mutations \subseteq Known
BY DEF Known

LEMMA CommitKeeps == ASSUME Inv, NEW heard \in BOOLEAN, Commit(heard) PROVE Inv'
<1>1. /\ write.step = "sent" /\ Taint(write.m, heard)
      /\ UNCHANGED <<me, live, sessions>>
      /\ write.m \in Mutations /\ write.m \in Known
  BY KnownSent DEF Commit, Inv, Shape
<1>2. settle' = IF settle = NoSettle THEN settle
                ELSE [settle EXCEPT !.snapshot.data =
                       Tainted(write.m, heard, SettlementOf(settle.payout), @)]
  BY DEF Commit
<1>3. write' = IF heard THEN [write EXCEPT !.step = "done", !.by = 0] ELSE Unsuccessful
  BY DEF Commit
<1>4. /\ write' \in [m : Mutations \cup {NoWrite.m}, step : WriteSteps, by : 0..MaxSession]
      /\ heard => write'.step = "done" /\ write'.m = write.m
      /\ ~heard => write'.step = "failed"
  <2>1. write \in [m : Mutations \cup {NoWrite.m}, step : WriteSteps, by : 0..MaxSession]
    BY DEF Inv, Shape
  <2>2. 0 \in 0..MaxSession
    BY WebCacheConstants
  <2> QED
    BY <1>3, <2>1, <2>2, NoneInFlight DEF WriteSteps
<1>5. PICK c \in Entries : c = settle.snapshot /\ Aside(c)
  BY DEF Inv, Shape
<1>6. /\ settle' \in [payout : Payouts \cup {NoPayout}, step : WriteSteps,
                     by : 0..MaxSession, snapshot : Entries]
      /\ settle'.step = settle.step /\ settle'.payout = settle.payout
      /\ Aside(settle'.snapshot)
  <2>1. settle \in [payout : Payouts \cup {NoPayout}, step : WriteSteps,
                   by : 0..MaxSession, snapshot : Entries]
    BY DEF Inv, Shape
  <2>2. CASE settle = NoSettle
    BY <1>2, <1>5, <2>1, <2>2
  <2>3. CASE settle # NoSettle
    <3>1. PICK t : t = Tainted(write.m, heard, SettlementOf(settle.payout), c.data)
      OBVIOUS
    <3>2. PICK d : d = [c EXCEPT !.data = t]
      OBVIOUS
    <3>3. t \in Truths \cup {"none"} /\ (t = "none" <=> c.data = "none")
      BY <3>1, EntryFields DEF Tainted, Truths
    <3>4. /\ d \in Entries /\ d.data = t /\ d.fetch = c.fetch /\ d.shown = c.shown
          /\ d.by = c.by
      BY <3>2, <3>3 DEF Entries
    <3>5. settle' = [settle EXCEPT !.snapshot = d]
      BY <1>2, <1>5, <2>1, <2>3, <3>1, <3>2
    <3>6. Aside(d)
      BY <1>5, <3>3, <3>4 DEF Aside
    <3> QED
      BY <2>1, <3>4, <3>5, <3>6
  <2> QED
    BY <2>2, <2>3
<1>7. \A q \in DOMAIN cache :
        /\ heard /\ q \in Named[write.m] \cup Removed[write.m] => Due(q, write', settle')
        /\ Due(q, write, settle) => Due(q, write', settle')
        /\ Guessing(q, settle) => Guessing(q, settle')
  BY <1>1, <1>4, <1>6 DEF Due, Guessing
<1>8. /\ DOMAIN cache' \subseteq Queries
      /\ \A q \in DOMAIN cache' : cache'[q] \in Entries
      /\ \A q \in DOMAIN cache' : Honest(q, cache'[q], write', settle')
      /\ \A q \in DOMAIN cache' : Owned(q, cache'[q], settle', me')
  BY <1>1, <1>7, TaintKeeps
<1>9. Shape'
  BY <1>1, <1>4, <1>6, <1>8 DEF Inv, Shape
<1> QED
  BY <1>6, <1>8, <1>9 DEF Inv

LEMMA InvalidateNames ==
  ASSUME NEW c, NEW named, NEW d, d = Invalidate(named, c),
         \A q \in DOMAIN c : c[q] \in Entries /\ (Pending(c[q]) => c[q].shown)
  PROVE  /\ DOMAIN d = DOMAIN c
         /\ \A q \in DOMAIN c :
              /\ d[q] \in Entries
              /\ q \notin named => d[q] = c[q]
              /\ q \in named =>
                   /\ d[q].data = c[q].data /\ d[q].shown = c[q].shown /\ d[q].by = c[q].by
                   /\ Pending(d[q]) => d[q].shown
                   /\ d[q].fetch \in Truths => c[q].fetch \in Truths
                   /\ d[q].fetch # "wrong"
                   /\ d[q].data # "none" => d[q].stale
                   /\ d[q].shown /\ d[q].data = "none" => d[q].fetch # "idle"
<1>1. /\ DOMAIN d = DOMAIN c
      /\ \A q \in DOMAIN c : d[q] = IF q \in named THEN Invalidated(c[q]) ELSE c[q]
  BY DEF Invalidate
<1> QED
  BY <1>1, InvalidatedEntry

LEMMA SucceedKeeps == ASSUME Inv, Succeed PROVE Inv'
<1> DEFINE c == Restrict(cache, DOMAIN cache \ Removed[write.m])
           named == Named[write.m]
<1>1. /\ write.step = "done" /\ cache' = Invalidate(named, c) /\ write' = NoWrite
      /\ UNCHANGED <<settle, me, live, sessions>>
  BY DEF Succeed
<1>2. /\ DOMAIN c = DOMAIN cache \ Removed[write.m]
      /\ \A q \in DOMAIN c : c[q] = cache[q]
  BY DEF Restrict
<1> HIDE DEF c
<1>3. \A q \in DOMAIN c :
        /\ q \in Queries /\ q \notin Removed[write.m]
        /\ c[q] \in Entries /\ (Pending(c[q]) => c[q].shown)
        /\ Honest(q, c[q], write, settle) /\ Owned(q, c[q], settle, me)
  BY <1>2 DEF Inv, Shape, Honest
<1>4. /\ DOMAIN cache' = DOMAIN c
      /\ \A q \in DOMAIN c :
           /\ cache'[q] \in Entries
           /\ q \notin named => cache'[q] = c[q]
           /\ q \in named =>
                /\ cache'[q].data = c[q].data /\ cache'[q].shown = c[q].shown
                /\ cache'[q].by = c[q].by
                /\ Pending(cache'[q]) => cache'[q].shown
                /\ cache'[q].fetch \in Truths => c[q].fetch \in Truths
                /\ cache'[q].fetch # "wrong"
                /\ cache'[q].data # "none" => cache'[q].stale
                /\ cache'[q].shown /\ cache'[q].data = "none" => cache'[q].fetch # "idle"
  BY <1>1, <1>3, InvalidateNames
<1>5. \A q \in DOMAIN c : q \notin named => (Due(q, write, settle) => Due(q, NoWrite, settle))
  BY <1>3 DEF Due
<1>6. \A q \in DOMAIN cache' : Honest(q, cache'[q], NoWrite, settle)
  BY <1>3, <1>4, <1>5 DEF Honest
<1>7. \A q \in DOMAIN cache' : Owned(q, cache'[q], settle, me)
  BY <1>3, <1>4 DEF Owned
<1>8. NoWrite \in [m : Mutations \cup {NoWrite.m}, step : WriteSteps, by : 0..MaxSession]
  BY WebCacheConstants DEF WriteSteps, NoWrite
<1>9. Shape'
  BY <1>1, <1>3, <1>4, <1>8, NoneInFlight DEF Inv, Shape
<1> QED
  BY <1>1, <1>6, <1>7, <1>9 DEF Inv

LEMMA BeginSettleKeeps == ASSUME Inv, NEW p \in Payouts, BeginSettle(p) PROVE Inv'
<1> DEFINE q == SettlementOf(p)
<1>1. /\ settle = NoSettle /\ UNCHANGED <<write, me, live, sessions>>
      /\ settle' = [payout |-> p, step |-> "sent", by |-> me,
                    snapshot |-> IF HasData(q) THEN Fresh(cache[q].data, cache[q].by)
                                 ELSE Fresh("none", 0)]
      /\ cache' = [x \in DOMAIN cache |-> IF x = q THEN Guessed(cache[x]) ELSE cache[x]]
  BY DEF BeginSettle
<1>2. q \in Queries
  BY SettleIsNamed
<1>3. PICK k : k = settle'.snapshot
  OBVIOUS
<1>4. k \in Entries /\ Aside(k)
  <2>1. CASE HasData(q)
    <3>1. PICK e \in Entries : e = cache[q] /\ e.data # "none" /\ e.by # 0
      BY <1>2, <2>1, InvOfEntry DEF HasData, Owned
    <3>2. k = Fresh(e.data, e.by)
      BY <1>1, <1>3, <2>1, <3>1
    <3> QED
      BY <3>1, <3>2 DEF Fresh, Entries, Aside
  <2>2. CASE ~HasData(q)
    <3>1. k = Fresh("none", 0)
      BY <1>1, <1>3, <2>2
    <3> QED
      BY <3>1, WebCacheConstants DEF Fresh, Entries, Aside
  <2> QED
    BY <2>1, <2>2
<1>5. /\ settle' \in [payout : Payouts \cup {NoPayout}, step : WriteSteps,
                     by : 0..MaxSession, snapshot : Entries]
      /\ settle'.step = "sent" /\ settle'.payout = p
  BY <1>1, <1>3, <1>4 DEF Inv, Shape, WriteSteps
<1>6. settle.step = "none"
  BY <1>1, NoneInFlight
<1>7. ASSUME NEW x \in DOMAIN cache
      PROVE  /\ cache'[x] \in Entries
             /\ Honest(x, cache'[x], write, settle') /\ Owned(x, cache'[x], settle', me)
  <2>1. PICK e \in Entries : e = cache[x]
    BY DEF Inv, Shape
  <2>2. Honest(x, e, write, settle) /\ Owned(x, e, settle, me)
    BY <2>1 DEF Inv
  <2>3. /\ Due(x, write, settle) => Due(x, write, settle')
        /\ ~Guessing(x, settle) /\ (x = q => Guessing(x, settle'))
    BY <1>5, <1>6 DEF Due, Guessing
  <2>4. CASE x = q
    <3>1. PICK f : f = Guessed(e)
      OBVIOUS
    <3>2. /\ f \in Entries /\ f.shown = e.shown /\ f.by = e.by
          /\ f.data = "none" <=> e.data = "none"
          /\ ~Pending(f)
      BY <3>1, GuessedEntry
    <3>3. Honest(x, f, write, settle')
      BY <2>3, <2>4, <3>2 DEF Honest, Pending, Truths
    <3>4. Owned(x, f, settle', me)
      BY <2>2, <2>3, <2>4, <3>2 DEF Owned, Pending
    <3>5. cache'[x] = f
      BY <1>1, <2>1, <2>4, <3>1
    <3> QED
      BY <3>2, <3>3, <3>4, <3>5
  <2>5. CASE x # q
    <3>1. cache'[x] = e
      BY <1>1, <2>1, <2>5
    <3> QED
      BY <2>2, <2>3, <3>1 DEF Honest, Owned
  <2> QED
    BY <2>4, <2>5
<1>8. DOMAIN cache' = DOMAIN cache
  BY <1>1
<1>9. Shape'
  BY <1>1, <1>5, <1>7, <1>8 DEF Inv, Shape
<1> QED
  BY <1>1, <1>3, <1>4, <1>7, <1>8, <1>9 DEF Inv

LEMMA CommitSettleKeeps == ASSUME Inv, NEW heard \in BOOLEAN, CommitSettle(heard) PROVE Inv'
<1> DEFINE p == settle.payout
<1>1. /\ settle.step = "sent" /\ Taint(Settle(p), TRUE)
      /\ UNCHANGED <<write, me, live, sessions>>
      /\ settle' = [settle EXCEPT !.step = IF heard THEN "done" ELSE "failed", !.by = 0,
                                  !.snapshot.data = IF @ = "none" THEN @ ELSE "wrong"]
  BY DEF CommitSettle
<1>2. /\ p \in Payouts
      /\ settle \in [payout : Payouts \cup {NoPayout}, step : WriteSteps,
                     by : 0..MaxSession, snapshot : Entries]
  BY <1>1 DEF Inv, Shape
<1>3. PICK c \in Entries : c = settle.snapshot /\ Aside(c)
  BY <1>2 DEF Inv
<1>4. PICK d : d = [c EXCEPT !.data = IF @ = "none" THEN @ ELSE "wrong"]
  OBVIOUS
<1>5. d \in Entries /\ Aside(d)
  BY <1>3, <1>4 DEF Entries, Truths, Aside
<1>6. settle' = [payout |-> p, step |-> IF heard THEN "done" ELSE "failed", by |-> 0,
                 snapshot |-> d]
  BY <1>1, <1>2, <1>3, <1>4
<1>7. /\ settle' \in [payout : Payouts \cup {NoPayout}, step : WriteSteps,
                     by : 0..MaxSession, snapshot : Entries]
      /\ settle'.step \in {"done", "failed"} /\ settle'.payout = p
      /\ settle'.snapshot = d
  BY <1>2, <1>5, <1>6, WebCacheConstants DEF WriteSteps
<1>8. /\ Settle(p) \in Known /\ Removed[Settle(p)] = {}
  BY <1>2, SettleIsNamed
<1>9. \A q \in DOMAIN cache :
        /\ q \in Named[Settle(p)] \cup Removed[Settle(p)] => Due(q, write', settle')
        /\ Due(q, write, settle) => Due(q, write', settle')
        /\ Guessing(q, settle) => Guessing(q, settle')
  BY <1>1, <1>7, <1>8 DEF Due, Guessing
<1>10. /\ DOMAIN cache' \subseteq Queries
       /\ \A q \in DOMAIN cache' : cache'[q] \in Entries
       /\ \A q \in DOMAIN cache' : Honest(q, cache'[q], write', settle')
       /\ \A q \in DOMAIN cache' : Owned(q, cache'[q], settle', me')
  BY <1>1, <1>8, <1>9, TaintKeeps
<1>11. Shape'
  BY <1>1, <1>2, <1>7, <1>10 DEF Inv, Shape
<1> QED
  BY <1>5, <1>7, <1>10, <1>11 DEF Inv

LEMMA RefuseSettleKeeps == ASSUME Inv, RefuseSettle PROVE Inv'
<1>1. /\ settle.step = "sent" /\ UNCHANGED <<cache, write, me, live, sessions>>
      /\ settle' = [settle EXCEPT !.step = IF settle.by \in live THEN "failed" ELSE "signedOut",
                                  !.by = 0]
  BY DEF RefuseSettle
<1>2. /\ settle.payout \in Payouts
      /\ settle \in [payout : Payouts \cup {NoPayout}, step : WriteSteps,
                     by : 0..MaxSession, snapshot : Entries]
  BY <1>1 DEF Inv, Shape
<1>2a. settle' = [payout |-> settle.payout,
                 step |-> IF settle.by \in live THEN "failed" ELSE "signedOut",
                 by |-> 0, snapshot |-> settle.snapshot]
  BY <1>1, <1>2
<1>3. /\ settle' \in [payout : Payouts \cup {NoPayout}, step : WriteSteps,
                     by : 0..MaxSession, snapshot : Entries]
      /\ settle'.step \in {"failed", "signedOut"} /\ settle'.payout = settle.payout
      /\ settle'.snapshot = settle.snapshot
  BY <1>2a, <1>2, WebCacheConstants DEF WriteSteps
<1>4. Shape'
  BY <1>1, <1>2, <1>3 DEF Inv, Shape
<1>5. Aside(settle'.snapshot)
  BY <1>3 DEF Inv
<1>6. \A q \in DOMAIN cache :
        /\ Due(q, write, settle) => Due(q, write', settle')
        /\ Guessing(q, settle) => Guessing(q, settle')
  BY <1>1, <1>3 DEF Due, Guessing
<1> QED
  BY <1>1, <1>4, <1>5, <1>6, InFlight

(* What a rollback makes of a cache: the settlement's entry, and no other,  *)
(* is put back, shown as far as it was shown.                               *)
LEMMA RollsBackOne ==
  ASSUME settle.payout \in Payouts, settle.snapshot \in Entries, Aside(settle.snapshot),
         NEW c, NEW d, d = RolledBack(c),
         DOMAIN c \subseteq Queries,
         \A x \in DOMAIN c :
           c[x] \in Entries /\ (Pending(c[x]) => c[x].shown) /\ (c[x].data # "none" => c[x].by # 0)
  PROVE  LET q == SettlementOf(settle.payout) IN
         /\ DOMAIN d \subseteq DOMAIN c \cup {q} /\ DOMAIN d \subseteq Queries
         /\ \A x \in DOMAIN d :
              /\ x # q => x \in DOMAIN c /\ d[x] = c[x]
              /\ d[x] \in Entries
              /\ Pending(d[x]) => d[x].shown
              /\ d[x].data # "none" => d[x].by # 0
              /\ d[x].shown => x \in DOMAIN c /\ c[x].shown
              /\ d[x].fetch \in Truths => x \in DOMAIN c /\ c[x].fetch \in Truths
<1> DEFINE q == SettlementOf(settle.payout)
<1>1. q \in Queries
  BY SettleIsNamed
<1>2. PICK k \in Entries : k = settle.snapshot /\ Aside(k)
  OBVIOUS
<1>3. CASE k.data = "none"
  <2>1. d = c
    BY <1>2, <1>3 DEF RolledBack
  <2> QED
    BY <2>1
<1>4. CASE k.data # "none"
  <2>1. /\ DOMAIN d = DOMAIN c \cup {q}
        /\ \A x \in DOMAIN d :
             d[x] = IF x # q THEN c[x]
                    ELSE IF q \notin DOMAIN c THEN k
                    ELSE [k EXCEPT !.shown = c[q].shown, !.fetch = c[q].fetch]
    BY <1>2, <1>4 DEF RolledBack
  <2> HIDE DEF q
  <2>2. CASE q \notin DOMAIN c
    <3>1. d[q] = k
      BY <2>1, <2>2
    <3>2. ~Pending(k) /\ k.fetch \notin Truths /\ ~k.shown /\ k.by # 0
      BY <1>2, <1>4 DEF Aside, Pending, Truths
    <3> QED
      BY <1>1, <2>1, <2>2, <3>1, <3>2 DEF q
  <2>3. CASE q \in DOMAIN c
    <3>1. PICK e \in Entries : e = c[q] /\ (Pending(e) => e.shown)
      BY <2>3
    <3>2. PICK f : f = [k EXCEPT !.shown = e.shown, !.fetch = e.fetch]
      OBVIOUS
    <3>3. /\ f \in Entries /\ f.shown = e.shown /\ f.fetch = e.fetch
          /\ f.data = k.data /\ f.by = k.by
      BY <3>2 DEF Entries
    <3>4. d[q] = f
      BY <2>1, <2>3, <3>1, <3>2
    <3>5. (Pending(f) => f.shown) /\ f.by # 0
      BY <1>2, <1>4, <3>1, <3>3 DEF Pending, Aside
    <3> QED
      BY <1>1, <2>1, <2>3, <3>1, <3>3, <3>4, <3>5 DEF q
  <2> QED
    BY <2>2, <2>3
<1> QED
  BY <1>3, <1>4

LEMMA SettleAnsweredKeeps == ASSUME Inv, SettleAnswered PROVE Inv'
<1> DEFINE p == settle.payout
           q == SettlementOf(p)
           named == Named[Settle(p)]
<1>1. /\ settle.step \in {"done", "failed"} /\ settle' = NoSettle
      /\ cache' = Invalidate(named, IF settle.step = "done" THEN cache ELSE RolledBack(cache))
      /\ UNCHANGED <<write, me, live, sessions>>
  BY DEF SettleAnswered, Settled
<1>2. /\ p \in Payouts /\ settle.snapshot \in Entries /\ Aside(settle.snapshot)
      /\ q \in named
  BY <1>1, SettleIsNamed DEF Inv, Shape
<1>3. /\ DOMAIN cache \subseteq Queries
      /\ \A x \in DOMAIN cache :
           /\ cache[x] \in Entries /\ (Pending(cache[x]) => cache[x].shown)
           /\ cache[x].data # "none" => cache[x].by # 0
           /\ Honest(x, cache[x], write, settle) /\ Owned(x, cache[x], settle, me)
  BY DEF Inv, Shape, Honest, Owned
<1>4. PICK c : c = IF settle.step = "done" THEN cache ELSE RolledBack(cache)
  OBVIOUS
<1>5. /\ DOMAIN c \subseteq Queries
      /\ \A x \in DOMAIN c :
           /\ x # q => x \in DOMAIN cache /\ c[x] = cache[x]
           /\ c[x] \in Entries
           /\ Pending(c[x]) => c[x].shown
           /\ c[x].data # "none" => c[x].by # 0
           /\ c[x].fetch \in Truths => x \in DOMAIN cache /\ cache[x].fetch \in Truths
  <2>1. CASE settle.step = "done"
    BY <1>3, <1>4, <2>1
  <2>2. CASE settle.step # "done"
    BY <1>2, <1>3, <1>4, <2>2, RollsBackOne
  <2> QED
    BY <2>1, <2>2
<1> HIDE DEF named, q, p
<1>6. /\ DOMAIN cache' = DOMAIN c
      /\ \A x \in DOMAIN c :
           /\ cache'[x] \in Entries
           /\ x \notin named => cache'[x] = c[x]
           /\ x \in named =>
                /\ cache'[x].data = c[x].data /\ cache'[x].shown = c[x].shown
                /\ cache'[x].by = c[x].by
                /\ Pending(cache'[x]) => cache'[x].shown
                /\ cache'[x].fetch \in Truths => c[x].fetch \in Truths
                /\ cache'[x].fetch # "wrong"
                /\ cache'[x].data # "none" => cache'[x].stale
                /\ cache'[x].shown /\ cache'[x].data = "none" => cache'[x].fetch # "idle"
  BY <1>1, <1>4, <1>5, InvalidateNames
<1>7. ASSUME NEW x \in DOMAIN c
      PROVE  Honest(x, cache'[x], write, NoSettle) /\ Owned(x, cache'[x], NoSettle, me)
  <2>1. CASE x \in named
    <3>1. Honest(x, cache'[x], write, NoSettle)
      BY <1>6, <2>1 DEF Honest
    <3>2. cache'[x].fetch \in Truths => me # 0
      BY <1>3, <1>5, <1>6, <2>1 DEF Owned
    <3>3. cache'[x].data # "none" => cache'[x].by # 0 /\ cache'[x].stale
      BY <1>5, <1>6, <2>1
    <3>4. cache'[x].data # "none" /\ cache'[x].by # me => \E y \in Payouts : x = SettlementOf(y)
      BY <1>2, <1>3, <1>5, <1>6, <2>1 DEF Owned, q
    <3> QED
      BY <3>1, <3>2, <3>3, <3>4 DEF Owned
  <2>2. CASE x \notin named
    <3>1. x \in DOMAIN cache /\ cache'[x] = cache[x] /\ x # q
      BY <1>2, <1>5, <1>6, <2>2
    <3>2. /\ ~Guessing(x, settle)
          /\ Due(x, write, settle) => Due(x, write, NoSettle)
      BY <2>2, <3>1 DEF Guessing, Due, named, q, p
    <3> QED
      BY <1>3, <3>1, <3>2 DEF Honest, Owned
  <2> QED
    BY <2>1, <2>2
<1>8. /\ NoSettle \in [payout : Payouts \cup {NoPayout}, step : WriteSteps,
                       by : 0..MaxSession, snapshot : Entries]
      /\ Aside(NoSettle.snapshot)
  <2>1. Fresh("none", 0) \in Entries /\ Aside(Fresh("none", 0))
    BY WebCacheConstants DEF Fresh, Entries, Aside
  <2> QED
    BY <2>1, WebCacheConstants DEF NoSettle, WriteSteps
<1>9. Shape'
  BY <1>1, <1>5, <1>6, <1>8, NoneInFlight DEF Inv, Shape
<1> QED
  BY <1>1, <1>6, <1>7, <1>8, <1>9 DEF Inv

LEMMA SettleSignedOutKeeps == ASSUME Inv, SettleSignedOut PROVE Inv'
<1> DEFINE p == settle.payout
           q == SettlementOf(p)
           named == Named[Settle(p)]
<1>1. /\ settle.step = "signedOut" /\ settle' = NoSettle /\ me' = 0
      /\ cache' = Invalidate(named, RolledBack(Empty))
      /\ UNCHANGED <<write, live, sessions>>
  BY DEF SettleSignedOut, Settled
<1>2. /\ p \in Payouts /\ settle.snapshot \in Entries /\ Aside(settle.snapshot)
      /\ q \in named
  BY <1>1, SettleIsNamed DEF Inv, Shape
<1>3. DOMAIN Empty = {}
  BY DEF Empty
<1>4. PICK c : c = RolledBack(Empty)
  OBVIOUS
<1>5. /\ DOMAIN c \subseteq Queries
      /\ \A x \in DOMAIN c :
           /\ x = q /\ c[x] \in Entries
           /\ (Pending(c[x]) => c[x].shown) /\ ~c[x].shown /\ c[x].fetch \notin Truths
           /\ c[x].data # "none" => c[x].by # 0
  BY <1>2, <1>3, <1>4, RollsBackOne
<1> HIDE DEF named, q, p
<1>6. /\ DOMAIN cache' = DOMAIN c
      /\ \A x \in DOMAIN c :
           /\ cache'[x] \in Entries
           /\ cache'[x].data = c[x].data /\ cache'[x].shown = c[x].shown
           /\ cache'[x].by = c[x].by
           /\ Pending(cache'[x]) => cache'[x].shown
           /\ cache'[x].fetch \notin Truths
           /\ cache'[x].fetch # "wrong"
           /\ cache'[x].data # "none" => cache'[x].stale
  BY <1>1, <1>2, <1>4, <1>5, InvalidateNames
<1>7. \A x \in DOMAIN c : Honest(x, cache'[x], write, NoSettle)
  BY <1>5, <1>6 DEF Honest
<1>8. \A x \in DOMAIN c : Owned(x, cache'[x], NoSettle, 0)
  BY <1>2, <1>5, <1>6 DEF Owned, q
<1>9. /\ NoSettle \in [payout : Payouts \cup {NoPayout}, step : WriteSteps,
                       by : 0..MaxSession, snapshot : Entries]
      /\ Aside(NoSettle.snapshot)
  <2>1. Fresh("none", 0) \in Entries /\ Aside(Fresh("none", 0))
    BY WebCacheConstants DEF Fresh, Entries, Aside
  <2> QED
    BY <2>1, WebCacheConstants DEF NoSettle, WriteSteps
<1>10. Shape'
  BY <1>1, <1>5, <1>6, <1>9, NoneInFlight, WebCacheConstants DEF Inv, Shape
<1> QED
  BY <1>1, <1>6, <1>7, <1>8, <1>9, <1>10 DEF Inv

(* Drawn again: no screen is left, and nothing it waited for. *)
LEMMA RedrawKeeps == ASSUME Inv, Redraw PROVE Inv'
<1>1. /\ cache' = [q \in DOMAIN cache |-> Left(cache[q])]
      /\ UNCHANGED <<write, settle, me, live, sessions>>
  BY DEF Redraw
<1>2. ASSUME NEW q \in DOMAIN cache
      PROVE  /\ cache'[q] \in Entries
             /\ Honest(q, cache'[q], write, settle) /\ Owned(q, cache'[q], settle, me)
  <2>1. PICK c \in Entries : c = cache[q]
    BY DEF Inv, Shape
  <2>2. Honest(q, c, write, settle) /\ Owned(q, c, settle, me)
    BY <2>1 DEF Inv
  <2>3. PICK e : e = [c EXCEPT !.fetch = "idle", !.shown = FALSE]
    OBVIOUS
  <2>4. /\ e.data = c.data /\ e.stale = c.stale /\ e.by = c.by /\ ~e.shown
        /\ e.fetch = "idle" /\ e \in Entries
    BY <2>3 DEF Entries
  <2>5. cache'[q] = e
    BY <1>1, <2>1, <2>3 DEF Left
  <2>6. Honest(q, e, write, settle) /\ Owned(q, e, settle, me)
    BY <2>2, <2>4 DEF Honest, Owned, Pending, Truths
  <2> QED
    BY <2>4, <2>5, <2>6
<1>3. DOMAIN cache' = DOMAIN cache
  BY <1>1
<1>4. Shape'
  BY <1>1, <1>2, <1>3 DEF Inv, Shape
<1> QED
  BY <1>1, <1>2, <1>3, <1>4 DEF Inv

LEMMA SignInKeeps == ASSUME Inv, SignIn PROVE Inv'
<1>1. /\ me = 0 /\ me' = sessions + 1 /\ sessions < MaxSession /\ sessions' = sessions + 1
      /\ live' = live \cup {sessions + 1} /\ UNCHANGED <<cache, write, settle>>
  BY DEF SignIn
<1>2. sessions + 1 \in 1..MaxSession /\ sessions \in 0..MaxSession
  BY <1>1, WebCacheConstants DEF Inv, Shape
<1>3. Shape'
  BY <1>1, <1>2 DEF Inv, Shape
<1>4. \A q \in DOMAIN cache : Owned(q, cache[q], settle, sessions + 1)
  BY <1>1 DEF Inv, Owned
<1> QED
  BY <1>1, <1>3, <1>4 DEF Inv

LEMMA SignOutKeeps == ASSUME Inv, SignOut PROVE Inv'
<1>1. /\ Clear /\ write' = write /\ settle' = settle /\ live' = live \ {me}
      /\ sessions' = sessions /\ DOMAIN cache' = {} /\ me' = 0
  BY DEF SignOut, Clear, Empty
<1>2. Shape'
  BY <1>1, WebCacheConstants DEF Inv, Shape
<1> QED
  BY <1>1, <1>2, ClearKeeps

LEMMA ExpireKeeps == ASSUME Inv, Expire PROVE Inv'
<1>1. live' \subseteq live /\ UNCHANGED <<cache, write, settle, me, sessions>>
  BY DEF Expire
<1>2. Shape'
  BY <1>1 DEF Inv, Shape
<1> QED
  BY <1>1, <1>2, InFlight DEF Inv

LEMMA StepInv == Inv /\ [Next]_vars => Inv'
<1> SUFFICES ASSUME Inv, [Next]_vars PROVE Inv'
  OBVIOUS
<1>1. CASE UNCHANGED vars
  BY <1>1 DEF vars, Inv, Shape
<1>2. ASSUME NEW q \in Queries, Mount(q) \/ Unmount(q) \/ Age(q) \/ Collect(q) \/ Read(q)
      PROVE  Inv'
  BY <1>2, MountKeeps, UnmountKeeps, AgeKeeps, CollectKeeps, ServerReadsKeeps,
     AnswerLandsKeeps, FetchFailsKeeps, ReadSignedOutKeeps DEF Read
<1>3. ASSUME NEW m \in Mutations, Send(m)
      PROVE  Inv'
  BY <1>3, SendKeeps
<1>4. ASSUME NEW heard \in BOOLEAN, Commit(heard)
      PROVE  Inv'
  BY <1>4, CommitKeeps
<1>5. CASE Refuse \/ Succeed \/ Fail \/ WriteSignedOut
  BY <1>5, RefuseKeeps, SucceedKeeps, FailKeeps, WriteSignedOutKeeps
<1>6. ASSUME NEW p \in Payouts, BeginSettle(p)
      PROVE  Inv'
  BY <1>6, BeginSettleKeeps
<1>7. CASE SettleStep
  BY <1>7, CommitSettleKeeps, RefuseSettleKeeps, SettleAnsweredKeeps, SettleSignedOutKeeps
  DEF SettleStep
<1>8. CASE Redraw \/ SignIn \/ SignOut \/ Expire
  BY <1>8, RedrawKeeps, SignInKeeps, SignOutKeeps, ExpireKeeps
<1> QED
  BY <1>1, <1>2, <1>3, <1>4, <1>5, <1>6, <1>7, <1>8 DEF Next

LEMMA SpecInv == Spec => []Inv
BY InitInv, StepInv, PTL DEF Spec

LEMMA DrawnOrNot == Spec => [](drawn \in BOOLEAN)
<1>1. Init => drawn \in BOOLEAN
  BY DEF Init
<1>2. drawn \in BOOLEAN /\ [Next]_vars => (drawn \in BOOLEAN)'
  BY DEF Next, vars, others, Mount, Unmount, Age, Collect, Read, ServerReads, AnswerLands,
     FetchFails, ReadSignedOut, Send, Commit, Refuse, Succeed, Fail, WriteSignedOut,
     BeginSettle, SettleStep, CommitSettle, RefuseSettle, SettleAnswered, SettleSignedOut,
     Redraw, SignIn, SignOut, Expire
<1> QED
  BY <1>1, <1>2, PTL DEF Spec

(* What the cache calls fresh is what the server holds, and no screen waits *)
(* for an answer that nothing will bring (mutations.ts, queryClient.ts).    *)
THEOREM FreshIsTrue == Spec => []CacheIsCoherent
<1>1. Inv /\ drawn \in BOOLEAN => CacheIsCoherent
  <2> SUFFICES ASSUME Inv, drawn \in BOOLEAN PROVE CacheIsCoherent
    OBVIOUS
  <2>1. TypeOK
    BY DEF Inv, Shape, TypeOK, WriteSteps
  <2>2. CaughtUp
    BY NoneInFlight DEF Inv, CaughtUp, Honest, Due, Guessing
  <2>3. NobodyWaitsForNothing
    BY DEF Inv, Shape, NobodyWaitsForNothing, Honest, Guessing
  <2> QED
    BY <2>1, <2>2, <2>3 DEF CacheIsCoherent
<1> QED
  BY <1>1, SpecInv, DrawnOrNot, PTL

(* What a session leaves in the cache is at most the settlement its         *)
(* rollback puts back, and that is out of date as far as the cache knows,   *)
(* or being guessed at (mutations.ts: onError, onSettled).                  *)
THEOREM OneRollbackSurvives == Spec => []OnlyARollbackSurvives
<1>1. Inv => OnlyARollbackSurvives
  BY NoneInFlight DEF Inv, Shape, OnlyARollbackSurvives, Owned, Guessing
<1> QED
  BY <1>1, SpecInv, PTL
=============================================================================

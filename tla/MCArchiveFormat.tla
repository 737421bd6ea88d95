-------------------------- MODULE MCArchiveFormat --------------------------
(* Small ledgers and documents for ArchiveFormat: one of each kind of       *)
(* stored path and content the code treats differently.                     *)
EXTENDS ArchiveFormat

Seg(text, bytes) == [text |-> text, bytes |-> bytes, blank |-> FALSE, odd |-> FALSE]
MCFiles == Seg("files", 5)

(* Two levels of two bytes, then 64 of the hash and the extension. *)
Stored(text, extension) == <<Seg("ab", 2), Seg("cd", 2), Seg(text, 64 + extension)>>

Doc(id, path, sha) == [id |-> id, path |-> path, sha |-> sha]
Token(text) == [file |-> text]
Plain == Doc(1, Stored("plain", 4), {Content(Token("plain"), 513)})
(* 101 bytes: one too many for the name field, so it is split. *)
Long == Doc(2, Stored("long", 25), {Content(Token("long"), 512)})
(* The longest a split can carry, and one byte more. *)
Longest == Doc(3, Stored("longest", 36), {Zeros(513)})
TooLong == Doc(4, Stored("too long", 37), {Content(Token("too long"), 1)})
Blank == Doc(5, [Stored("blank", 5) EXCEPT ![3].blank = TRUE], {Content(Token("blank"), 1)})
Hollow == Doc(6, Stored("hollow", 4), {Content(Token("hollow"), 0)})
(* What the legacy import makes of `statement..pdf'. *)
Legacy == Doc(7, <<Seg("legacy", 6), [Seg("statement", 14) EXCEPT !.odd = TRUE]>>, {})
MCDocs == {Plain, Long, Longest, TooLong, Blank, Hollow, Legacy}

Inr(n) == [currency |-> "INR", minor |-> n]
Usd(n) == [currency |-> "USD", minor |-> n]
MCCurrencies == {"INR", "USD"}

Leg1 == [id |-> 1, payout |-> 1, parent |-> {}, from |-> 1, to |-> 2,
         sent |-> Usd(2), received |-> Inr(3), rated |-> TRUE, addresses |-> {"0x"}]
Leg2 == [Leg1 EXCEPT !.id = 2, !.parent = {1}, !.received = Usd(2), !.rated = FALSE,
                     !.addresses = {}]
Rows(legs) ==
  [Empty EXCEPT
     !.accounts = {[id |-> 1, allowed |-> {"USD"}], [id |-> 2, allowed |-> {}]},
     !.payouts = {[id |-> 1, gross |-> Usd(2), charges |-> Usd(0)]},
     !.legs = legs,
     !.fees = {[leg |-> l.id, amount |-> Inr(0)] : l \in Range(legs)},
     !.schedules = {[account |-> 1, basis |-> "flat", flat |-> {Usd(1)}],
                    [account |-> 2, basis |-> "gross", flat |-> {}]}]
MCRows ==
  {Rows(<<>>), Rows(<<Leg1, Leg2>>),
   \* the first leg was hung below the second one later
   Rows(<<[Leg1 EXCEPT !.parent = {2}], [Leg2 EXCEPT !.parent = {}]>>)}

WithDocs(rows, docs) ==
  [rows EXCEPT !.docs = docs,
               !.links = IF rows.legs = <<>> THEN {}
                         ELSE {[doc |-> x.id, leg |-> 1] : x \in docs}]
MCLedgers ==
  {Empty} \cup {WithDocs(r, ds) : r \in MCRows,
                                  ds \in {s \in SUBSET MCDocs : Cardinality(s) <= 2}}
MCElsewhere == {Empty, WithDocs(Rows(<<Leg1>>), {Plain})}

(* ledger.json as somebody may change it by hand. *)
MCEdits(d) ==
  {[d EXCEPT !.payouts = {[p EXCEPT !.gross.currency = "EUR"] : p \in @}],
   [d EXCEPT !.payouts = {}],
   [d EXCEPT !.schedules = {[s EXCEPT !.flat = {}] : s \in @}],
   [d EXCEPT !.links = {[doc |-> 9, leg |-> 1]}]}
    \cup {[d EXCEPT !.legs[i] = l] : i \in DOMAIN d.legs,
            l \in {[Leg1 EXCEPT !.to = 1], [Leg2 EXCEPT !.rated = TRUE],
                   [Leg2 EXCEPT !.sent.minor = 0], [Leg2 EXCEPT !.parent = {3}]}}
    \cup {[d EXCEPT !.docs = {[x EXCEPT !.sha = {}] : x \in @}],
          [d EXCEPT !.docs = {[x EXCEPT !.path = Legacy.path] : x \in @}]}
=============================================================================

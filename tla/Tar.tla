-------------------------------- MODULE Tar --------------------------------
(***************************************************************************)
(* The tar codec of the ledger archive: blocks of 512 bytes, a header      *)
(* before each entry, two zero blocks at the end.                          *)
(*                                                                         *)
(* Bytes are modelled by the block: a block is a header, a part of some    *)
(* content, or zeros (which a content may hold too).  A name is a sequence *)
(* of path segments with their lengths in bytes; `blank' says that white   *)
(* space ends the segment.                                                 *)
(***************************************************************************)
EXTENDS Integers, Sequences, SequencesExt, FiniteSetsExt

Block == 512
NameBytes == 100
PrefixBytes == 155

ZeroBlock == [head |-> {}, data |-> {}]
HeadBlock(h) == [head |-> {h}, data |-> {}]
DataBlock(value, part) == [head |-> {}, data |-> {<<value, part>>}]

(* Whole blocks, rounded up. *)
Padded(size) == (size + Block - 1) \div Block

Content(value, size) ==
  [size |-> size, blocks |-> [p \in 1..Padded(size) |-> DataBlock(value, p)]]
Zeros(size) == [size |-> size, blocks |-> [p \in 1..Padded(size) |-> ZeroBlock]]

-----------------------------------------------------------------------------
(* Names *)

SizeOf(name) ==
  FoldSeq(LAMBDA s, n : s.bytes + n, 0, name)
    + (IF name = <<>> THEN 0 ELSE Len(name) - 1)

Front1(name, k) == SubSeq(name, 1, k)
Rest(name, k) == SubSeq(name, k + 1, Len(name))

Splits(name) ==
  {k \in 1..(Len(name) - 1) :
     SizeOf(Rest(name, k)) <= NameBytes /\ SizeOf(Front1(name, k)) <= PrefixBytes}

NameFits(name) == SizeOf(name) <= NameBytes \/ Splits(name) # {}

(* A name that outgrew its field leaves its leading directories in prefix.  *)
SplitName(name) ==
  IF SizeOf(name) <= NameBytes THEN [prefix |-> <<>>, name |-> name]
  ELSE LET k == Min(Splits(name))
       IN  [prefix |-> Front1(name, k), name |-> Rest(name, k)]

(* Text is trimmed as it is read back. *)
ReadText(name) ==
  [i \in DOMAIN name |->
     IF i = Len(name) /\ name[i].blank
       THEN [name[i] EXCEPT !.blank = FALSE, !.bytes = @ - 1] ELSE name[i]]

-----------------------------------------------------------------------------
(* packTar *)

Header(entry) ==
  [split |-> SplitName(entry.name), size |-> entry.bytes.size,
   type |-> "file", adds |-> TRUE]

Packable(entries) == \A i \in DOMAIN entries : NameFits(entries[i].name)

PackTar(entries) ==
  [blocks |-> FlattenSeq([i \in DOMAIN entries |->
                 <<HeadBlock(Header(entries[i]))>> \o entries[i].bytes.blocks])
               \o <<ZeroBlock, ZeroBlock>>,
   ragged |-> FALSE]

-----------------------------------------------------------------------------
(* unpackTar *)

Refused == [ok |-> FALSE, entries |-> <<>>]
Accepted(entries) == [ok |-> TRUE, entries |-> entries]
After(entry, rest) == IF rest.ok THEN Accepted(<<entry>> \o rest.entries) ELSE rest

(* The entry at block i claims no more bytes than the archive has left. *)
ClaimsWhatIsThere(blocks, i) ==
  (CHOOSE h \in blocks[i].head : TRUE).size <= (Len(blocks) - i) * Block

EntryAt(blocks, i) ==
  LET h == CHOOSE x \in blocks[i].head : TRUE
  IN  [name |-> h.split.prefix \o ReadText(h.split.name),
       bytes |-> [size |-> h.size,
                  blocks |-> SubSeq(blocks, i + 1,
                                    Min({i + Padded(h.size), Len(blocks)}))]]

UnpackTar(archive) ==
  LET blocks == archive.blocks
      read[i \in 1..(Len(blocks) + 1)] ==
        IF i > Len(blocks) \/ blocks[i] = ZeroBlock THEN Accepted(<<>>)
        ELSE IF blocks[i].head = {} THEN Refused
        ELSE LET h == CHOOSE x \in blocks[i].head : TRUE
                 next == Min({i + Padded(h.size), Len(blocks)}) + 1
             IN  IF ~h.adds \/ ~ClaimsWhatIsThere(blocks, i) THEN Refused
                 ELSE IF h.type = "file" THEN After(EntryAt(blocks, i), read[next])
                 ELSE IF h.type = "directory" THEN read[next]
                 ELSE Refused
  IN  IF archive.ragged \/ Len(blocks) = 0 THEN Refused ELSE read[1]
=============================================================================

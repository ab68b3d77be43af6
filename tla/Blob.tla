-------------------------------- MODULE Blob --------------------------------
(***************************************************************************)
(* The trees of words that tools/GenBlob.py writes for URLs, arguments and *)
(* types, and the walk of smews_receive (core/input.c) on their bytes.     *)
(*                                                                         *)
(* A word is a sequence of characters, numbers from 32 to 127; the same    *)
(* bytes hold references from 128 on and flags below 32.  Neither of the   *)
(* two passes that compact the tree changes the bytes: they join the       *)
(* strings of a node and of its only child, which follow each other.       *)
(***************************************************************************)
EXTENDS Integers, Sequences, FiniteSets, SequencesExt

\* The first characters of the words, in order.
Firsts(words) ==
  SetToSortSeq({w[1] : w \in {v \in DOMAIN words : v # << >>}}, LAMBDA a, b : a < b)
\* What follows the character c in the words: a function from words to their
\* references.
Under(words, c) ==
  [v \in {Tail(w) : w \in {u \in DOMAIN words : u # << >> /\ u[1] = c}} |-> words[<<c>> \o v]]

\* BLOBRec, on the nodes of toTernaryTree: the middle one of the characters,
\* those below it, what follows it and those above it.
RECURSIVE BLOBRec(_, _)
BLOBRec(words, chars) ==
  LET central == (Len(chars) \div 2) + 1
      c     == chars[central]
      below == Under(words, c)
      inf   == SubSeq(chars, 1, central - 1)
      sup   == SubSeq(chars, central + 1, Len(chars))
      final == IF << >> \in DOMAIN below THEN <<128 + below[<< >>]>> ELSE << >>
      Kid(w, cs) == IF cs = << >> THEN << >> ELSE <<BLOBRec(w, cs)>>
      kids  == Kid(words, inf) \o Kid(below, Firsts(below)) \o Kid(words, sup)
      flags == (IF inf # << >> THEN 1 ELSE 0) + (IF Firsts(below) # << >> THEN 2 ELSE 0)
               + (IF sup # << >> THEN 4 ELSE 0)
      sizes == [i \in DOMAIN kids \ {Len(kids)} |-> Len(kids[i])] IN
  <<c>> \o final \o (IF flags = 2 THEN << >> ELSE <<flags>> \o sizes)
  \o FoldLeft(LAMBDA a, b : a \o b, << >>, kids)

BLOB(words) == BLOBRec(words, Firsts(words))

----------------------------------------------------------------------------
\* The walk.  bytes is a tree and what lies after it in memory; at is blob,
\* from 1, or 0 once output_handler is the 404 page.

Bit(flags, b) == (flags \div b) % 2 = 1
NotFound == 0

\* From one node to the next for the same character.
RECURSIVE WalkNodes(_, _, _)
WalkNodes(bytes, at, c) ==
  LET curr == bytes[at]
      blob == IF c # curr /\ bytes[at + 1] >= 128 THEN at + 2 ELSE at + 1
      next == bytes[blob]
      flags == next < 32
      kids == (IF Bit(next, 1) THEN 1 ELSE 0) + (IF Bit(next, 2) THEN 1 ELSE 0)
              + (IF Bit(next, 4) THEN 1 ELSE 0)
      offsetInf == kids
      offsetEq  == offsetInf + (IF Bit(next, 2) THEN bytes[blob + 1] ELSE 0)
      offsetSup == offsetEq + (IF Bit(next, 1) \/ Bit(next, 2) THEN bytes[blob + offsetInf - 1] ELSE 0) IN
  CASE c = curr /\ ~ flags -> blob
    [] c = curr /\ flags   -> IF Bit(next, 2) THEN blob + offsetEq ELSE NotFound
    [] c < curr -> IF flags /\ Bit(next, 1) THEN WalkNodes(bytes, blob + offsetInf, c) ELSE NotFound
    [] c > curr -> IF flags /\ Bit(next, 4) THEN WalkNodes(bytes, blob + offsetSup, c) ELSE NotFound

\* Mutant: the reference is not passed over.
WalkCharStays(bytes, at, c) == WalkNodes(bytes, at, c)

\* A character of an URL: after the end of a word the walk goes on behind its
\* reference.
WalkChar(bytes, at, c) ==
  WalkNodes(bytes, IF bytes[at] >= 128 THEN at + 1 ELSE at, c)

\* The space after an URL.
Reference(bytes, at) == IF at # NotFound /\ bytes[at] >= 128 THEN bytes[at] - 128 ELSE -1
=============================================================================

---------------------------- MODULE MCAlgorithms ----------------------------
EXTENDS Algorithms

Packet(type, header, flags, content) ==
  [type |-> type, header |-> header, flags |-> flags, content |-> content,
   local |-> <<192, 168, 255, 1>>, ip |-> <<255, 254, 255, 255>>, port |-> <<255, 3>>,
   next_outseqno |-> <<255, 255, 0, 9>>, current_inseqno |-> <<7, 255, 255, 255>>,
   mss |-> 1460, protocol |-> 17, checksum |-> <<0, 0>>]
Contents == UNION {[1 .. n -> {0, 255}] : n \in 0 .. 3}
MCPackets ==
  {Packet("generator", h, 16, c) : h \in {"standard", "chunks", "none"}, c \in Contents}
  \cup {Packet("file", "none", 16, c \o <<255, 255>>) : c \in Contents}
  \cup {Packet("gpip", "none", 16, c) : c \in Contents}
  \cup {Packet("control", "none", f, << >>) : f \in {TCP_SYN, 17}}

All == [1 .. ADDRESS_SIZE -> {0, 1}]

\* The runs of zeros that a byte other than 0 ends, in order: the place of
\* the first zero and of the byte after the last one.
Runs(full) ==
  LET begins(i) == full[i] = 0 /\ (i = 1 \/ full[i - 1] # 0)
      end(i) == CHOOSE j \in i + 1 .. ADDRESS_SIZE :
                  full[j] # 0 /\ \A k \in i .. j - 1 : full[k] = 0
      places == {i \in 1 .. ADDRESS_SIZE :
                   begins(i) /\ \E j \in i + 1 .. ADDRESS_SIZE : full[j] # 0} IN
  [i \in 1 .. Cardinality(places) |->
     LET first == SetToSortSeq(places, LAMBDA x, y : x < y)[i] IN end(first) - first]

\* No run is followed by a run that is not longer, but the last one.
RunsGrow(full) ==
  \A i \in 2 .. Len(Runs(full)) - 1 : Runs(full)[i] > Runs(full)[i - 1]
MCPairs == {a \in All : RunsGrow(a)} \X {a \in All : RunsGrow(a)}

\* A run of one zero, another one and a longer one: 2 is lost.
ShortRuns == {<<a, a>> : a \in {<<1, 0, 3, 0, 2, 0, 0, 5>>}}

\* Words of one to three letters.
Candidates == <<<<97, 97>>, <<98, 99, 97>>, <<97>>, <<98, 97>>, <<99>>, <<97, 98>>, <<98>>,
                <<97, 97, 98>>, <<97, 99>>, <<98, 98>>, <<98, 99>>>>
Lists(max) == {SelectSeq(Candidates, LAMBDA w : w \in s) :
                 s \in {t \in SUBSET Range(Candidates) : t # {} /\ Cardinality(t) <= max}}
MCTexts == Range(Candidates) \cup {<<97, 97, 99>>, <<99, 97>>}

\* No word that has siblings in the tree begins another word or the text.
Siblings(v, w) == Len(v) = Len(w) /\ v # w /\ Front(v) = Front(w)
Extends(v, w) == v # w /\ IsPrefix(w, v)
Separate(list, t) ==
  \A w \in Range(list) :
    (\E v \in Range(list) \cup {t} : Extends(v, w)) =>
      \A u \in Range(list) : \A n \in DOMAIN u : ~ Siblings(SubSeq(u, 1, n), w)
MCSearches == {s \in [symbols : Lists(4), text : MCTexts] : Separate(s.symbols, s.text)}

\* "/a", "/b" and "/bb" are resources, and "/bb" is asked for.
SiblingSearch == {[symbols |-> <<<<97>>, <<98>>, <<98, 98>>>>, text |-> <<98, 98>>]}

MCGarbage == {<<0, 0>>, <<65, 0>>}
=============================================================================

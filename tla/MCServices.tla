----------------------------- MODULE MCServices -----------------------------
EXTENDS Services

CONSTANTS c1, c2, volatile, persistent, alert, stream

MCSize == [h \in Handlers |-> CASE h = alert -> 1 [] h = persistent -> 4 [] OTHER -> 3]
MCHeaderSize == [h \in Headers |-> CASE h = "none" -> 1 [] h = "standard" -> 2 [] h = "chunks" -> 3]
Ask(a, b) == [c \in Conns |-> IF c = c1 THEN a ELSE b]
MCScenarios ==
  {[events |-> {"loss", "refusal"}, asks |-> Ask({volatile, stream}, {volatile})],
   [events |-> {"loss", "early timer"}, asks |-> Ask({volatile, alert}, {})],
   [events |-> {"again", "refusal"}, asks |-> Ask({alert, stream}, {persistent})],
   [events |-> {"first loss"}, asks |-> Ask({persistent}, {})]}

\* A segment of a persistent answer is lost, not only the first one.
PersistentLost ==
  {[events |-> {"persistent loss"}, asks |-> Ask({persistent}, {})]}

\* Two clients wait for the same event.
TwoListeners ==
  {[events |-> {}, asks |-> Ask({alert}, {alert})]}
=============================================================================

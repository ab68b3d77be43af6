---------------------------- MODULE MCSmewsCrowd ----------------------------
EXTENDS SmewsLive

CONSTANTS p1, p2, p3, f1, f2

MCLength == [f \in Files |-> IF f = f1 THEN 3 ELSE 2]
MCIss == [p \in Peers |-> 1]
MCRequests == [p \in Peers |-> IF p = p1 THEN <<f1, f2>> ELSE <<f2>>]

\* A segment sent at one of these ticks is sent again before the counter wraps.
MCLossTicks == 0 .. TickMod - Rto - 2
MCAllTicks == 0 .. TickMod - 1
MCCuts == <<[from |-> 1, to |-> 3]>>

\* The command is in a segment of its own.
MCTwoSegments == <<[from |-> 1, to |-> 1], [from |-> 2, to |-> 3]>>
=============================================================================

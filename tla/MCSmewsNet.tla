----------------------------- MODULE MCSmewsNet -----------------------------
EXTENDS SmewsNet

CONSTANTS p1, f1, f2

MCLength == [f \in Files |-> IF f = f1 THEN 5 ELSE 2]
MCIss == [p \in Peers |-> 1]
MCRequests == [p \in Peers |-> <<f1, f2>>]
MCCuts == <<[from |-> 1, to |-> 3]>>
=============================================================================

------------------------------ MODULE MCMemory ------------------------------
EXTENDS MemoryInv

\* Contents that look like headers: a plausible size and distance, so that
\* a stale or overwritten word read as a header would lead somewhere.
MCUserWords == {[size |-> 1, to_next |-> 1]}
=============================================================================

----------------------------- MODULE MemoryAbs -----------------------------
(***************************************************************************)
(* What the dynamic allocator of smews promises to the rest of the core:   *)
(* a set of live blocks that never overlap, whose contents only their      *)
(* owner changes, and a request that is refused only when no run of free   *)
(* words is long enough for it.  It says nothing about where a block is    *)
(* placed, nor about any free list.                                        *)
(***************************************************************************)
EXTENDS Integers

CONSTANTS N,        \* number of 32-bit words of the heap
          Requests  \* sizes, in bytes, that callers ask for

VARIABLES live,     \* the blocks handed out: records [ptr, bytes]
          data,     \* contents of the words of the live blocks
          req       \* the request being served, or NoRequest

absVars == <<live, data, req>>

NoRequest == -1

\* The words that "at least size bytes" need, and those of a block.
WordsFor(bytes) == (bytes + 3) \div 4
Cover(b) == b.ptr .. b.ptr + WordsFor(b.bytes) - 1

Used(blocks) == UNION {Cover(b) : b \in blocks}
Room(bytes) == \E p \in 0 .. N - 1 :
                 /\ p + WordsFor(bytes) <= N
                 /\ (p .. p + WordsFor(bytes) - 1) \cap Used(live) = {}

AbsInit == /\ live = {}
           /\ data = [w \in {} |-> 0]
           /\ req = NoRequest

Request == /\ req = NoRequest
           /\ req' \in Requests
           /\ UNCHANGED <<live, data>>

\* A grant is disjoint from every live block and keeps what they contain;
\* a grant of 0 bytes owns nothing.
Grant == /\ req # NoRequest
         /\ \E p \in 0 .. N : LET b == [ptr |-> p, bytes |-> req] IN
              /\ Cover(b) \subseteq 0 .. N - 1
              /\ Cover(b) \cap Used(live) = {}
              /\ live' = IF req = 0 THEN live ELSE live \cup {b}
         /\ DOMAIN data' = Used(live')
         /\ \A w \in Used(live) : data'[w] = data[w]
         /\ req' = NoRequest

Refuse == /\ req # NoRequest
          /\ ~ Room(req)
          /\ req' = NoRequest
          /\ UNCHANGED <<live, data>>

Release == \E b \in live :
             /\ live' = live \ {b}
             /\ data' = [w \in Used(live') |-> data[w]]
             /\ UNCHANGED req

Write == \E b \in live :
           /\ DOMAIN data' = DOMAIN data
           /\ \A w \in DOMAIN data \ Cover(b) : data'[w] = data[w]
           /\ UNCHANGED <<live, req>>

AbsNext == Request \/ Grant \/ Refuse \/ Release \/ Write

AbsSpec == AbsInit /\ [][AbsNext]_absVars
=============================================================================

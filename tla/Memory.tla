------------------------------- MODULE Memory -------------------------------
(***************************************************************************)
(* core/memory.c: the first-fit allocator every dynamic object of smews    *)
(* (connections, generator services, in-flight buffers, coroutine stacks,  *)
(* arguments, POST data) comes from.                                       *)
(*                                                                         *)
(* The heap is an array of N words of 32 bits and a sentinel word.  A free *)
(* block starts with a header, two 16-bit halves: its size and the         *)
(* distance to the next free block, both in words.  A live block has no    *)
(* header: its size is known to its owner only, who overwrites the words.  *)
(* The loops over the free list are steps of their own.                    *)
(***************************************************************************)
EXTENDS Integers, FiniteSets

CONSTANTS N,        \* ALLOC_SIZE / 4
          Sizes,    \* sizes, in bytes, of the requests of the callers
          UserWords \* what owners write in the words of their blocks

U16 == 65536

Header == [size : 0 .. U16 - 1, to_next : 0 .. U16 - 1]

ASSUME NAssumption == N \in 1 .. U16 - 1
ASSUME SizesAssumption == Sizes \subseteq 0 .. U16 - 1
ASSUME UserWordsAssumption == UserWords \subseteq Header

VARIABLES first_free, \* index of the first free block
          mem,        \* alloc_buffer, each word read as a struct free_bloc_s
          live,       \* the blocks callers own: [ptr, bytes]
          free,       \* auxiliary: the first words of the free blocks
          pc,         \* the loop or step the allocator is at
          size,       \* locals of the running call: its size in words,
          bytes,      \*   the size in bytes it was called with,
          prev_free,
          curr_free,
          to_free,
          old,        \*   the block mem_realloc is moving, or NoBlock
          sum,        \*   sum_free and max_free of the monitoring loops
          max,
          new_ptr     \*   and what mem_alloc returned to mem_realloc

locals == <<size, bytes, prev_free, curr_free, to_free, sum, max>>
vars == <<first_free, mem, live, free, pc, locals, old, new_ptr>>

NULL == -1
NoBlock == [ptr |-> NULL, bytes |-> 0]

\* The rounding both mem_alloc and mem_free start with, on an uint16_t.
Words(n) == (IF n % 4 > 0 THEN (n + 4) % U16 ELSE n) \div 4

WordsOf(b) == b.ptr .. b.ptr + Words(b.bytes) - 1
LiveWords == UNION {WordsOf(b) : b \in live}
FreeWords == UNION {f .. f + mem[f].size - 1 : f \in free}

----------------------------------------------------------------------------
\* mem_reset, on the zero-initialised static array.
Init ==
  /\ first_free = 0
  /\ mem = [w \in 0 .. N |-> IF w = 0 THEN [size |-> N, to_next |-> N]
                                      ELSE [size |-> 0, to_next |-> 0]]
  /\ live = {}
  /\ free = {0}
  /\ pc = "idle"
  /\ size = 0 /\ bytes = 0 /\ sum = 0 /\ max = 0
  /\ prev_free = NULL /\ curr_free = NULL /\ to_free = NULL
  /\ old = NoBlock
  /\ new_ptr = NULL

\* The locals of a call that has returned are dead.
ClearLocals ==
  /\ size' = 0 /\ bytes' = 0 /\ sum' = 0 /\ max' = 0
  /\ prev_free' = NULL /\ curr_free' = NULL /\ to_free' = NULL

\* Mutant: the walk stays where it is.
AdvanceNot ==
  /\ prev_free' = curr_free
  /\ curr_free' = curr_free

Advance ==
  /\ prev_free' = curr_free
  /\ curr_free' = curr_free + mem[curr_free].to_next

----------------------------------------------------------------------------
\* mem_alloc.

StartAlloc(n) ==
  /\ pc' = "alloc"
  /\ size' = Words(n) /\ bytes' = n
  /\ prev_free' = NULL /\ curr_free' = first_free
  /\ UNCHANGED <<first_free, mem, live, free, to_free, sum, max, new_ptr>>

mem_alloc == /\ pc = "idle"
             /\ \E n \in Sizes : StartAlloc(n)
             /\ UNCHANGED old

\* Mutant: a block of exactly the right size is refused.
TooSmallOrEqual == mem[curr_free].size # 0 /\ mem[curr_free].size <= size

\* The loop's condition: neither the sentinel nor a block large enough.
TooSmall == mem[curr_free].size # 0 /\ mem[curr_free].size < size

AllocScan ==
  /\ pc = "alloc" /\ TooSmall
  /\ Advance
  /\ UNCHANGED <<first_free, mem, live, free, pc, size, bytes, to_free, sum, max, old, new_ptr>>

\* mem_alloc returns p, to its caller or to mem_realloc.
ReturnAlloc(p) ==
  /\ new_ptr' = IF old = NoBlock THEN NULL ELSE p
  /\ live' = IF p = NULL \/ bytes = 0 THEN live
             ELSE live \cup {[ptr |-> p, bytes |-> bytes]}
  /\ pc' = IF old = NoBlock THEN "idle" ELSE "copy"
  /\ ClearLocals
  /\ UNCHANGED old

\* The list skips what is taken: first_free moves to the target, or the
\* previous block's distance grows.
Relink(target) == first_free' = IF prev_free = NULL THEN target ELSE first_free

Stretch(m, distance) ==
  IF prev_free = NULL THEN m
  ELSE [m EXCEPT ![prev_free] =
         [size |-> @.size, to_next |-> (@.to_next + distance) % U16]]

AllocWhole ==
  /\ pc = "alloc" /\ ~ TooSmall
  /\ mem[curr_free].size = size
  /\ Relink(curr_free + mem[curr_free].to_next)
  /\ mem' = Stretch(mem, mem[curr_free].to_next)
  /\ free' = free \ {curr_free}
  /\ ReturnAlloc(curr_free)

Remainder == [size |-> mem[curr_free].size - size,
              to_next |-> mem[curr_free].to_next - size]

AllocSplit ==
  /\ pc = "alloc" /\ ~ TooSmall
  /\ mem[curr_free].size > size
  /\ Relink(curr_free + size)
  /\ mem' = [Stretch(mem, size) EXCEPT ![curr_free + size] = Remainder]
  /\ free' = (free \ {curr_free}) \cup {curr_free + size}
  /\ ReturnAlloc(curr_free)

AllocFail ==
  /\ pc = "alloc" /\ ~ TooSmall
  /\ mem[curr_free].size < size
  /\ UNCHANGED <<first_free, mem, free>>
  /\ ReturnAlloc(NULL)

----------------------------------------------------------------------------
\* mem_free.  Calls with NULL or 0 return at once and change nothing.

StartFree(b) ==
  /\ pc' = "free"
  /\ live' = live \ {b}
  /\ size' = Words(b.bytes) /\ bytes' = b.bytes
  /\ to_free' = b.ptr
  /\ prev_free' = NULL /\ curr_free' = first_free
  /\ old' = NoBlock /\ new_ptr' = NULL
  /\ UNCHANGED <<first_free, mem, free, sum, max>>

mem_free == /\ pc = "idle"
            /\ \E b \in live : StartFree(b)

FreeScan ==
  /\ pc = "free" /\ curr_free < to_free
  /\ Advance
  /\ UNCHANGED <<first_free, mem, live, free, pc, size, bytes, to_free, sum, max, old, new_ptr>>

\* Mutant: neighbours are linked, never merged.
chain_free_blocs_unmerged(m, b1, b2) ==
  [m EXCEPT ![b1] = [size |-> m[b1].size, to_next |-> b2 - b1]]

chain_free_blocs(m, b1, b2) ==
  IF b1 + m[b1].size = b2
  THEN [m EXCEPT ![b1] = [size    |-> (m[b1].size + m[b2].size) % U16,
                          to_next |-> (m[b2].to_next + m[b1].size) % U16]]
  ELSE [m EXCEPT ![b1] = [size |-> m[b1].size, to_next |-> b2 - b1]]

WithHeader == [mem EXCEPT ![to_free] = [size |-> size, to_next |-> curr_free - to_free]]
ChainedNext == IF WithHeader[curr_free].size # 0
               THEN chain_free_blocs(WithHeader, to_free, curr_free)
               ELSE WithHeader

\* The free blocks the freed one is merged with.
MergedNext == IF mem[curr_free].size # 0 /\ to_free + size = curr_free
              THEN {curr_free} ELSE {}
MergedIntoPrev == IF prev_free # NULL /\ prev_free + mem[prev_free].size = to_free
                  THEN {to_free} ELSE {}

\* Mutant: the freed block is not chained with the block before it when they
\* are neighbours.
FreeLinkNextOnly ==
  /\ pc = "free" /\ curr_free >= to_free
  /\ IF prev_free # NULL
     THEN /\ mem' = [ChainedNext EXCEPT ![prev_free].to_next = to_free - prev_free]
          /\ first_free' = first_free
     ELSE /\ mem' = ChainedNext
          /\ first_free' = to_free
  /\ free' = (free \ MergedNext) \cup {to_free}
  /\ pc' = "idle"
  /\ ClearLocals
  /\ UNCHANGED <<live, old, new_ptr>>

FreeLink ==
  /\ pc = "free" /\ curr_free >= to_free
  /\ IF prev_free # NULL
     THEN /\ mem' = chain_free_blocs(ChainedNext, prev_free, to_free)
          /\ first_free' = first_free
     ELSE /\ mem' = ChainedNext
          /\ first_free' = to_free
  /\ free' = ((free \ MergedNext) \cup {to_free}) \ MergedIntoPrev
  /\ pc' = "idle"
  /\ ClearLocals
  /\ UNCHANGED <<live, old, new_ptr>>

----------------------------------------------------------------------------
\* mem_realloc: allocate, copy, free.  The old block is freed even when the
\* allocation fails.

mem_realloc == /\ pc = "idle"
               /\ \E b \in live, n \in Sizes :
                    /\ n >= b.bytes
                    /\ StartAlloc(n)
                    /\ old' = b

ReallocCopy ==
  /\ pc = "copy"
  /\ mem' = IF new_ptr = NULL THEN mem
            ELSE [w \in 0 .. N |-> IF w \in new_ptr .. new_ptr + Words(old.bytes) - 1
                                   THEN mem[old.ptr + (w - new_ptr)] ELSE mem[w]]
  /\ pc' = "release"
  /\ UNCHANGED <<first_free, live, free, locals, old, new_ptr>>

ReallocFree == pc = "release" /\ StartFree(old)

----------------------------------------------------------------------------
\* get_free_mem and get_max_free_mem: the same walk of the free list.

Monitor ==
  /\ pc = "idle"
  /\ pc' = "sum"
  /\ curr_free' = first_free
  /\ UNCHANGED <<first_free, mem, live, free, size, bytes, prev_free, to_free, sum, max, old, new_ptr>>

\* Mutant: the largest block is the last one seen.
MonitorScanLast ==
  /\ pc = "sum" /\ mem[curr_free].to_next # 0
  /\ sum' = sum + mem[curr_free].size
  /\ max' = mem[curr_free].size
  /\ curr_free' = curr_free + mem[curr_free].to_next
  /\ UNCHANGED <<first_free, mem, live, free, pc, size, bytes, prev_free, to_free, old, new_ptr>>

MonitorScan ==
  /\ pc = "sum" /\ mem[curr_free].to_next # 0
  /\ sum' = sum + mem[curr_free].size
  /\ max' = IF mem[curr_free].size > max THEN mem[curr_free].size ELSE max
  /\ curr_free' = curr_free + mem[curr_free].to_next
  /\ UNCHANGED <<first_free, mem, live, free, pc, size, bytes, prev_free, to_free, old, new_ptr>>

MonitorReturn ==
  /\ pc = "sum" /\ mem[curr_free].to_next = 0
  /\ pc' = "idle"
  /\ ClearLocals
  /\ UNCHANGED <<first_free, mem, live, free, old, new_ptr>>

----------------------------------------------------------------------------
\* The owner of a block writes one of its words while the allocator is not
\* running.

UserWrite ==
  /\ pc = "idle"
  /\ \E b \in live : \E w \in WordsOf(b), v \in UserWords :
       mem' = [mem EXCEPT ![w] = v]
  /\ UNCHANGED <<first_free, live, free, pc, locals, old, new_ptr>>

Calls == mem_alloc \/ mem_free \/ mem_realloc \/ Monitor \/ UserWrite
Steps == \/ AllocScan \/ AllocWhole \/ AllocSplit \/ AllocFail
         \/ FreeScan \/ FreeLink
         \/ ReallocCopy \/ ReallocFree
         \/ MonitorScan \/ MonitorReturn

Next == Calls \/ Steps

Spec == Init /\ [][Next]_vars

\* A call runs to its end: nothing preempts the main loop.
FairSpec == Spec /\ WF_vars(Steps)
=============================================================================

----------------------------- MODULE MemoryInv -----------------------------
(***************************************************************************)
(* The properties of core/memory.c, for callers that never ask for more    *)
(* than 65532 bytes at once (no caller in core/ does).                     *)
(***************************************************************************)
EXTENDS Memory

\* Sizes whose rounding to words does not wrap around 16 bits.
ASSUME SizesFit == Sizes \subseteq 0 .. U16 - 4

Blocks == [ptr : 0 .. N - 1, bytes : Sizes]

TypeOK ==
  /\ first_free \in 0 .. N
  /\ mem \in [0 .. N -> Header]
  /\ live \subseteq Blocks
  /\ free \subseteq 0 .. N - 1
  /\ pc \in {"idle", "alloc", "copy", "release", "free", "sum"}
  /\ size \in 0 .. U16 - 1
  /\ bytes \in 0 .. U16 - 1
  /\ prev_free \in {NULL} \cup 0 .. N - 1
  /\ curr_free \in {NULL} \cup 0 .. N
  /\ to_free \in {NULL} \cup 0 .. N - 1
  /\ old \in Blocks \cup {NoBlock}
  /\ sum \in Nat /\ max \in Nat
  /\ new_ptr \in {NULL} \cup 0 .. N

\* The free list is sound: from every free block, size and to_next lead to
\* the end of the block and to the next free block (or the sentinel), no
\* free block lies in between, and two neighbours are always merged.
FreeListOK ==
  /\ mem[N] = [size |-> 0, to_next |-> 0]
  /\ first_free \in free \cup {N}
  /\ \A f \in free : first_free <= f
  /\ \A f \in free :
       LET end == f + mem[f].size
           next == f + mem[f].to_next IN
       /\ mem[f].size > 0
       /\ next \in free \cup {N}
       /\ end <= next
       /\ end = next => next = N
       /\ \A g \in free : g > f => g >= next

\* m words from p and n words from q have no word in common.
Apart(p, m, q, n) == p + m <= q \/ q + n <= p

\* No two live blocks overlap, none overlaps the free list or a block on its
\* way back to it, whatever the owners wrote into their words.
NoOverlap ==
  /\ \A b \in live : b.ptr + Words(b.bytes) <= N
  /\ \A b, c \in live : b # c => Apart(b.ptr, Words(b.bytes), c.ptr, Words(c.bytes))
  /\ \A b \in live, f \in free : Apart(b.ptr, Words(b.bytes), f, mem[f].size)
  /\ pc = "free" =>
       /\ to_free + size <= N
       /\ \A b \in live : Apart(b.ptr, Words(b.bytes), to_free, size)
       /\ \A f \in free : Apart(f, mem[f].size, to_free, size)

\* mem_alloc and mem_free lose no word: every word of the heap is live, on
\* the free list or being put back.
NoWordLost == \A w \in 0 .. N - 1 :
  \/ \E b \in live : b.ptr <= w /\ w < b.ptr + Words(b.bytes)
  \/ \E f \in free : f <= w /\ w < f + mem[f].size
  \/ pc = "free" /\ to_free <= w /\ w < to_free + size

\* Once every block is freed the heap is one block again: freeing merges
\* neighbours on both sides, so no fragmentation outlives the blocks.
Defragmented == pc = "idle" /\ live = {}
                  => first_free = 0 /\ mem[0] = [size |-> N, to_next |-> N]

\* get_free_mem and get_max_free_mem report what is free: the free words
\* number, and the longest run of free words, when their walk ends.
MonitorExact == pc = "sum" /\ mem[curr_free].to_next = 0 =>
  /\ sum = Cardinality(FreeWords)
  /\ \A p \in 0 .. N : p + max > N \/ ~ (p .. p + max \subseteq FreeWords)
  /\ max = 0 \/ \E p \in 0 .. N : p .. p + max - 1 \subseteq FreeWords

\* What the loops know of the list: prev_free is the block before curr_free;
\* mem_alloc has passed only blocks that are too small, mem_free only blocks
\* before the one it puts back.
Position ==
  /\ curr_free \in free \cup {N}
  /\ prev_free = NULL => curr_free = first_free
  /\ prev_free # NULL => prev_free \in free /\ curr_free = prev_free + mem[prev_free].to_next

LoopsOK ==
  /\ \A b \in live : b.bytes > 0
  /\ pc = "alloc" =>
       /\ Position
       /\ bytes \in Sizes /\ size = Words(bytes)
       /\ \A f \in free : f < curr_free => mem[f].size < size
       /\ old # NoBlock => old \in live /\ bytes >= old.bytes
  /\ pc = "free" =>
       /\ Position
       /\ to_free \in 0 .. N - 1 /\ size > 0
       /\ prev_free # NULL => prev_free < to_free
  /\ pc = "sum" => curr_free \in free \cup {N}
  /\ pc \in {"copy", "release"} =>
       /\ old \in live
       /\ new_ptr # NULL =>
            \E b \in live : b # old /\ b.ptr = new_ptr /\ b.bytes >= old.bytes
  /\ pc \in {"idle", "free", "sum"} => old = NoBlock

\* The inductive invariant: the properties above and what the loops know.
IInv == TypeOK /\ FreeListOK /\ NoOverlap /\ NoWordLost /\ LoopsOK

\* Every call of the allocator returns: no walk of the list is endless.
CallsReturn == (pc # "idle") ~> (pc = "idle")

\* The allocator implements its abstract specification: a block is granted
\* only where no live block is, only owners change the contents of a live
\* block, and a request fails only if no run of free words can hold it.
Abs == INSTANCE MemoryAbs WITH
         Requests <- Sizes,
         data <- [w \in LiveWords |-> mem[w]],
         req <- IF pc = "alloc" THEN bytes ELSE -1
AbsSpec == Abs!AbsSpec
=============================================================================

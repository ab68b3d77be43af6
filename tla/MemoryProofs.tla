---------------------------- MODULE MemoryProofs ----------------------------
(***************************************************************************)
(* Proofs about core/memory.c for every heap size and every set of request *)
(* sizes: the inductive invariant of MemoryInv, and the refinement of the  *)
(* abstract allocator.                                                     *)
(***************************************************************************)
EXTENDS MemoryInv, FiniteSetTheorems, TLAPS

\* U16 is known by these facts only, so that no range up to it is enumerated.
LEMMA U16Facts == U16 \in Int /\ U16 > 4 /\ U16 = 4 * 16384
BY DEF U16

LEMMA U16Type == U16 \in Int /\ U16 > 4
BY U16Facts

LEMMA NType == N \in Int /\ N >= 1 /\ N < U16
BY NAssumption, U16Type

\* A value that fits 16 bits is not changed by a store into an uint16_t.
LEMMA U16Fits == \A x \in Int : 0 <= x /\ x < U16 => x % U16 = x
BY DEF U16

\* Division by 4 is what its quotient and remainder say.
LEMMA DivMod4 ==
  \A n \in Int : n = 4 * (n \div 4) + (n % 4) /\ n % 4 \in 0 .. 3 /\ n \div 4 \in Int
OBVIOUS

LEMMA Quotient4 ==
  \A n, q \in Int : 4 * q <= n /\ n < 4 * q + 4 => n \div 4 = q
BY DivMod4

\* Rounding to words, for the sizes that do not wrap: the least number of
\* words that hold n bytes.
LEMMA WordsRoundsUp ==
  ASSUME NEW n \in Int, 0 <= n, n <= U16 - 4
  PROVE  /\ Words(n) = (n + 3) \div 4
         /\ Words(n) \in Int /\ 0 <= Words(n) /\ Words(n) < U16
         /\ 4 * Words(n) >= n
         /\ 4 * Words(n) < n + 4
<1> DEFINE q == n \div 4
           r == n % 4
<1>1. n = 4 * q + r /\ r \in 0 .. 3 /\ q \in Int BY DivMod4
<1> HIDE DEF q, r
<1>3. CASE r > 0
  <2>1. n + 4 < U16 BY <1>1, <1>3, U16Facts
  <2>2. (n + 4) % U16 = n + 4 BY <2>1, U16Fits, U16Type
  <2>3. Words(n) = (n + 4) \div 4 BY <1>3, <2>2 DEF Words, r
  <2>4. (n + 4) \div 4 = q + 1 /\ (n + 3) \div 4 = q + 1 BY <1>1, <1>3, Quotient4
  <2> QED BY <1>1, <1>3, <2>1, <2>3, <2>4, U16Type
<1>4. CASE r = 0
  <2>1. Words(n) = n \div 4 BY <1>4 DEF Words, r
  <2>2. n \div 4 = q /\ (n + 3) \div 4 = q BY <1>1, <1>4, Quotient4
  <2> QED BY <1>1, <1>4, <2>1, <2>2, U16Type
<1> QED BY <1>1, <1>3, <1>4

LEMMA WordsRounds ==
  ASSUME NEW n \in Sizes
  PROVE  /\ n \in Int /\ 0 <= n /\ n <= U16 - 4
         /\ Words(n) = (n + 3) \div 4
         /\ Words(n) \in Int /\ 0 <= Words(n) /\ Words(n) < U16
         /\ n > 0 => Words(n) > 0
         /\ n = 0 => Words(n) = 0
<1>1. n \in Int /\ 0 <= n /\ n <= U16 - 4 BY SizesFit, U16Type
<1> QED BY <1>1, WordsRoundsUp, U16Type

LEMMA WordsMonotone ==
  ASSUME NEW m \in Sizes, NEW n \in Sizes, m <= n
  PROVE  Words(m) <= Words(n)
<1>1. 4 * Words(m) < m + 4 /\ 4 * Words(n) >= n /\ Words(m) \in Int /\ Words(n) \in Int
  BY WordsRoundsUp, WordsRounds
<1> QED BY <1>1, WordsRounds

----------------------------------------------------------------------------
\* What FreeListOK and the types give for one free block.
LEMMA FreeBlock ==
  ASSUME TypeOK, FreeListOK, NEW f \in free
  PROVE  /\ f \in Int /\ 0 <= f /\ f < N
         /\ mem[f].size \in Int /\ mem[f].size > 0 /\ mem[f].size < U16
         /\ mem[f].to_next \in Int /\ mem[f].to_next > 0 /\ mem[f].to_next < U16
         /\ f + mem[f].size <= f + mem[f].to_next
         /\ f + mem[f].to_next <= N
         /\ f + mem[f].to_next \in free \cup {N}
         /\ \A g \in free : g > f => g >= f + mem[f].to_next
         /\ f + mem[f].size = f + mem[f].to_next => f + mem[f].to_next = N
<1>1. f \in Int /\ 0 <= f /\ f < N BY NType DEF TypeOK
<1>2. mem[f] \in Header BY <1>1, NType DEF TypeOK
<1>3. /\ mem[f].size \in Int /\ 0 <= mem[f].size /\ mem[f].size < U16
      /\ mem[f].to_next \in Int /\ 0 <= mem[f].to_next /\ mem[f].to_next < U16
  BY <1>2, U16Type DEF Header
<1>4. /\ mem[f].size > 0
      /\ f + mem[f].to_next \in free \cup {N}
      /\ f + mem[f].size <= f + mem[f].to_next
      /\ f + mem[f].size = f + mem[f].to_next => f + mem[f].to_next = N
      /\ \A g \in free : g > f => g >= f + mem[f].to_next
  BY DEF FreeListOK
<1>5. \A g \in free \cup {N} : g <= N BY NType DEF TypeOK
<1>6. f + mem[f].to_next <= N BY <1>4, <1>5
<1> QED BY <1>1, <1>3, <1>4, <1>6, NType

\* The sentinel ends the list.
LEMMA Sentinel ==
  ASSUME TypeOK, FreeListOK
  PROVE  /\ mem[N].size = 0 /\ mem[N].to_next = 0 /\ N \notin free
         /\ N \in 0 .. N
BY NType DEF TypeOK, FreeListOK

\* A live block, as the owner knows it.
LEMMA LiveBlock ==
  ASSUME IInv, NEW b \in live
  PROVE  /\ b.bytes \in Sizes /\ b.bytes > 0
         /\ b.ptr \in Int /\ 0 <= b.ptr /\ b.ptr + Words(b.bytes) <= N
         /\ Words(b.bytes) \in Int /\ Words(b.bytes) > 0 /\ Words(b.bytes) < U16
         /\ b = [ptr |-> b.ptr, bytes |-> b.bytes]
<1>1. b \in Blocks /\ b.bytes > 0 /\ b.ptr + Words(b.bytes) <= N
  BY DEF IInv, TypeOK, NoOverlap, LoopsOK
<1> QED BY <1>1, WordsRounds, NType DEF Blocks

LEMMA InitInv == Init => IInv
<1> SUFFICES ASSUME Init PROVE IInv OBVIOUS
<1> USE NType, U16Type
<1>1. TypeOK BY DEF Init, TypeOK, Header, NoBlock
<1>2. FreeListOK BY DEF Init, FreeListOK
<1>3. NoOverlap BY DEF Init, NoOverlap
<1>4. NoWordLost BY DEF Init, NoWordLost
<1>5. LoopsOK BY DEF Init, LoopsOK
<1> QED BY <1>1, <1>2, <1>3, <1>4, <1>5 DEF IInv

\* A scanning position: curr_free and, if there is one, the block before it.
LEMMA PositionFacts ==
  ASSUME TypeOK, FreeListOK, Position
  PROVE  /\ curr_free \in Int /\ 0 <= curr_free /\ curr_free <= N
         /\ mem[curr_free].size \in Int /\ 0 <= mem[curr_free].size
         /\ mem[curr_free].size # 0 <=> curr_free \in free
         /\ prev_free # NULL =>
              /\ prev_free \in free /\ prev_free < curr_free
              /\ prev_free + mem[prev_free].to_next = curr_free
              /\ \A f \in free : f < curr_free => f <= prev_free
         /\ prev_free = NULL => \A f \in free : curr_free <= f
         /\ curr_free # N => curr_free \in free
<1>1. curr_free \in free \cup {N} BY DEF Position
<1>2. curr_free \in Int /\ 0 <= curr_free /\ curr_free <= N
  BY <1>1, FreeBlock, NType
<1>3. mem[curr_free].size \in Int /\ 0 <= mem[curr_free].size
      /\ (mem[curr_free].size # 0 <=> curr_free \in free)
  BY <1>1, FreeBlock, Sentinel
<1>4. ASSUME prev_free # NULL
      PROVE  /\ prev_free \in free /\ prev_free < curr_free
             /\ prev_free + mem[prev_free].to_next = curr_free
             /\ \A f \in free : f < curr_free => f <= prev_free
  <2>1. prev_free \in free /\ curr_free = prev_free + mem[prev_free].to_next
    BY <1>4 DEF Position
  <2>2. /\ prev_free \in Int /\ mem[prev_free].to_next \in Int /\ mem[prev_free].to_next > 0
        /\ \A g \in free : g > prev_free => g >= curr_free
    BY <2>1, FreeBlock
  <2>3. \A f \in free : f \in Int BY FreeBlock
  <2> QED BY <2>1, <2>2, <2>3, <1>2
<1>5. prev_free = NULL => \A f \in free : curr_free <= f
  BY DEF Position, FreeListOK
<1> QED BY <1>1, <1>2, <1>3, <1>4, <1>5

----------------------------------------------------------------------------
\* Steps that move along the list, or start and end a walk of it, change
\* neither the heap nor the blocks.
LEMMA WalkInv ==
  ASSUME IInv,
         AllocScan \/ FreeScan \/ Monitor \/ MonitorScan \/ MonitorReturn
  PROVE  IInv'
<1> USE NType, U16Type
<1>0. TypeOK /\ FreeListOK /\ NoOverlap /\ NoWordLost /\ LoopsOK BY DEF IInv
<1>1. UNCHANGED <<first_free, mem, live, free, old, new_ptr>>
  BY DEF AllocScan, FreeScan, Monitor, MonitorScan, MonitorReturn
<1>2. FreeListOK' BY <1>0, <1>1 DEF FreeListOK
<1>3. CASE AllocScan
  <2>1. Position BY <1>0, <1>3 DEF LoopsOK, AllocScan
  <2>2. curr_free \in free /\ mem[curr_free].size < size
    BY <1>0, <1>3, <2>1, PositionFacts DEF AllocScan, TooSmall
  <2>3. curr_free' \in free \cup {N} /\ prev_free' = curr_free
        /\ curr_free' = curr_free + mem[curr_free].to_next
        /\ \A f \in free : f > curr_free => f >= curr_free'
    BY <1>0, <1>3, <2>2, FreeBlock DEF AllocScan, Advance
  <2>4. curr_free' \in 0 .. N /\ curr_free \in 0 .. N - 1 /\ \A f \in free : f \in Int
    BY <1>0, <2>2, <2>3, FreeBlock
  <2>5. TypeOK' BY <1>0, <1>1, <1>3, <2>3, <2>4 DEF TypeOK, AllocScan
  <2>6. Position' BY <1>1, <2>2, <2>3, <2>4 DEF Position, NULL
  <2>7. \A f \in free : f < curr_free' => mem[f].size < size
    <3>1. \A f \in free : f < curr_free => mem[f].size < size
      BY <1>0, <1>3 DEF LoopsOK, AllocScan
    <3>2. \A f \in free : f < curr_free' => f < curr_free \/ f = curr_free
      BY <2>3, <2>4
    <3> QED BY <2>2, <3>1, <3>2
  <2>8. LoopsOK' BY <1>0, <1>1, <1>3, <2>6, <2>7 DEF LoopsOK, AllocScan
  <2>9. NoOverlap' /\ NoWordLost' BY <1>0, <1>1, <1>3 DEF NoOverlap, NoWordLost, AllocScan
  <2> QED BY <1>2, <2>5, <2>8, <2>9 DEF IInv
<1>4. CASE FreeScan
  <2>1. Position /\ to_free \in 0 .. N - 1 /\ size > 0 BY <1>0, <1>4 DEF LoopsOK, FreeScan
  <2>2. curr_free \in free /\ curr_free < to_free
    BY <1>0, <1>4, <2>1, PositionFacts DEF FreeScan
  <2>3. curr_free' \in free \cup {N} /\ prev_free' = curr_free
        /\ curr_free' = curr_free + mem[curr_free].to_next
    BY <1>0, <1>4, <2>2, FreeBlock DEF FreeScan, Advance
  <2>4. curr_free' \in 0 .. N /\ curr_free \in 0 .. N - 1
    BY <1>0, <2>2, <2>3, FreeBlock
  <2>5. TypeOK' BY <1>0, <1>1, <1>4, <2>3, <2>4 DEF TypeOK, FreeScan
  <2>6. Position' BY <1>1, <2>2, <2>3, <2>4 DEF Position, NULL
  <2>8. LoopsOK' BY <1>0, <1>1, <1>4, <2>1, <2>2, <2>3, <2>6 DEF LoopsOK, FreeScan
  <2>9. NoOverlap' /\ NoWordLost' BY <1>0, <1>1, <1>4 DEF NoOverlap, NoWordLost, FreeScan
  <2> QED BY <1>2, <2>5, <2>8, <2>9 DEF IInv
<1>5. CASE Monitor \/ MonitorScan \/ MonitorReturn
  <2>1. pc # "free" /\ pc' # "free" /\ pc' # "alloc" /\ pc' \in {"sum", "idle"}
        /\ pc \in {"sum", "idle"} /\ old = NoBlock
    BY <1>0, <1>5 DEF Monitor, MonitorScan, MonitorReturn, LoopsOK
  <2>2. NoOverlap' /\ NoWordLost' BY <1>0, <1>1, <2>1 DEF NoOverlap, NoWordLost
  <2>3. pc' = "sum" => curr_free' \in free \cup {N}
    <3>1. CASE Monitor BY <1>0, <3>1 DEF Monitor, FreeListOK
    <3>2. CASE MonitorScan
      <4>1. curr_free \in free \cup {N} /\ mem[curr_free].to_next # 0
        BY <1>0, <3>2 DEF LoopsOK, MonitorScan
      <4>2. curr_free \in free BY <1>0, <4>1, Sentinel
      <4> QED BY <1>0, <3>2, <4>2, FreeBlock DEF MonitorScan
    <3>3. CASE MonitorReturn BY <3>3 DEF MonitorReturn
    <3> QED BY <1>5, <3>1, <3>2, <3>3
  <2>4. LoopsOK' BY <1>0, <1>1, <2>1, <2>3 DEF LoopsOK
  <2>5. TypeOK'
    <3>1. CASE Monitor BY <1>0, <1>1, <2>3, <3>1 DEF TypeOK, Monitor
    <3>2. CASE MonitorScan
      <4>1. curr_free \in free \cup {N} BY <1>0, <3>2 DEF LoopsOK, MonitorScan
      <4>2. mem[curr_free].size \in Nat BY <1>0, <4>1, FreeBlock, Sentinel
      <4>3. curr_free' \in 0 .. N BY <1>0, <1>1, <2>3, <3>2 DEF TypeOK, MonitorScan
      <4> QED BY <1>0, <1>1, <3>2, <4>2, <4>3 DEF TypeOK, MonitorScan
    <3>3. CASE MonitorReturn BY <1>0, <1>1, <3>3 DEF TypeOK, MonitorReturn, ClearLocals
    <3> QED BY <1>5, <3>1, <3>2, <3>3
  <2> QED BY <1>2, <2>2, <2>4, <2>5 DEF IInv
<1> QED BY <1>3, <1>4, <1>5

\* A call of mem_alloc, by a user or by mem_realloc.
LEMMA AllocCallInv ==
  ASSUME IInv, mem_alloc \/ mem_realloc
  PROVE  IInv'
<1> USE NType, U16Type
<1>0. TypeOK /\ FreeListOK /\ NoOverlap /\ NoWordLost /\ LoopsOK BY DEF IInv
<1>1. PICK n \in Sizes : StartAlloc(n) /\ (old' # NoBlock => old' \in live /\ n >= old'.bytes)
  BY <1>0 DEF mem_alloc, mem_realloc, LoopsOK
<1>2. pc = "idle" /\ pc' = "alloc" /\ old' \in Blocks \cup {NoBlock}
  BY <1>0 DEF mem_alloc, mem_realloc, StartAlloc, TypeOK
<1>3. UNCHANGED <<first_free, mem, live, free, to_free, sum, max, new_ptr>>
      /\ size' = Words(n) /\ bytes' = n /\ prev_free' = NULL /\ curr_free' = first_free
  BY <1>1 DEF StartAlloc
<1>4. Words(n) \in 0 .. U16 - 1 /\ n \in 0 .. U16 - 1 BY WordsRounds
<1>5. TypeOK' BY <1>0, <1>2, <1>3, <1>4 DEF TypeOK
<1>6. FreeListOK' BY <1>0, <1>3 DEF FreeListOK
<1>7. NoOverlap' /\ NoWordLost' BY <1>0, <1>2, <1>3 DEF NoOverlap, NoWordLost
<1>8. Position' BY <1>0, <1>3 DEF Position, FreeListOK
<1>9. \A f \in free : ~ (f < first_free)
  BY <1>0, FreeBlock DEF FreeListOK, TypeOK
<1>10. LoopsOK' BY <1>0, <1>1, <1>2, <1>3, <1>8, <1>9 DEF LoopsOK
<1> QED BY <1>5, <1>6, <1>7, <1>10 DEF IInv

\* What the step that ends mem_alloc does to the heap, seen through the free
\* list: the list skips the words taken, and nothing else is written.
LEMMA StretchFacts ==
  ASSUME TypeOK, FreeListOK, Position, curr_free \in free,
         NEW d \in Int, 0 <= d, d <= mem[curr_free].to_next
  PROVE  /\ Stretch(mem, d) \in [0 .. N -> Header]
         /\ \A w \in 0 .. N : w # prev_free => Stretch(mem, d)[w] = mem[w]
         /\ \A f \in free : Stretch(mem, d)[f].size = mem[f].size
         /\ prev_free # NULL =>
              Stretch(mem, d)[prev_free].to_next = mem[prev_free].to_next + d
<1> USE NType, U16Type
<1>1. mem \in [0 .. N -> Header] BY DEF TypeOK
<1>2. CASE prev_free = NULL BY <1>1, <1>2 DEF Stretch
<1>3. CASE prev_free # NULL
  <2>1. /\ prev_free \in free
        /\ prev_free + mem[prev_free].to_next = curr_free
    BY <1>3, PositionFacts
  <2>2. /\ mem[curr_free].to_next \in Int /\ curr_free \in Int
        /\ curr_free + mem[curr_free].to_next <= N
        /\ prev_free \in 0 .. N /\ mem[prev_free].to_next \in Int
        /\ mem[prev_free].to_next > 0
        /\ mem[prev_free].size \in 0 .. U16 - 1
    BY <2>1, FreeBlock
  <2>3. mem[prev_free].to_next + d <= N BY <2>1, <2>2
  <2>4. (mem[prev_free].to_next + d) % U16 = mem[prev_free].to_next + d
    BY <2>2, <2>3, U16Fits
  <2>5. Stretch(mem, d) = [mem EXCEPT ![prev_free] =
                  [size |-> mem[prev_free].size, to_next |-> mem[prev_free].to_next + d]]
    BY <1>1, <1>3, <2>2, <2>4 DEF Stretch
  <2>6. [size |-> mem[prev_free].size, to_next |-> mem[prev_free].to_next + d] \in Header
    BY <2>2, <2>3 DEF Header
  <2>7. \A f \in free : f \in 0 .. N BY FreeBlock
  <2> QED BY <1>1, <2>2, <2>5, <2>6, <2>7
<1> QED BY <1>2, <1>3

\* The free block before curr_free is the only one whose next is curr_free.
LEMMA OnlyPrev ==
  ASSUME TypeOK, FreeListOK, Position, curr_free \in free, NEW f \in free,
         f + mem[f].to_next = curr_free
  PROVE  prev_free # NULL /\ f = prev_free
<1>1. f \in Int /\ f < curr_free /\ mem[f].to_next > 0 BY FreeBlock
<1>2. prev_free # NULL BY <1>1, PositionFacts
<1>3. f <= prev_free /\ prev_free \in free BY <1>1, <1>2, PositionFacts
<1>4. f < prev_free => prev_free >= curr_free BY <1>3, FreeBlock
<1> QED BY <1>1, <1>2, <1>3, <1>4, FreeBlock, PositionFacts

\* mem_alloc returns a pointer: the new block and the other locals.
LEMMA GrantInv ==
  ASSUME IInv, pc = "alloc",
         NEW p \in 0 .. N, ReturnAlloc(p), p + size <= N,
         bytes > 0 => /\ \A b \in live : Apart(b.ptr, Words(b.bytes), p, size)
  PROVE  /\ live' \subseteq Blocks
         /\ \A b \in live' : b.bytes > 0 /\ b.ptr + Words(b.bytes) <= N
         /\ \A b, c \in live' : b # c => Apart(b.ptr, Words(b.bytes), c.ptr, Words(c.bytes))
         /\ LoopsOK'
         /\ bytes > 0 => live' = live \cup {[ptr |-> p, bytes |-> bytes]}
         /\ bytes = 0 => live' = live
         /\ size = Words(bytes) /\ bytes \in Sizes
<1> USE NType, U16Type
<1>0. TypeOK /\ NoOverlap /\ LoopsOK BY DEF IInv
<1>1. p # NULL BY DEF NULL
<1>2. size = Words(bytes) /\ bytes \in Sizes BY <1>0 DEF LoopsOK
<1>3. bytes \in Int /\ bytes >= 0 /\ size \in Int /\ size >= 0 /\ (bytes > 0 => size > 0) BY <1>2, WordsRounds
<1>4. live' = IF bytes = 0 THEN live ELSE live \cup {[ptr |-> p, bytes |-> bytes]}
  BY <1>1 DEF ReturnAlloc
<1>5. bytes > 0 => [ptr |-> p, bytes |-> bytes] \in Blocks BY <1>2, <1>3 DEF Blocks
<1>6. live' \subseteq Blocks BY <1>0, <1>3, <1>4, <1>5 DEF TypeOK
<1>7. \A b \in live' : b.bytes > 0 /\ b.ptr + Words(b.bytes) <= N
  BY <1>0, <1>2, <1>3, <1>4 DEF NoOverlap, LoopsOK
<1>8. \A b, c \in live' : b # c => Apart(b.ptr, Words(b.bytes), c.ptr, Words(c.bytes))
  <2> SUFFICES ASSUME NEW b \in live', NEW c \in live', b # c
               PROVE Apart(b.ptr, Words(b.bytes), c.ptr, Words(c.bytes))
    OBVIOUS
  <2>1. CASE b \in live /\ c \in live BY <1>0, <2>1 DEF NoOverlap
  <2>2. CASE b \in live /\ c \notin live
    BY <1>2, <1>3, <1>4, <2>2
  <2>3. CASE b \notin live /\ c \in live
    BY <1>2, <1>3, <1>4, <2>3 DEF Apart
  <2>4. CASE b \notin live /\ c \notin live BY <1>4, <2>4
  <2> QED BY <2>1, <2>2, <2>3, <2>4
<1>9. LoopsOK'
  <2>1. pc' \in {"idle", "copy"} /\ old' = old BY DEF ReturnAlloc
  <2>2. pc' = "idle" => old' = NoBlock BY <2>1 DEF ReturnAlloc
  <2>3. pc' = "copy" => old # NoBlock BY <2>1 DEF ReturnAlloc
  <2>4. ASSUME old # NoBlock
        PROVE  /\ old \in live' /\ new_ptr' = p
               /\ \E b \in live' : b # old /\ b.ptr = p /\ b.bytes >= old.bytes
    <3>1. old \in live /\ bytes >= old.bytes BY <1>0, <2>4 DEF LoopsOK
    <3>2. old.bytes > 0 /\ Words(old.bytes) > 0 /\ old.ptr \in Int /\ old.bytes \in Int
          /\ Words(old.bytes) \in Int
      BY <3>1, LiveBlock, WordsRounds
    <3>3. bytes > 0 BY <1>3, <3>1, <3>2
    <3>4. [ptr |-> p, bytes |-> bytes] \in live' BY <1>4, <3>3
    <3>5. old.ptr # p BY <1>3, <3>1, <3>2, <3>3 DEF Apart
    <3> QED BY <1>4, <2>4, <3>1, <3>4, <3>5 DEF ReturnAlloc
  <2> QED BY <1>7, <2>1, <2>2, <2>3, <2>4 DEF LoopsOK
<1> QED BY <1>2, <1>3, <1>4, <1>6, <1>7, <1>8, <1>9

LEMMA ReturnTypes ==
  ASSUME IInv, pc = "alloc", NEW p \in 0 .. N \cup {NULL}, ReturnAlloc(p)
  PROVE  /\ pc' \in {"idle", "copy"} /\ old' = old
         /\ old' \in Blocks \cup {NoBlock}
         /\ size' = 0 /\ bytes' = 0 /\ sum' = 0 /\ max' = 0
         /\ prev_free' = NULL /\ curr_free' = NULL /\ to_free' = NULL
         /\ new_ptr' \in {NULL} \cup 0 .. N
BY DEF IInv, TypeOK, ReturnAlloc, ClearLocals

LEMMA StretchZero ==
  ASSUME TypeOK, FreeListOK, Position
  PROVE  Stretch(mem, 0) = mem
<1>0. mem \in [0 .. N -> Header] BY DEF TypeOK
<1>1. CASE prev_free = NULL BY <1>1 DEF Stretch
<1>2. CASE prev_free # NULL
  <2>1. prev_free \in free BY <1>2 DEF Position
  <2>2. /\ prev_free \in 0 .. N /\ mem[prev_free].to_next \in Int
        /\ 0 <= mem[prev_free].to_next /\ mem[prev_free].to_next < U16
    BY <2>1, FreeBlock, NType
  <2>3. (mem[prev_free].to_next + 0) % U16 = mem[prev_free].to_next BY <2>2, U16Fits
  <2>4. mem[prev_free] = [size |-> mem[prev_free].size, to_next |-> mem[prev_free].to_next]
    BY <1>0, <2>2 DEF Header
  <2> QED BY <1>0, <1>2, <2>2, <2>3, <2>4 DEF Stretch
<1> QED BY <1>1, <1>2

\* mem_alloc of 0 words returns a pointer and changes nothing.
LEMMA ZeroAlloc ==
  ASSUME IInv, pc = "alloc", size = 0, AllocWhole \/ AllocSplit
  PROVE  UNCHANGED <<first_free, mem, free>>
<1> USE NType, U16Type
<1>0. TypeOK /\ FreeListOK /\ LoopsOK /\ Position BY DEF IInv, LoopsOK
<1>1. mem \in [0 .. N -> Header] BY <1>0 DEF TypeOK
<1>2. CASE curr_free \in free
  <2>1. mem[curr_free].size > 0 /\ curr_free \in 0 .. N /\ mem[curr_free].to_next \in Int
        /\ mem[curr_free].size \in Int /\ mem[curr_free].to_next > 0
        /\ mem[curr_free] \in Header
    BY <1>0, <1>1, <1>2, FreeBlock DEF TypeOK
  <2>2. AllocSplit /\ curr_free + size = curr_free /\ curr_free \in Int
    BY <2>1 DEF AllocWhole, AllocSplit
  <2>3. Stretch(mem, 0) = mem BY <1>0, StretchZero
  <2>4. Remainder = mem[curr_free] BY <2>1 DEF Remainder, Header
  <2>5. mem' = mem BY <1>1, <2>1, <2>2, <2>3, <2>4 DEF AllocSplit
  <2>6. first_free' = first_free BY <1>0, <2>2 DEF AllocSplit, Relink, Position
  <2>7. free' = free BY <1>2, <2>2 DEF AllocSplit
  <2> QED BY <2>5, <2>6, <2>7
<1>3. CASE curr_free \notin free
  <2>1. curr_free = N BY <1>0, <1>3 DEF Position
  <2>2. mem[curr_free].size = 0 /\ mem[curr_free].to_next = 0 BY <1>0, <2>1, Sentinel
  <2>3. AllocWhole BY <2>2 DEF AllocSplit
  <2>4. Stretch(mem, 0) = mem BY <1>0, StretchZero
  <2>5. mem' = mem BY <2>2, <2>3, <2>4 DEF AllocWhole
  <2>6. first_free' = first_free
    BY <1>0, <2>1, <2>2, <2>3 DEF AllocWhole, Relink, Position
  <2>7. free' = free BY <1>3, <2>3 DEF AllocWhole
  <2> QED BY <2>5, <2>6, <2>7
<1> QED BY <1>2, <1>3

\* mem_alloc that finds no block, or is asked for none.
LEMMA NothingTakenInv ==
  ASSUME IInv, pc = "alloc", NEW p \in 0 .. N \cup {NULL}, ReturnAlloc(p),
         p = NULL \/ size = 0,
         UNCHANGED <<first_free, mem, free>>
  PROVE  IInv' /\ live' = live
<1> USE NType, U16Type
<1>0. TypeOK /\ FreeListOK /\ NoOverlap /\ NoWordLost /\ LoopsOK BY DEF IInv
<1>1. size = Words(bytes) /\ bytes \in Sizes BY <1>0 DEF LoopsOK
<1>2. size = 0 => bytes = 0
  <2>1. bytes \in Int /\ bytes >= 0 /\ (bytes > 0 => Words(bytes) > 0) BY <1>1, WordsRounds
  <2> QED BY <1>1, <2>1
<1>3. live' = live BY <1>2 DEF ReturnAlloc
<1>4. ASSUME old # NoBlock PROVE old \in live /\ bytes > 0
  <2>1. old \in live /\ bytes >= old.bytes BY <1>0, <1>4 DEF LoopsOK
  <2> QED BY <1>1, <2>1, LiveBlock, WordsRounds
<1>5. old # NoBlock => p = NULL BY <1>1, <1>2, <1>4, WordsRounds
<1>6. TypeOK' BY <1>0, <1>3, ReturnTypes DEF TypeOK
<1>7. FreeListOK' BY <1>0 DEF FreeListOK
<1>8. pc' # "free" /\ pc' # "alloc" /\ pc' \in {"idle", "copy"} /\ old' = old
      /\ (pc' = "idle" <=> old = NoBlock) /\ new_ptr' \in {p, NULL}
  BY DEF ReturnAlloc
<1>9. NoOverlap' /\ NoWordLost' BY <1>0, <1>3, <1>8 DEF NoOverlap, NoWordLost
<1>10. LoopsOK' BY <1>0, <1>3, <1>4, <1>5, <1>8 DEF LoopsOK
<1> QED BY <1>3, <1>6, <1>7, <1>9, <1>10 DEF IInv

LEMMA AllocFailInv ==
  ASSUME IInv, AllocFail
  PROVE  IInv'
BY NothingTakenInv DEF AllocFail, NULL

LEMMA AllocWholeInv ==
  ASSUME IInv, AllocWhole
  PROVE  IInv'
<1> USE NType, U16Type
<1> DEFINE c == curr_free
           t == mem[curr_free].to_next
<1>0. TypeOK /\ FreeListOK /\ NoOverlap /\ NoWordLost /\ LoopsOK /\ Position /\ pc = "alloc"
  BY DEF IInv, LoopsOK, AllocWhole
<1>1. c \in 0 .. N /\ ReturnAlloc(c) /\ mem[c].size = size
  BY <1>0, PositionFacts DEF AllocWhole
<1>2. CASE size = 0 BY <1>0, <1>1, <1>2, ZeroAlloc, NothingTakenInv
<1>3. CASE size # 0
  <2>1. c \in free BY <1>0, <1>1, <1>3, PositionFacts
  <2>2. /\ c \in Int /\ t \in Int /\ 0 < t /\ c + size <= c + t /\ c + t <= N
        /\ c + t \in free \cup {N} /\ size \in Int /\ size > 0 /\ 0 <= c
        /\ \A g \in free : g > c => g >= c + t
        /\ c + size = c + t => c + t = N
    BY <1>0, <1>1, <2>1, FreeBlock
  <2>3. mem' = Stretch(mem, t) /\ free' = free \ {c}
        /\ first_free' = IF prev_free = NULL THEN c + t ELSE first_free
    BY DEF AllocWhole, Relink
  <2>4. /\ mem' \in [0 .. N -> Header]
        /\ \A w \in 0 .. N : w # prev_free => mem'[w] = mem[w]
        /\ \A f \in free : mem'[f].size = mem[f].size
        /\ prev_free # NULL => mem'[prev_free].to_next = mem[prev_free].to_next + t
    BY <1>0, <2>1, <2>2, <2>3, StretchFacts
  <2>5. bytes > 0 /\ size = Words(bytes) BY <1>0, <1>3, <2>2, WordsRounds DEF LoopsOK
  <2>6. \A b \in live : Apart(b.ptr, Words(b.bytes), c, size)
    BY <1>0, <1>1, <2>1 DEF NoOverlap
  <2>7. /\ live' \subseteq Blocks
        /\ \A b \in live' : b.bytes > 0 /\ b.ptr + Words(b.bytes) <= N
        /\ \A b, d \in live' : b # d => Apart(b.ptr, Words(b.bytes), d.ptr, Words(d.bytes))
        /\ LoopsOK'
        /\ live' = live \cup {[ptr |-> c, bytes |-> bytes]}
    BY <1>0, <1>1, <2>2, <2>5, <2>6, GrantInv
  <2>8. pc' # "free" BY <1>1 DEF ReturnAlloc
  <2>9. first_free' \in 0 .. N BY <1>0, <2>2, <2>3 DEF TypeOK
  <2>10. TypeOK'
    BY <1>0, <1>1, <2>3, <2>4, <2>7, <2>9, ReturnTypes DEF TypeOK
  <2>11. FreeListOK'
    <3>1. mem'[N] = [size |-> 0, to_next |-> 0]
      <4>1. prev_free # N BY <1>0 DEF TypeOK, NULL
      <4> QED BY <1>0, <2>4, <4>1 DEF FreeListOK
    <3>2. first_free' \in free' \cup {N}
      <4>1. CASE prev_free = NULL BY <2>2, <2>3, <4>1
      <4>2. CASE prev_free # NULL
        <5>1. prev_free \in free /\ prev_free < c BY <1>0, <4>2, PositionFacts
        <5>2. first_free # c BY <1>0, <2>2, <5>1, FreeBlock DEF FreeListOK, TypeOK
        <5> QED BY <1>0, <2>3, <4>2, <5>2 DEF FreeListOK
      <4> QED BY <4>1, <4>2
    <3>3. \A f \in free' : first_free' <= f
      <4>1. CASE prev_free = NULL
        <5>1. \A f \in free : c <= f /\ f \in Int BY <1>0, <4>1, FreeBlock, PositionFacts
        <5> QED BY <2>2, <2>3, <4>1, <5>1
      <4>2. CASE prev_free # NULL BY <1>0, <2>3, <4>2 DEF FreeListOK
      <4> QED BY <4>1, <4>2
    <3>4. ASSUME NEW f \in free'
          PROVE  /\ mem'[f].size > 0
                 /\ f + mem'[f].to_next \in free' \cup {N}
                 /\ f + mem'[f].size <= f + mem'[f].to_next
                 /\ f + mem'[f].size = f + mem'[f].to_next => f + mem'[f].to_next = N
                 /\ \A g \in free' : g > f => g >= f + mem'[f].to_next
      <4>1. f \in free /\ f # c /\ f \in 0 .. N BY <1>0, <2>3, FreeBlock
      <4>2. CASE f = prev_free
        <5>1. prev_free # NULL BY <4>1, <4>2 DEF NULL
        <5>2. f + mem[f].to_next = c BY <1>0, <4>2, <5>1, PositionFacts
        <5>3. f + mem'[f].to_next = c + t
          BY <1>0, <2>2, <2>4, <4>1, <4>2, <5>1, <5>2, FreeBlock
        <5>4. mem'[f].size = mem[f].size /\ mem[f].size > 0 /\ f + mem[f].size <= c
              /\ mem[f].size \in Int
          BY <1>0, <2>4, <4>1, <5>2, FreeBlock
        <5>5. \A g \in free : g > f => g >= c /\ g \in Int BY <1>0, <4>1, <5>2, FreeBlock
        <5>6. c + t # c BY <2>2
        <5> QED BY <2>2, <2>3, <4>1, <5>3, <5>4, <5>5, <5>6
      <4>3. CASE f # prev_free
        <5>1. mem'[f] = mem[f] BY <2>4, <4>1, <4>3
        <5>2. f + mem[f].to_next # c BY <1>0, <2>1, <4>1, <4>3, OnlyPrev
        <5> QED BY <1>0, <2>3, <4>1, <5>1, <5>2, FreeBlock
      <4> QED BY <4>2, <4>3
    <3> QED BY <3>1, <3>2, <3>3, <3>4 DEF FreeListOK
  <2>12. NoOverlap'
    <3>1. ASSUME NEW b \in live', NEW f \in free'
          PROVE  Apart(b.ptr, Words(b.bytes), f, mem'[f].size)
      <4>1. f \in free /\ f # c /\ mem'[f].size = mem[f].size BY <2>3, <2>4
      <4>2. CASE b \in live BY <1>0, <4>1, <4>2 DEF NoOverlap
      <4>3. CASE b = [ptr |-> c, bytes |-> bytes]
        <5>1. b.ptr = c /\ Words(b.bytes) = size BY <2>5, <4>3
        <5>2. c + size <= f \/ f + mem[f].size <= c
          BY <1>0, <2>1, <2>2, <4>1, FreeBlock
        <5> QED BY <4>1, <5>1, <5>2 DEF Apart
      <4> QED BY <2>7, <4>2, <4>3
    <3> QED BY <2>7, <2>8, <3>1 DEF NoOverlap
  <2>13. NoWordLost'
    <3> SUFFICES ASSUME NEW w \in 0 .. N - 1
                 PROVE  \/ \E b \in live' : b.ptr <= w /\ w < b.ptr + Words(b.bytes)
                        \/ \E f \in free' : f <= w /\ w < f + mem'[f].size
      BY DEF NoWordLost
    <3>1. CASE \E b \in live : b.ptr <= w /\ w < b.ptr + Words(b.bytes) BY <2>7, <3>1
    <3>2. CASE \E f \in free : f <= w /\ w < f + mem[f].size
      <4>1. PICK f \in free : f <= w /\ w < f + mem[f].size BY <3>2
      <4>2. CASE f = c
        <5>1. [ptr |-> c, bytes |-> bytes] \in live' BY <2>7
        <5> QED BY <1>1, <2>5, <4>1, <4>2, <5>1
      <4>3. CASE f # c BY <2>3, <2>4, <4>1, <4>3
      <4> QED BY <4>2, <4>3
    <3> QED BY <1>0, <3>1, <3>2 DEF NoWordLost
  <2> QED BY <2>7, <2>10, <2>11, <2>12, <2>13 DEF IInv
<1> QED BY <1>2, <1>3

LEMMA AllocSplitInv ==
  ASSUME IInv, AllocSplit
  PROVE  IInv'
<1> USE NType, U16Type
<1> DEFINE c == curr_free
           t == mem[curr_free].to_next
           s == mem[curr_free].size
           r == curr_free + size
<1>0. TypeOK /\ FreeListOK /\ NoOverlap /\ NoWordLost /\ LoopsOK /\ Position /\ pc = "alloc"
  BY DEF IInv, LoopsOK, AllocSplit
<1>1. c \in 0 .. N /\ ReturnAlloc(c) /\ s > size /\ s \in Int /\ size \in Int /\ size >= 0
  BY <1>0, PositionFacts DEF AllocSplit, TypeOK
<1>2. CASE size = 0 BY <1>0, <1>1, <1>2, ZeroAlloc, NothingTakenInv
<1>3. CASE size # 0
  <2>1. c \in free BY <1>0, <1>1, <1>3, PositionFacts
  <2>2. /\ c \in Int /\ t \in Int /\ 0 < t /\ c + s <= c + t /\ c + t <= N
        /\ c + t \in free \cup {N} /\ size > 0 /\ 0 <= c /\ s < U16 /\ t < U16
        /\ \A g \in free : g > c => g >= c + t
        /\ c + s = c + t => c + t = N
    BY <1>0, <1>1, <1>3, <2>1, FreeBlock
  <2>3. mem' = [Stretch(mem, size) EXCEPT ![r] = Remainder]
        /\ free' = (free \ {c}) \cup {r}
        /\ first_free' = IF prev_free = NULL THEN r ELSE first_free
    BY DEF AllocSplit, Relink
  <2>4. /\ Stretch(mem, size) \in [0 .. N -> Header]
        /\ \A w \in 0 .. N : w # prev_free => Stretch(mem, size)[w] = mem[w]
        /\ \A f \in free : Stretch(mem, size)[f].size = mem[f].size
        /\ prev_free # NULL => Stretch(mem, size)[prev_free].to_next = mem[prev_free].to_next + size
    <3>1. size <= t BY <1>1, <2>2
    <3> QED BY <1>0, <1>1, <2>1, <3>1, StretchFacts
  <2>5. bytes > 0 /\ size = Words(bytes) BY <1>0, <1>1, <1>3, WordsRounds DEF LoopsOK
  <2>6. \A b \in live : Apart(b.ptr, Words(b.bytes), c, size)
    <3>1. \A b \in live : Apart(b.ptr, Words(b.bytes), c, s) BY <1>0, <2>1 DEF NoOverlap
    <3>2. \A b \in live : b.ptr \in Int /\ Words(b.bytes) \in Int BY LiveBlock
    <3> QED BY <1>1, <2>2, <3>1, <3>2 DEF Apart
  <2>7. /\ live' \subseteq Blocks
        /\ \A b \in live' : b.bytes > 0 /\ b.ptr + Words(b.bytes) <= N
        /\ \A b, d \in live' : b # d => Apart(b.ptr, Words(b.bytes), d.ptr, Words(d.bytes))
        /\ LoopsOK'
        /\ live' = live \cup {[ptr |-> c, bytes |-> bytes]}
    BY <1>0, <1>1, <2>2, <2>5, <2>6, GrantInv
  <2>eq. r = c + size /\ s = mem[c].size /\ t = mem[c].to_next OBVIOUS
  <2> HIDE DEF r, s, t
  <2>8. pc' # "free" BY <1>1 DEF ReturnAlloc
  <2>9. r \in 0 .. N - 1 /\ r \in Int /\ c < r /\ r < c + s /\ r = c + size BY <1>1, <2>2, <2>eq
  <2>10. r \notin free
    <3>1. r > c /\ ~ (r >= c + t) BY <1>1, <2>2, <2>9
    <3> QED BY <2>2, <3>1
  <2>11. prev_free # NULL =>
           /\ prev_free \in free /\ prev_free < c /\ prev_free \in 0 .. N - 1
           /\ prev_free + mem[prev_free].to_next = c
           /\ mem[prev_free].to_next \in Int
    BY <1>0, PositionFacts, FreeBlock
  <2>12. Remainder = [size |-> s - size, to_next |-> t - size] /\ Remainder \in Header
    BY <1>1, <2>2, <2>eq DEF Remainder, Header
  <2>13. /\ mem' \in [0 .. N -> Header]
         /\ mem'[r].size = s - size /\ mem'[r].to_next = t - size
         /\ \A w \in 0 .. N : w # prev_free /\ w # r => mem'[w] = mem[w]
         /\ \A f \in free : mem'[f].size = mem[f].size
         /\ prev_free # NULL => mem'[prev_free].to_next = mem[prev_free].to_next + size
    <3>1. \A f \in free : f \in 0 .. N /\ f # r BY <1>0, <2>10, FreeBlock
    <3> QED BY <2>3, <2>4, <2>9, <2>11, <2>12, <3>1
  <2>14. TypeOK'
    <3>1. first_free' \in 0 .. N BY <1>0, <2>3, <2>9 DEF TypeOK
    <3>2. free' \subseteq 0 .. N - 1 BY <1>0, <2>3, <2>9 DEF TypeOK
    <3> QED BY <1>0, <1>1, <2>7, <2>13, <3>1, <3>2, ReturnTypes DEF TypeOK
  <2>15. FreeListOK'
    <3>1. mem'[N] = [size |-> 0, to_next |-> 0]
      <4>1. prev_free # N /\ r # N BY <1>0, <2>9 DEF TypeOK, NULL
      <4> QED BY <1>0, <2>13, <4>1 DEF FreeListOK
    <3>2. first_free' \in free' \cup {N}
      <4>1. CASE prev_free = NULL BY <2>3, <4>1
      <4>2. CASE prev_free # NULL
        <5>1. first_free # c BY <1>0, <2>2, <2>11, <4>2, FreeBlock DEF FreeListOK, TypeOK
        <5> QED BY <1>0, <2>3, <4>2, <5>1 DEF FreeListOK
      <4> QED BY <4>1, <4>2
    <3>3. \A f \in free' : first_free' <= f
      <4>1. \A f \in free : f \in Int BY <1>0, FreeBlock
      <4>2. CASE prev_free = NULL
        <5>1. \A f \in free : c <= f BY <1>0, <4>2, PositionFacts
        <5> QED BY <1>1, <2>2, <2>3, <2>9, <4>1, <4>2, <5>1
      <4>3. CASE prev_free # NULL
        <5>1. \A f \in free : first_free <= f BY <1>0 DEF FreeListOK
        <5>2. first_free \in Int BY <1>0 DEF TypeOK
        <5>3. first_free <= r BY <2>1, <2>2, <2>9, <5>1, <5>2
        <5> QED BY <2>3, <4>3, <5>1, <5>3
      <4> QED BY <4>2, <4>3
    <3>4. ASSUME NEW f \in free'
          PROVE  /\ mem'[f].size > 0
                 /\ f + mem'[f].to_next \in free' \cup {N}
                 /\ f + mem'[f].size <= f + mem'[f].to_next
                 /\ f + mem'[f].size = f + mem'[f].to_next => f + mem'[f].to_next = N
                 /\ \A g \in free' : g > f => g >= f + mem'[f].to_next
      <4>0. \A g \in free : g \in Int BY <1>0, FreeBlock
      <4>1. CASE f = r
        <5>1. f + mem'[f].to_next = c + t /\ f + mem'[f].size = c + s /\ mem'[f].size > 0
          BY <1>1, <2>2, <2>9, <2>13, <4>1
        <5>2. c + t \in free' \cup {N} BY <2>2, <2>3
        <5>3. \A g \in free' : g > f => g >= c + t BY <2>2, <2>3, <2>9, <4>0, <4>1
        <5> QED BY <2>2, <5>1, <5>2, <5>3
      <4>2. CASE f = prev_free /\ f # r
        <5>0. f \in free BY <2>3, <4>2
        <5>1. prev_free # NULL /\ f \in free /\ f + mem[f].to_next = c
          <6>1. f # NULL BY <1>0, <5>0, FreeBlock DEF NULL
          <6> QED BY <2>11, <4>2, <5>0, <6>1
        <5>2. f + mem'[f].to_next = r
          <6>1. mem'[f].to_next = mem[f].to_next + size BY <2>13, <4>2, <5>1
          <6>2. mem[f].to_next \in Int /\ f \in Int BY <1>0, <5>0, FreeBlock
          <6> QED BY <1>1, <2>9, <5>1, <6>1, <6>2
        <5>3. mem'[f].size = mem[f].size /\ mem[f].size > 0 /\ f + mem[f].size <= c
              /\ mem[f].size \in Int /\ f \in Int
          BY <1>0, <2>13, <5>1, FreeBlock
        <5>4. \A g \in free : g > f => g >= c BY <1>0, <5>1, FreeBlock
        <5>5. \A g \in free : g > f /\ g # c => g >= r
          <6>1. \A g \in free : g > c => g >= r BY <1>1, <2>2, <2>9, <4>0
          <6> QED BY <2>2, <4>0, <5>4, <6>1
        <5>6. \A g \in free' : g > f => g >= r BY <2>3, <2>9, <5>5
        <5>7. f + mem[f].size < r /\ r \in free' BY <2>2, <2>3, <2>9, <5>3
        <5> QED BY <2>9, <5>2, <5>3, <5>6, <5>7
      <4>3. CASE f # prev_free /\ f # r
        <5>1. f \in free /\ f # c /\ f \in 0 .. N BY <1>0, <2>3, <4>3, FreeBlock
        <5>2. mem'[f] = mem[f] BY <2>13, <4>3, <5>1
        <5>3. f + mem[f].to_next # c BY <1>0, <2>1, <4>3, <5>1, OnlyPrev
        <5>4. r > f => r >= f + mem[f].to_next
          <6>1. CASE f < c
            <7>1. c >= f + mem[f].to_next BY <1>0, <2>1, <5>1, <6>1, FreeBlock
            <7> QED BY <1>0, <2>2, <2>9, <5>1, <7>1, FreeBlock
          <6>2. CASE f > c
            <7>1. f >= c + t BY <2>2, <5>1, <6>2
            <7> QED BY <1>1, <2>2, <2>9, <5>1, <7>1
          <6> QED BY <2>2, <5>1, <6>1, <6>2
        <5>5. \A g \in free : g > f => g >= f + mem[f].to_next BY <1>0, <5>1, FreeBlock
        <5>6. /\ mem[f].size > 0 /\ f + mem[f].to_next \in free \cup {N}
              /\ f + mem[f].size <= f + mem[f].to_next
              /\ f + mem[f].size = f + mem[f].to_next => f + mem[f].to_next = N
          BY <1>0, <5>1, FreeBlock
        <5> QED BY <2>3, <5>2, <5>3, <5>4, <5>5, <5>6
      <4> QED BY <4>1, <4>2, <4>3
    <3> QED BY <3>1, <3>2, <3>3, <3>4 DEF FreeListOK
  <2>16. NoOverlap'
    <3>1. ASSUME NEW b \in live', NEW f \in free'
          PROVE  Apart(b.ptr, Words(b.bytes), f, mem'[f].size)
      <4>1. CASE b \in live /\ f = r
        <5>1. Apart(b.ptr, Words(b.bytes), c, s) BY <1>0, <2>1, <2>eq, <4>1 DEF NoOverlap
        <5>2. b.ptr \in Int /\ Words(b.bytes) \in Int BY <4>1, LiveBlock
        <5>3. mem'[f].size = s - size BY <2>13, <4>1
        <5> QED BY <1>1, <2>2, <2>9, <4>1, <5>1, <5>2, <5>3 DEF Apart
      <4>2. CASE b \in live /\ f # r
        BY <1>0, <2>3, <2>13, <4>2 DEF NoOverlap
      <4>3. CASE b = [ptr |-> c, bytes |-> bytes]
        <5>1. b.ptr = c /\ Words(b.bytes) = size BY <2>5, <4>3
        <5>2. CASE f = r BY <1>1, <2>2, <2>9, <5>1, <5>2 DEF Apart
        <5>3. CASE f # r
          <6>1. f \in free /\ f # c /\ mem'[f].size = mem[f].size BY <2>3, <2>13, <5>3
          <6>2. c + size <= f \/ f + mem[f].size <= c
            <7>1. f \in Int /\ mem[f].size \in Int /\ mem[f].to_next \in Int
                  /\ f + mem[f].size <= f + mem[f].to_next
                  /\ (f < c => f + mem[f].to_next <= c)
              BY <1>0, <2>1, <6>1, FreeBlock
            <7>2. f > c => f >= c + t BY <2>2, <6>1
            <7> QED BY <1>1, <2>2, <6>1, <7>1, <7>2
          <6> QED BY <5>1, <6>1, <6>2 DEF Apart
        <5> QED BY <5>2, <5>3
      <4> QED BY <2>7, <4>1, <4>2, <4>3
    <3> QED BY <2>7, <2>8, <3>1 DEF NoOverlap
  <2>17. NoWordLost'
    <3> SUFFICES ASSUME NEW w \in 0 .. N - 1
                 PROVE  \/ \E b \in live' : b.ptr <= w /\ w < b.ptr + Words(b.bytes)
                        \/ \E f \in free' : f <= w /\ w < f + mem'[f].size
      BY DEF NoWordLost
    <3>1. CASE \E b \in live : b.ptr <= w /\ w < b.ptr + Words(b.bytes) BY <2>7, <3>1
    <3>2. CASE \E f \in free : f <= w /\ w < f + mem[f].size
      <4>1. PICK f \in free : f <= w /\ w < f + mem[f].size BY <3>2
      <4>2. CASE f = c /\ w < r
        <5>1. [ptr |-> c, bytes |-> bytes] \in live' BY <2>7
        <5> QED BY <1>1, <2>5, <2>9, <4>1, <4>2, <5>1
      <4>3. CASE f = c /\ ~ (w < r)
        <5>1. r \in free' /\ r <= w /\ w < r + mem'[r].size
          <6>1. w < c + s /\ w >= r BY <2>eq, <2>9, <4>1, <4>3
          <6> QED BY <1>1, <2>2, <2>3, <2>9, <2>13, <6>1
        <5> QED BY <5>1
      <4>4. CASE f # c BY <2>3, <2>13, <4>1, <4>4
      <4> QED BY <4>2, <4>3, <4>4
    <3> QED BY <1>0, <3>1, <3>2 DEF NoWordLost
  <2> QED BY <2>7, <2>14, <2>15, <2>16, <2>17 DEF IInv
<1> QED BY <1>2, <1>3

----------------------------------------------------------------------------
\* Steps that write only words of live blocks leave the free list as it is.
LEMMA OwnedWordsInv ==
  ASSUME IInv, pc # "free",
         UNCHANGED <<first_free, live, free, locals, old, new_ptr>>,
         mem' \in [0 .. N -> Header],
         \A w \in 0 .. N : w \notin LiveWords => mem'[w] = mem[w],
         pc' # pc => pc = "copy" /\ pc' = "release"
  PROVE  IInv'
<1> USE NType, U16Type
<1>0. TypeOK /\ FreeListOK /\ NoOverlap /\ NoWordLost /\ LoopsOK BY DEF IInv
<1>1. ASSUME NEW f \in free \cup {N} PROVE mem'[f] = mem[f]
  <2>1. SUFFICES ASSUME f \in LiveWords PROVE FALSE BY <1>0, FreeBlock, Sentinel
  <2>2. PICK b \in live : f \in WordsOf(b) BY <2>1 DEF LiveWords
  <2>3. b.ptr \in Int /\ Words(b.bytes) \in Int /\ b.ptr + Words(b.bytes) <= N BY LiveBlock
  <2>4. f \in Int /\ b.ptr <= f /\ f < b.ptr + Words(b.bytes) BY <2>2, <2>3 DEF WordsOf
  <2>5. f \in free BY <2>3, <2>4
  <2>6. Apart(b.ptr, Words(b.bytes), f, mem[f].size) /\ mem[f].size > 0 /\ mem[f].size \in Int
    BY <1>0, <2>5, FreeBlock DEF NoOverlap
  <2> QED BY <2>3, <2>4, <2>6 DEF Apart
<1>2. pc' # "free" /\ UNCHANGED <<size, bytes, prev_free, curr_free, to_free, sum, max>>
  BY DEF locals
<1>3. TypeOK' BY <1>0, <1>2 DEF TypeOK
<1>4. FreeListOK' BY <1>0, <1>1 DEF FreeListOK
<1>5. NoOverlap' /\ NoWordLost' BY <1>0, <1>1, <1>2 DEF NoOverlap, NoWordLost
<1>6. Position => Position' BY <1>1, <1>2 DEF Position
<1>7. LoopsOK' BY <1>0, <1>1, <1>2, <1>6 DEF LoopsOK
<1> QED BY <1>3, <1>4, <1>5, <1>7 DEF IInv

LEMMA UserWriteInv ==
  ASSUME IInv, UserWrite
  PROVE  IInv'
<1> USE NType, U16Type
<1>0. PICK b \in live : \E w \in WordsOf(b), v \in UserWords : mem' = [mem EXCEPT ![w] = v]
  BY DEF UserWrite
<1>1. PICK w \in WordsOf(b), v \in UserWords : mem' = [mem EXCEPT ![w] = v]
  BY <1>0
<1>2. mem \in [0 .. N -> Header] /\ v \in Header BY UserWordsAssumption DEF IInv, TypeOK
<1>3. mem' \in [0 .. N -> Header] /\ \A u \in 0 .. N : u \notin LiveWords => mem'[u] = mem[u]
  BY <1>1, <1>2 DEF LiveWords
<1> QED BY <1>3, OwnedWordsInv DEF UserWrite

\* The copy goes to the new block, which is as long as the old one.
LEMMA CopyTarget ==
  ASSUME IInv, pc = "copy", new_ptr # NULL
  PROVE  \E b \in live : /\ b # old /\ b.ptr = new_ptr
                         /\ new_ptr .. new_ptr + Words(old.bytes) - 1 \subseteq WordsOf(b)
                         /\ \A w \in new_ptr .. new_ptr + Words(old.bytes) - 1 :
                              old.ptr + (w - new_ptr) \in 0 .. N
<1> USE NType, U16Type
<1>1. old \in live BY DEF IInv, LoopsOK
<1>2. PICK b \in live : b # old /\ b.ptr = new_ptr /\ b.bytes >= old.bytes
  BY DEF IInv, LoopsOK
<1>3. Words(old.bytes) <= Words(b.bytes) /\ Words(b.bytes) \in Int /\ Words(old.bytes) \in Int
      /\ b.ptr \in Int /\ old.ptr \in Int /\ 0 <= old.ptr /\ old.ptr + Words(old.bytes) <= N
  BY <1>1, <1>2, LiveBlock, WordsMonotone
<1> QED BY <1>2, <1>3 DEF WordsOf

LEMMA ReallocCopyInv ==
  ASSUME IInv, ReallocCopy
  PROVE  IInv'
<1> USE NType, U16Type
<1>0. mem \in [0 .. N -> Header] BY DEF IInv, TypeOK
<1>1. mem' \in [0 .. N -> Header] /\ \A u \in 0 .. N : u \notin LiveWords => mem'[u] = mem[u]
  <2>1. CASE new_ptr = NULL BY <1>0, <2>1 DEF ReallocCopy
  <2>2. CASE new_ptr # NULL
    <3>1. PICK b \in live :
            /\ new_ptr .. new_ptr + Words(old.bytes) - 1 \subseteq WordsOf(b)
            /\ \A w \in new_ptr .. new_ptr + Words(old.bytes) - 1 :
                 old.ptr + (w - new_ptr) \in 0 .. N
      BY <2>2, CopyTarget DEF ReallocCopy
    <3>2. mem' = [w \in 0 .. N |-> IF w \in new_ptr .. new_ptr + Words(old.bytes) - 1
                                   THEN mem[old.ptr + (w - new_ptr)] ELSE mem[w]]
      BY <2>2 DEF ReallocCopy
    <3> QED BY <1>0, <3>1, <3>2 DEF LiveWords
  <2> QED BY <2>1, <2>2
<1> QED BY <1>1, OwnedWordsInv DEF ReallocCopy

\* A call of mem_free, by a user or at the end of mem_realloc.
LEMMA FreeCallInv ==
  ASSUME IInv, mem_free \/ ReallocFree
  PROVE  IInv'
<1> USE NType, U16Type
<1>0. TypeOK /\ FreeListOK /\ NoOverlap /\ NoWordLost /\ LoopsOK BY DEF IInv
<1>1. PICK b \in live : StartFree(b) BY <1>0 DEF mem_free, ReallocFree, LoopsOK
<1>2. /\ pc # "free" /\ pc' = "free" /\ live' = live \ {b}
      /\ size' = Words(b.bytes) /\ bytes' = b.bytes /\ to_free' = b.ptr
      /\ prev_free' = NULL /\ curr_free' = first_free
      /\ old' = NoBlock /\ new_ptr' = NULL
      /\ UNCHANGED <<first_free, mem, free, sum, max>>
  BY <1>1 DEF StartFree, mem_free, ReallocFree
<1>3. /\ b.bytes \in 0 .. U16 - 1 /\ b.ptr \in 0 .. N - 1 /\ Words(b.bytes) \in 0 .. U16 - 1
      /\ Words(b.bytes) > 0 /\ b.ptr + Words(b.bytes) <= N
  BY LiveBlock, WordsRounds
<1>4. TypeOK' BY <1>0, <1>2, <1>3 DEF TypeOK
<1>5. FreeListOK' BY <1>0, <1>2 DEF FreeListOK
<1>6. NoOverlap'
  <2>1. \A d \in live' : d \in live /\ d # b BY <1>2
  <2>2. \A f \in free : Apart(f, mem[f].size, b.ptr, Words(b.bytes))
    BY <1>0 DEF NoOverlap, Apart
  <2> QED BY <1>0, <1>2, <1>3, <2>1, <2>2 DEF NoOverlap
<1>7. NoWordLost' BY <1>0, <1>2 DEF NoWordLost
<1>8. Position' BY <1>0, <1>2 DEF Position, FreeListOK
<1>9. LoopsOK' BY <1>0, <1>2, <1>3, <1>8 DEF LoopsOK
<1> QED BY <1>4, <1>5, <1>6, <1>7, <1>9 DEF IInv

----------------------------------------------------------------------------
\* mem_free, first half: the freed block gets a header and absorbs the block
\* after it when they touch.  x is the block, NX what follows it on the list.
LEMMA ChainNext ==
  ASSUME IInv, pc = "free", curr_free >= to_free
  PROVE  LET x == to_free
             X == ChainedNext[to_free]
             NX == x + X.to_next IN
         /\ ChainedNext \in [0 .. N -> Header]
         /\ x \in 0 .. N - 1 /\ x \notin free
         /\ \A w \in 0 .. N : w # x => ChainedNext[w] = mem[w]
         /\ X.size \in Int /\ X.to_next \in Int /\ X.size >= size /\ size > 0 /\ size \in Int
         /\ x + X.size <= NX /\ NX <= N
         /\ NX \in (free \ MergedNext) \cup {N}
         /\ x + X.size = NX => NX = N
         /\ \A g \in free : g > x => g >= NX \/ g \in MergedNext
         /\ \A g \in MergedNext : /\ g \in free /\ g > x
                                  /\ x + size = g /\ X.size = size + mem[g].size
         /\ MergedNext = {} => X.size = size
<1> USE NType, U16Type
<1> DEFINE x == to_free
           c == curr_free
<1>0. TypeOK /\ FreeListOK /\ NoOverlap /\ LoopsOK /\ Position BY DEF IInv, LoopsOK
<1>1. x \in 0 .. N - 1 /\ size > 0 /\ size \in Int /\ size < U16 /\ x + size <= N /\ x \in Int
  BY <1>0 DEF LoopsOK, NoOverlap, TypeOK
<1>2. c \in Int /\ 0 <= c /\ c <= N /\ c >= x /\ c \in free \cup {N}
      /\ (mem[c].size # 0 <=> c \in free)
  BY <1>0, PositionFacts DEF Position
<1>3. x \notin free
  <2>1. ASSUME x \in free PROVE FALSE
    <3>1. Apart(x, mem[x].size, x, size) BY <1>0, <2>1 DEF NoOverlap
    <3>2. mem[x].size > 0 /\ mem[x].size \in Int BY <1>0, <2>1, FreeBlock
    <3> QED BY <1>1, <3>1, <3>2 DEF Apart
  <2> QED BY <2>1
<1>4. x + size <= c
  <2>1. CASE c = N BY <1>1, <2>1
  <2>2. CASE c \in free
    <3>1. Apart(c, mem[c].size, x, size) BY <1>0, <2>2 DEF NoOverlap
    <3>2. mem[c].size > 0 /\ mem[c].size \in Int BY <1>0, <2>2, FreeBlock
    <3> QED BY <1>1, <1>2, <3>1, <3>2 DEF Apart
  <2> QED BY <1>2, <2>1, <2>2
<1>5. \A g \in free : g \in Int /\ (g > x => g >= c)
  <2>1. \A g \in free : g \in Int BY <1>0, FreeBlock
  <2>2. prev_free # NULL => prev_free < x /\ prev_free \in Int
    BY <1>0, PositionFacts, FreeBlock DEF LoopsOK
  <2>3. \A g \in free : g < c => prev_free # NULL /\ g <= prev_free
    BY <1>0, <1>2, <2>1, PositionFacts
  <2> QED BY <1>1, <1>2, <2>1, <2>2, <2>3
<1>6. mem \in [0 .. N -> Header] BY <1>0 DEF TypeOK
<1>7. [size |-> size, to_next |-> c - x] \in Header BY <1>1, <1>2 DEF Header
<1>8. WithHeader \in [0 .. N -> Header] /\ WithHeader[x] = [size |-> size, to_next |-> c - x]
      /\ \A w \in 0 .. N : w # x => WithHeader[w] = mem[w]
  BY <1>1, <1>6, <1>7 DEF WithHeader
<1>9. c # x /\ WithHeader[c] = mem[c] BY <1>1, <1>2, <1>4, <1>8
<1> DEFINE X == ChainedNext[to_free]
<1> SUFFICES /\ ChainedNext \in [0 .. N -> Header]
             /\ \A w \in 0 .. N : w # x => ChainedNext[w] = mem[w]
             /\ X.size \in Int /\ X.to_next \in Int /\ X.size >= size
             /\ x + X.size <= x + X.to_next /\ x + X.to_next <= N
             /\ x + X.to_next \in (free \ MergedNext) \cup {N}
             /\ x + X.size = x + X.to_next => x + X.to_next = N
             /\ \A g \in free : g > x => g >= x + X.to_next \/ g \in MergedNext
             /\ \A g \in MergedNext : /\ g \in free /\ g > x
                                      /\ x + size = g /\ X.size = size + mem[g].size
             /\ MergedNext = {} => X.size = size
  BY <1>1, <1>3
<1>10. CASE c \in free /\ x + size = c
  <2>1. /\ mem[c].size \in Int /\ mem[c].size > 0 /\ mem[c].to_next \in Int /\ mem[c].to_next > 0
        /\ c + mem[c].size <= c + mem[c].to_next /\ c + mem[c].to_next <= N
        /\ c + mem[c].to_next \in free \cup {N}
        /\ \A g \in free : g > c => g >= c + mem[c].to_next
        /\ c + mem[c].size = c + mem[c].to_next => c + mem[c].to_next = N
    BY <1>0, <1>10, FreeBlock
  <2> DEFINE s == size + mem[c].size
             t == mem[c].to_next + size
  <2>0. s \in Int /\ 0 <= s /\ s < U16 /\ t \in Int /\ 0 <= t /\ t < U16
    BY <1>1, <1>10, <2>1
  <2> HIDE DEF s, t
  <2>2. s % U16 = s BY <2>0, U16Fits
  <2>3. t % U16 = t BY <2>0, U16Fits
  <2>4. ChainedNext = [WithHeader EXCEPT ![x] = [size |-> size + mem[c].size,
                                                 to_next |-> mem[c].to_next + size]]
    <3>1. WithHeader[c].size # 0 /\ WithHeader[x].size = size
      BY <1>2, <1>8, <1>9, <1>10
    <3>2. ChainedNext = chain_free_blocs(WithHeader, x, c) BY <3>1 DEF ChainedNext
    <3>3. ChainedNext = [WithHeader EXCEPT ![x] = [size |-> s % U16, to_next |-> t % U16]]
      BY <1>9, <1>10, <3>1, <3>2 DEF chain_free_blocs, s, t
    <3> QED BY <2>2, <2>3, <3>3 DEF s, t
  <2>5. [size |-> size + mem[c].size, to_next |-> mem[c].to_next + size] \in Header
    BY <1>1, <1>10, <2>1 DEF Header
  <2>6. ChainedNext \in [0 .. N -> Header] /\ X = [size |-> size + mem[c].size,
                                                  to_next |-> mem[c].to_next + size]
        /\ \A w \in 0 .. N : w # x => ChainedNext[w] = mem[w]
    BY <1>1, <1>8, <2>4, <2>5
  <2> HIDE DEF X
  <2>7. MergedNext = {c} BY <1>2, <1>10 DEF MergedNext
  <2>8. x + X.to_next = c + mem[c].to_next /\ x + X.size = c + mem[c].size
    BY <1>1, <1>10, <2>1, <2>6
  <2>9. \A g \in free : g > x => g >= x + X.to_next \/ g \in MergedNext
    BY <1>2, <1>5, <2>1, <2>7, <2>8
  <2>10. X.size = size + mem[c].size /\ X.to_next = mem[c].to_next + size BY <2>6
  <2>11. c > x BY <1>1, <1>2, <1>9
  <2>12. c + mem[c].to_next # c BY <1>2, <2>1
  <2>13. x + X.to_next \in (free \ MergedNext) \cup {N} BY <2>1, <2>7, <2>8, <2>12
  <2>14. X.size \in Int /\ X.to_next \in Int /\ X.size >= size BY <1>1, <2>1, <2>10
  <2>15. \A g \in MergedNext : /\ g \in free /\ g > x
                               /\ x + size = g /\ X.size = size + mem[g].size
    BY <1>10, <2>7, <2>10, <2>11
  <2> QED BY <2>1, <2>6, <2>7, <2>8, <2>9, <2>13, <2>14, <2>15
<1>11. CASE ~ (c \in free /\ x + size = c)
  <2>1. ChainedNext = WithHeader
    <3>1. CASE c \notin free BY <1>2, <1>9, <3>1 DEF ChainedNext
    <3>2. CASE c \in free
      <4>1. chain_free_blocs(WithHeader, x, c)
              = [WithHeader EXCEPT ![x] = [size |-> size, to_next |-> c - x]]
        BY <1>8, <1>11, <3>2 DEF chain_free_blocs
      <4>2. [WithHeader EXCEPT ![x] = [size |-> size, to_next |-> c - x]] = WithHeader
        BY <1>1, <1>8
      <4> QED BY <1>2, <1>9, <3>2, <4>1, <4>2 DEF ChainedNext
    <3> QED BY <3>1, <3>2
  <2>2. X = [size |-> size, to_next |-> c - x] BY <1>8, <2>1
  <2>3. X.size = size /\ X.to_next = c - x BY <2>2
  <2> HIDE DEF X
  <2>4. x + X.to_next = c BY <1>1, <1>2, <2>3
  <2>5. MergedNext = {} BY <1>2, <1>11 DEF MergedNext
  <2>6. x + size = c => c = N BY <1>2, <1>11
  <2> QED BY <1>1, <1>2, <1>4, <1>5, <1>8, <2>1, <2>3, <2>4, <2>5, <2>6
<1> QED BY <1>10, <1>11

\* mem_free, second half: the block before absorbs it when they touch.  H is
\* the free block that holds the freed words in the end.
LEMMA FreeLinkInv ==
  ASSUME IInv, FreeLink
  PROVE  IInv'
<1> USE NType, U16Type
<1> DEFINE x == to_free
           p == prev_free
           X == ChainedNext[to_free]
           NX == to_free + ChainedNext[to_free].to_next
           touching == prev_free # NULL /\ prev_free + mem[prev_free].size = to_free
           H == IF touching THEN prev_free ELSE to_free
<1>0. TypeOK /\ FreeListOK /\ NoOverlap /\ NoWordLost /\ LoopsOK /\ Position /\ pc = "free"
      /\ curr_free >= to_free
  BY DEF IInv, LoopsOK, FreeLink
<1>1. /\ ChainedNext \in [0 .. N -> Header]
      /\ x \in 0 .. N - 1 /\ x \notin free
      /\ \A w \in 0 .. N : w # x => ChainedNext[w] = mem[w]
      /\ X.size \in Int /\ X.to_next \in Int /\ X.size >= size /\ size > 0 /\ size \in Int
      /\ x + X.size <= NX /\ NX <= N
      /\ NX \in (free \ MergedNext) \cup {N}
      /\ x + X.size = NX => NX = N
      /\ \A g \in free : g > x => g >= NX \/ g \in MergedNext
      /\ \A g \in MergedNext : /\ g \in free /\ g > x
                               /\ x + size = g /\ X.size = size + mem[g].size
      /\ MergedNext = {} => X.size = size
  BY <1>0, ChainNext
<1>2. /\ x \in Int /\ 0 <= x /\ x < N /\ size \in Int /\ size > 0
      /\ X.size \in Int /\ X.size > 0 /\ X.size >= size /\ X.to_next \in Int
      /\ NX \in Int /\ NX > x /\ NX = x + X.to_next /\ NX <= N /\ x + X.size <= NX
  <2>1. /\ x \in 0 .. N - 1 /\ size \in Int /\ size > 0
        /\ X.size \in Int /\ X.size >= size /\ X.to_next \in Int
        /\ NX = x + X.to_next /\ NX <= N /\ x + X.size <= NX
    BY <1>1
  <2> HIDE DEF x, X, NX
  <2> QED BY <2>1
<1>3. p # NULL => /\ p \in free /\ p < x /\ p \in Int /\ 0 <= p
                  /\ mem[p].size \in Int /\ mem[p].size > 0 /\ mem[p].size < U16
                  /\ p + mem[p].size <= x
  <2>1. SUFFICES ASSUME p # NULL
                 PROVE  /\ p \in free /\ p < x /\ p \in Int /\ 0 <= p
                        /\ mem[p].size \in Int /\ mem[p].size > 0 /\ mem[p].size < U16
                        /\ p + mem[p].size <= x
    OBVIOUS
  <2>2. p \in free /\ p < x BY <1>0, <2>1 DEF LoopsOK, Position
  <2>3. /\ p \in Int /\ 0 <= p
        /\ mem[p].size \in Int /\ mem[p].size > 0 /\ mem[p].size < U16
    BY <1>0, <2>2, FreeBlock
  <2>4. Apart(p, mem[p].size, x, size) BY <1>0, <2>2 DEF NoOverlap
  <2> QED BY <1>1, <1>2, <2>2, <2>3, <2>4 DEF Apart
<1>4. \A f \in free : f \in Int /\ f \in 0 .. N /\ (f < x => p # NULL /\ f <= p)
  <2>1. \A f \in free : f \in Int /\ f \in 0 .. N BY <1>0, FreeBlock
  <2>2. curr_free \in Int /\ x <= curr_free BY <1>0, PositionFacts
  <2> QED BY <1>0, <1>2, <2>1, <2>2, PositionFacts
<1>5. p # NULL => ChainedNext[p] = mem[p] BY <1>1, <1>3, <1>4
<1>6. p # NULL /\ ~ touching => [size |-> mem[p].size, to_next |-> x - p] \in Header
  <2>1. p # NULL => x - p \in 0 .. U16 - 1 /\ mem[p].size \in 0 .. U16 - 1 BY <1>2, <1>3
  <2> QED BY <2>1 DEF Header
<1>7. touching =>
        /\ (mem[p].size + X.size) % U16 = mem[p].size + X.size
        /\ (X.to_next + mem[p].size) % U16 = X.to_next + mem[p].size
        /\ [size |-> mem[p].size + X.size, to_next |-> X.to_next + mem[p].size] \in Header
  <2>1. SUFFICES ASSUME touching
                 PROVE /\ (mem[p].size + X.size) % U16 = mem[p].size + X.size
                       /\ (X.to_next + mem[p].size) % U16 = X.to_next + mem[p].size
                       /\ [size |-> mem[p].size + X.size,
                           to_next |-> X.to_next + mem[p].size] \in Header
    OBVIOUS
  <2> DEFINE s == mem[p].size + X.size
             t == X.to_next + mem[p].size
  <2>2. s \in Int /\ 0 <= s /\ s < U16 /\ t \in Int /\ 0 <= t /\ t < U16
    <3> HIDE DEF X, NX
    <3>1. p + mem[p].size = x /\ p \in Int /\ 0 <= p /\ mem[p].size \in Int /\ mem[p].size > 0
      BY <1>3, <2>1
    <3> QED BY <1>2, <3>1
  <2> HIDE DEF s, t
  <2>3. s % U16 = s /\ t % U16 = t BY <2>2, U16Fits
  <2>4. [size |-> s, to_next |-> t] \in Header BY <2>2 DEF Header
  <2> QED BY <2>3, <2>4 DEF s, t
<1>8. /\ free' = ((free \ MergedNext) \cup {x}) \ MergedIntoPrev
      /\ MergedIntoPrev = IF touching THEN {x} ELSE {}
      /\ pc' = "idle" /\ live' = live /\ old' = old /\ new_ptr' = new_ptr
      /\ first_free' = IF p = NULL THEN x ELSE first_free
      /\ mem' = IF p = NULL THEN ChainedNext ELSE chain_free_blocs(ChainedNext, p, x)
  BY DEF FreeLink, MergedIntoPrev
<1>9. mem' = IF p = NULL THEN ChainedNext
             ELSE IF touching
             THEN [ChainedNext EXCEPT ![p] = [size |-> mem[p].size + X.size,
                                              to_next |-> X.to_next + mem[p].size]]
             ELSE [ChainedNext EXCEPT ![p] = [size |-> mem[p].size, to_next |-> x - p]]
  BY <1>5, <1>7, <1>8 DEF chain_free_blocs
<1> HIDE DEF X, NX
<1>10. /\ mem' \in [0 .. N -> Header]
       /\ \A w \in 0 .. N : w # x /\ w # p => mem'[w] = mem[w]
       /\ touching => /\ mem'[p].size = mem[p].size + X.size
                      /\ mem'[p].to_next = X.to_next + mem[p].size
       /\ ~ touching => mem'[x] = X
       /\ p # NULL /\ ~ touching => mem'[p].size = mem[p].size /\ mem'[p].to_next = x - p
  <2>1. CASE p = NULL BY <1>1, <1>8, <1>9, <2>1 DEF X
  <2>2. CASE touching BY <1>1, <1>3, <1>4, <1>7, <1>9, <2>2
  <2>3. CASE p # NULL /\ ~ touching
    <3>1. mem' = [ChainedNext EXCEPT ![p] = [size |-> mem[p].size, to_next |-> x - p]]
      BY <1>9, <2>3
    <3>2. p \in 0 .. N /\ p # x BY <1>2, <1>3, <1>4, <2>3
    <3> QED BY <1>1, <1>6, <2>3, <3>1, <3>2 DEF X
  <2> QED BY <2>1, <2>2, <2>3
<1>11. /\ H \in Int /\ 0 <= H /\ H <= x
       /\ H + mem'[H].size = x + X.size /\ H + mem'[H].to_next = NX
       /\ mem'[H].size \in Int /\ mem'[H].size > 0
       /\ (H = x \/ (H = p /\ touching))
       /\ (touching => H = p)
  <2>1. CASE touching
    <3>1. H = p /\ p + mem[p].size = x /\ p # NULL BY <2>1
    <3>2. p \in Int /\ 0 <= p /\ mem[p].size \in Int /\ mem[p].size > 0 BY <1>3, <3>1
    <3>3. mem'[p].size = mem[p].size + X.size /\ mem'[p].to_next = X.to_next + mem[p].size
      BY <1>10, <2>1
    <3> HIDE DEF H, touching
    <3> QED BY <1>2, <2>1, <3>1, <3>2, <3>3
  <2>2. CASE ~ touching BY <1>1, <1>2, <1>10, <2>2
  <2> QED BY <2>1, <2>2
<1>12. free' = (free \ MergedNext) \cup {H}
  <2>1. CASE touching
    <3>1. p \notin MergedNext BY <1>1, <1>2, <1>3, <2>1
    <3> QED BY <1>1, <1>3, <1>8, <2>1, <3>1
  <2>2. CASE ~ touching BY <1>8, <2>2
  <2> QED BY <2>1, <2>2
<1>13. touching => x \notin free' BY <1>8
<1>14. \A f \in free : f # p => f + mem[f].to_next \notin MergedNext
  <2> SUFFICES ASSUME NEW f \in free, f # p, f + mem[f].to_next \in MergedNext
               PROVE FALSE
    OBVIOUS
  <2>1. f + mem[f].to_next = curr_free /\ curr_free \in free
    BY <1>0, PositionFacts DEF MergedNext
  <2> QED BY <1>0, <2>1, OnlyPrev
<1> HIDE DEF H, touching
<1>15. TypeOK'
  <2>1. first_free' \in 0 .. N BY <1>0, <1>1, <1>8 DEF TypeOK
  <2>2. free' \subseteq 0 .. N - 1 BY <1>0, <1>1, <1>8 DEF TypeOK
  <2> QED BY <1>0, <1>8, <1>10, <2>1, <2>2 DEF TypeOK, FreeLink, ClearLocals
<1>16. FreeListOK'
  <2>1. mem'[N] = [size |-> 0, to_next |-> 0]
    <3>1. p # N BY <1>0 DEF TypeOK, NULL
    <3> QED BY <1>0, <1>1, <1>10, <3>1 DEF FreeListOK
  <2>2. first_free' \in free' \cup {N} /\ \A f \in free' : first_free' <= f
    <3>1. CASE p = NULL
      <4>1. H = x BY <1>11, <3>1 DEF touching
      <4>2. \A f \in free : f > x BY <1>1, <1>2, <1>4, <3>1
      <4> QED BY <1>2, <1>4, <1>8, <1>12, <3>1, <4>1, <4>2
    <3>2. CASE p # NULL
      <4>1. first_free \in free /\ first_free <= p /\ first_free \in Int
        BY <1>0, <1>3, <3>2 DEF FreeListOK, TypeOK
      <4>2. first_free \notin MergedNext BY <1>1, <1>2, <1>3, <3>2, <4>1
      <4>3. first_free <= H BY <1>2, <1>3, <1>11, <3>2, <4>1
      <4> QED BY <1>0, <1>8, <1>12, <3>2, <4>1, <4>2, <4>3 DEF FreeListOK
    <3> QED BY <3>1, <3>2
  <2>3. ASSUME NEW f \in free'
        PROVE  /\ mem'[f].size > 0
               /\ f + mem'[f].to_next \in free' \cup {N}
               /\ f + mem'[f].size <= f + mem'[f].to_next
               /\ f + mem'[f].size = f + mem'[f].to_next => f + mem'[f].to_next = N
               /\ \A g \in free' : g > f => g >= f + mem'[f].to_next
    <3>1. CASE f = H
      <4>1. NX \in free' \cup {N} BY <1>1, <1>12
      <4>2. ASSUME NEW g \in free', g > H PROVE g >= NX
        <5>1. g \in free /\ g \notin MergedNext /\ g # x
          BY <1>1, <1>2, <1>11, <1>12, <4>2
        <5>2. CASE g > x BY <1>1, <5>1, <5>2
        <5>3. CASE g < x
          <6>1. p # NULL /\ g <= p BY <1>4, <5>1, <5>3
          <6>2. H = p BY <1>2, <1>4, <1>11, <4>2, <5>1, <5>3
          <6> QED BY <1>3, <1>4, <4>2, <5>1, <6>1, <6>2
        <5> QED BY <1>2, <1>4, <5>1, <5>2, <5>3
      <4> QED BY <1>1, <1>11, <3>1, <4>1, <4>2
    <3>2. CASE f # H /\ f = p
      <4>1. f \in free /\ p # NULL BY <1>4, <1>12, <3>2 DEF NULL
      <4>2. ~ touching /\ H = x BY <1>11, <3>2
      <4>3. mem'[f].size = mem[f].size /\ f + mem'[f].to_next = x
        BY <1>2, <1>3, <1>10, <3>2, <4>1, <4>2
      <4>4. f + mem[f].size # x BY <3>2, <4>1, <4>2 DEF touching
      <4>5. \A g \in free' : g > f => g >= x
        <5>1. \A g \in free : g > p => ~ (g < x) BY <1>3, <1>4, <4>1
        <5> QED BY <1>2, <1>4, <1>12, <3>2, <4>2, <5>1
      <4>6. x \in free' BY <1>12, <4>2
      <4> QED BY <1>2, <1>3, <3>2, <4>1, <4>3, <4>4, <4>5, <4>6
    <3>3. CASE f # H /\ f # p
      <4>1. f \in free /\ f # x /\ mem'[f] = mem[f] BY <1>1, <1>4, <1>10, <1>12, <3>3
      <4>2. /\ mem[f].size > 0 /\ f + mem[f].to_next \in free \cup {N}
            /\ f + mem[f].size <= f + mem[f].to_next
            /\ f + mem[f].size = f + mem[f].to_next => f + mem[f].to_next = N
            /\ \A g \in free : g > f => g >= f + mem[f].to_next
            /\ f \in Int /\ mem[f].to_next \in Int
        BY <1>0, <4>1, FreeBlock
      <4>3. f + mem[f].to_next \in free' \cup {N} BY <1>12, <1>14, <3>3, <4>1, <4>2
      <4>4. H > f => H >= f + mem[f].to_next
        <5>1. CASE H = p /\ p # NULL BY <1>3, <4>2, <5>1
        <5>2. CASE H = x /\ x > f
          <6>1. p # NULL /\ f <= p BY <1>4, <4>1, <5>2
          <6>2. p > f /\ p \in free BY <1>3, <3>3, <4>2, <6>1
          <6>3. p >= f + mem[f].to_next BY <4>2, <6>2
          <6> QED BY <1>2, <1>3, <4>2, <5>2, <6>1, <6>3
        <5> QED BY <1>11, <5>1, <5>2 DEF touching
      <4>5. \A g \in free' : g > f => g >= f + mem[f].to_next BY <1>12, <4>2, <4>4
      <4> QED BY <4>1, <4>2, <4>3, <4>5
    <3> QED BY <3>1, <3>2, <3>3
  <2> QED BY <2>1, <2>2, <2>3 DEF FreeListOK
<1>17. NoOverlap'
  <2>1. ASSUME NEW b \in live
        PROVE  Apart(b.ptr, Words(b.bytes), H, mem'[H].size)
    <3>1. b.ptr \in Int /\ Words(b.bytes) \in Int /\ Words(b.bytes) > 0 BY LiveBlock
    <3>2. b.ptr + Words(b.bytes) <= x \/ x + X.size <= b.ptr
      <4>1. b.ptr + Words(b.bytes) <= x \/ x + size <= b.ptr
        BY <1>0 DEF NoOverlap, Apart
      <4>2. CASE MergedNext = {} BY <1>1, <4>1, <4>2
      <4>3. CASE MergedNext # {}
        <5>1. PICK g \in MergedNext : TRUE BY <4>3
        <5>2. g \in free /\ x + size = g /\ X.size = size + mem[g].size BY <1>1, <5>1
        <5>3. b.ptr + Words(b.bytes) <= g \/ g + mem[g].size <= b.ptr
          BY <1>0, <5>2 DEF NoOverlap, Apart
        <5>4. mem[g].size \in Int BY <1>0, <5>2, FreeBlock
        <5> QED BY <1>2, <3>1, <4>1, <5>2, <5>3, <5>4
      <4> QED BY <4>2, <4>3
    <3>3. CASE H = x BY <1>11, <3>2, <3>3 DEF Apart
    <3>4. CASE H = p /\ touching
      <4>1. b.ptr + Words(b.bytes) <= p \/ p + mem[p].size <= b.ptr
        BY <1>0, <1>3, <3>4 DEF NoOverlap, Apart, touching
      <4>2. p + mem[p].size = x /\ p \in Int /\ mem[p].size \in Int BY <1>3, <3>4 DEF touching
      <4>3. b.ptr + Words(b.bytes) <= p \/ x + X.size <= b.ptr
        BY <1>2, <3>1, <3>2, <4>1, <4>2
      <4>4. H + mem'[H].size = x + X.size /\ H = p BY <1>11, <3>4
      <4> QED BY <4>3, <4>4 DEF Apart
    <3> QED BY <1>11, <3>3, <3>4
  <2>2. \A f \in free' : f # H => f \in free /\ mem'[f].size = mem[f].size
    <3> SUFFICES ASSUME NEW f \in free', f # H
                 PROVE  f \in free /\ mem'[f].size = mem[f].size
      OBVIOUS
    <3>1. f \in free /\ f # x /\ f # NULL /\ f \in 0 .. N BY <1>1, <1>4, <1>12 DEF NULL
    <3>2. CASE f = p BY <1>10, <1>11, <3>1, <3>2
    <3>3. CASE f # p BY <1>10, <3>1, <3>3
    <3> QED BY <3>1, <3>2, <3>3
  <2>3. \A b \in live, f \in free' : Apart(b.ptr, Words(b.bytes), f, mem'[f].size)
    BY <1>0, <2>1, <2>2 DEF NoOverlap
  <2> QED BY <1>0, <1>8, <2>3 DEF NoOverlap
<1>18. NoWordLost'
  <2> SUFFICES ASSUME NEW w \in 0 .. N - 1
               PROVE  \/ \E b \in live : b.ptr <= w /\ w < b.ptr + Words(b.bytes)
                      \/ \E f \in free' : f <= w /\ w < f + mem'[f].size
    BY <1>8 DEF NoWordLost
  <2>1. H \in free' BY <1>12
  <2>2. CASE x <= w /\ w < x + size BY <1>1, <1>2, <1>11, <2>1, <2>2
  <2>3. ASSUME NEW f \in free, f <= w, w < f + mem[f].size
        PROVE  \E g \in free' : g <= w /\ w < g + mem'[g].size
    <3>0. f \in Int /\ mem[f].size \in Int BY <1>0, FreeBlock
    <3>1. CASE f \in MergedNext
      <4>1. x + size = f /\ X.size = size + mem[f].size BY <1>1, <3>1
      <4>2. x <= w /\ w < x + X.size BY <1>2, <2>3, <3>0, <4>1
      <4> QED BY <1>2, <1>11, <2>1, <4>2
    <3>2. CASE f \notin MergedNext /\ f = p /\ touching
      <4>1. H = p /\ p + mem[p].size = x /\ p \in Int BY <1>3, <1>11, <3>2 DEF touching
      <4>2. H <= w /\ w < x + X.size BY <1>2, <2>3, <3>0, <3>2, <4>1
      <4> QED BY <1>2, <1>11, <2>1, <4>2
    <3>3. CASE f \notin MergedNext /\ ~ (f = p /\ touching)
      <4>1. f \in free' /\ mem'[f].size = mem[f].size
        <5>1. f \in free' /\ f # x /\ f # NULL /\ f \in 0 .. N BY <1>1, <1>4, <1>12, <3>3 DEF NULL
        <5>2. CASE f = p BY <1>10, <3>3, <5>1, <5>2
        <5>3. CASE f # p BY <1>10, <5>1, <5>3
        <5> QED BY <5>1, <5>2, <5>3
      <4> QED BY <2>3, <4>1
    <3> QED BY <3>1, <3>2, <3>3
  <2> QED BY <1>0, <2>2, <2>3 DEF NoWordLost
<1>19. LoopsOK' BY <1>0, <1>8 DEF LoopsOK
<1> QED BY <1>15, <1>16, <1>17, <1>18, <1>19 DEF IInv

----------------------------------------------------------------------------
LEMMA NextInv == IInv /\ [Next]_vars => IInv'
<1> SUFFICES ASSUME IInv, [Next]_vars PROVE IInv' OBVIOUS
<1>1. CASE AllocScan \/ FreeScan \/ Monitor \/ MonitorScan \/ MonitorReturn BY <1>1, WalkInv
<1>2. CASE mem_alloc \/ mem_realloc BY <1>2, AllocCallInv
<1>3. CASE AllocWhole BY <1>3, AllocWholeInv
<1>4. CASE AllocSplit BY <1>4, AllocSplitInv
<1>5. CASE AllocFail BY <1>5, AllocFailInv
<1>6. CASE mem_free \/ ReallocFree BY <1>6, FreeCallInv
<1>7. CASE FreeLink BY <1>7, FreeLinkInv
<1>8. CASE ReallocCopy BY <1>8, ReallocCopyInv
<1>9. CASE UserWrite BY <1>9, UserWriteInv
<1>10. CASE UNCHANGED vars
  BY <1>10 DEF vars, locals, IInv, TypeOK, FreeListOK, NoOverlap, NoWordLost, LoopsOK, Position
<1> QED BY <1>1, <1>2, <1>3, <1>4, <1>5, <1>6, <1>7, <1>8, <1>9, <1>10 DEF Next, Calls, Steps

\* The allocator keeps its invariant: the free list is sound, blocks never
\* overlap and no word is lost, whatever sequence of mem_alloc, mem_free and
\* mem_realloc the core issues and whatever owners write into their blocks.
THEOREM AllocatorInvariant == Spec => []IInv
<1>1. Init => IInv BY InitInv
<1>2. IInv /\ [Next]_vars => IInv' BY NextInv
<1> QED BY <1>1, <1>2, PTL DEF Spec

\* Every variable of the allocator keeps its type, the 16-bit header fields
\* included: no sum of sizes or distances wraps.
THEOREM AllocatorTypes == Spec => []TypeOK
BY AllocatorInvariant, PTL DEF IInv

\* The free list stays sorted, well linked and merged.
THEOREM AllocatorListSound == Spec => []FreeListOK
BY AllocatorInvariant, PTL DEF IInv

\* No block overlaps another, nor the free list.
THEOREM AllocatorNoOverlap == Spec => []NoOverlap
BY AllocatorInvariant, PTL DEF IInv

\* No word of the heap is lost.
THEOREM AllocatorNoWordLost == Spec => []NoWordLost
BY AllocatorInvariant, PTL DEF IInv

\* Freeing merges: when nothing is live the heap is one free block again.
THEOREM AllocatorDefragments == Spec => []Defragmented
<1>1. IInv => Defragmented
  <2> SUFFICES ASSUME IInv, pc = "idle", live = {}
               PROVE  first_free = 0 /\ mem[0] = [size |-> N, to_next |-> N]
    BY DEF Defragmented
  <2> USE NType, U16Type
  <2>1. TypeOK /\ FreeListOK /\ NoWordLost BY DEF IInv
  <2>2. \A w \in 0 .. N - 1 : \E f \in free : f <= w /\ w < f + mem[f].size
    BY <2>1 DEF NoWordLost
  <2>3. 0 \in free
    <3>1. PICK f \in free : f <= 0 BY <2>2
    <3> QED BY <2>1, <3>1, FreeBlock
  <2>4. first_free = 0 BY <2>1, <2>3 DEF TypeOK, FreeListOK
  <2>5. /\ mem[0].size \in Int /\ mem[0].size > 0 /\ mem[0].to_next \in Int
        /\ mem[0].size <= mem[0].to_next /\ mem[0].to_next <= N
        /\ mem[0].size = mem[0].to_next => mem[0].to_next = N
        /\ \A g \in free : g > 0 => g >= mem[0].to_next
    BY <2>1, <2>3, FreeBlock
  <2>6. ~ (mem[0].size < N)
    <3>1. ASSUME mem[0].size < N PROVE FALSE
      <4>1. PICK g \in free : g <= mem[0].size /\ mem[0].size < g + mem[g].size
        BY <2>2, <2>5, <3>1
      <4>2. g \in Int /\ g >= 0 /\ (g = 0 => mem[g].size = mem[0].size) BY <2>1, FreeBlock
      <4>3. g > 0 BY <2>5, <4>1, <4>2
      <4>4. g >= mem[0].to_next BY <2>5, <4>3
      <4> QED BY <2>5, <3>1, <4>1, <4>2, <4>4
    <3> QED BY <3>1
  <2>7. mem[0] \in Header BY <2>1 DEF TypeOK
  <2>8. mem[0].size = N /\ mem[0].to_next = N BY <2>5, <2>6
  <2> QED BY <2>4, <2>7, <2>8 DEF Header
<1> QED BY <1>1, AllocatorInvariant, PTL

----------------------------------------------------------------------------
\* get_free_mem and get_max_free_mem.

\* The words of the free blocks that start below n.
FreeWordsBelow(n) == {w \in 0 .. N - 1 : \E f \in free : f < n /\ f <= w /\ w < f + mem[f].size}

\* What the walk of the list has counted: the words of the blocks it has
\* passed, and the size of the largest of them.
MonitorInv ==
  /\ pc # "sum" => sum = 0 /\ max = 0
  /\ pc = "sum" =>
       /\ sum = Cardinality(FreeWordsBelow(curr_free))
       /\ \A f \in free : f < curr_free => mem[f].size <= max
       /\ max = 0 \/ \E f \in free : f < curr_free /\ mem[f].size = max

\* The words of the blocks up to the next one are those of the blocks below
\* and those of the block itself.
LEMMA WordsOfNext ==
  ASSUME TypeOK, FreeListOK, NEW c \in free
  PROVE  /\ IsFiniteSet(FreeWordsBelow(c))
         /\ Cardinality(FreeWordsBelow(c + mem[c].to_next))
              = Cardinality(FreeWordsBelow(c)) + mem[c].size
<1> DEFINE A == FreeWordsBelow(c)
           B == c .. c + mem[c].size - 1
<1> USE NType
<1>1. /\ c \in Int /\ 0 <= c /\ c < N
      /\ mem[c].size \in Int /\ mem[c].size > 0
      /\ mem[c].to_next \in Int /\ mem[c].to_next > 0
      /\ mem[c].size <= mem[c].to_next /\ c + mem[c].to_next <= N
      /\ \A g \in free : g > c => g >= c + mem[c].to_next
  BY FreeBlock
<1>2. \A f \in free : /\ f \in Int /\ mem[f].size \in Int
                      /\ f < c => f + mem[f].size <= c
  BY <1>1, FreeBlock
<1>3. A \cap B = {}
  BY <1>1, <1>2 DEF FreeWordsBelow
<1>4. FreeWordsBelow(c + mem[c].to_next) = A \cup B
  <2>1. ASSUME NEW f \in free PROVE f < c + mem[c].to_next <=> (f < c \/ f = c)
    <3>1. f \in Int /\ (f > c => f >= c + mem[c].to_next)
      BY <1>1, <1>2
    <3> QED
      BY <1>1, <3>1
  <2>2. B \subseteq 0 .. N - 1
    BY <1>1
  <2> QED
    BY <1>1, <1>2, <2>1, <2>2 DEF FreeWordsBelow
<1>5. IsFiniteSet(A)
  <2>1. IsFiniteSet(0 .. N - 1)
    BY FS_Interval
  <2> QED
    BY <2>1, FS_Subset DEF FreeWordsBelow
<1>6. IsFiniteSet(B) /\ Cardinality(B) = mem[c].size
  <2> DEFINE last == c + mem[c].size - 1
  <2>1. last \in Int /\ ~ (c > last) /\ last - c + 1 = mem[c].size
    BY <1>1
  <2> HIDE DEF last
  <2>2. IsFiniteSet(c .. last) /\ Cardinality(c .. last) = last - c + 1
    BY <1>1, <2>1, FS_Interval
  <2> QED
    BY <2>1, <2>2 DEF last
<1>7. IsFiniteSet(A \cap B) /\ Cardinality(A \cap B) = 0
  BY <1>3, FS_EmptySet
<1>8. Cardinality(A) \in Nat
  BY <1>5, FS_CardinalityType
<1> HIDE DEF A, B
<1>9. Cardinality(A \cup B) = Cardinality(A) + mem[c].size
  <2>1. Cardinality(A \cup B) = Cardinality(A) + Cardinality(B) - Cardinality(A \cap B)
    BY <1>5, <1>6, FS_Union
  <2> QED
    BY <1>1, <1>6, <1>7, <1>8, <2>1
<1> QED
  BY <1>4, <1>5, <1>9 DEF A

\* The walk keeps what it has counted.
LEMMA MonitorStep == IInv /\ MonitorInv /\ [Next]_vars => MonitorInv'
<1> SUFFICES ASSUME IInv, MonitorInv, [Next]_vars PROVE MonitorInv'
  OBVIOUS
<1> USE NType
<1>0. TypeOK /\ FreeListOK /\ (pc = "sum" => curr_free \in free \cup {N})
  BY DEF IInv, LoopsOK
<1>1. CASE Monitor
  <2>1. \A f \in free : f \in Int /\ ~ (f < first_free)
    BY <1>0, FreeBlock DEF FreeListOK, TypeOK
  <2>2. pc' = "sum" /\ sum' = 0 /\ max' = 0 /\ curr_free' = first_free /\ mem' = mem /\ free' = free
    BY <1>1 DEF Monitor, MonitorInv
  <2>3. FreeWordsBelow(first_free) = {}
    BY <2>1 DEF FreeWordsBelow
  <2>4. FreeWordsBelow(curr_free)' = FreeWordsBelow(first_free)
    BY <2>2 DEF FreeWordsBelow
  <2> QED
    BY <2>1, <2>2, <2>3, <2>4, FS_EmptySet DEF MonitorInv
<1>2. CASE MonitorScan
  <2>1. /\ pc = "sum" /\ pc' = "sum" /\ mem' = mem /\ free' = free
        /\ sum' = sum + mem[curr_free].size
        /\ max' = IF mem[curr_free].size > max THEN mem[curr_free].size ELSE max
        /\ curr_free' = curr_free + mem[curr_free].to_next
        /\ mem[curr_free].to_next # 0
    BY <1>2 DEF MonitorScan
  <2>2. curr_free \in free
    BY <1>0, <2>1, Sentinel
  <2>3. sum' = Cardinality(FreeWordsBelow(curr_free'))
    BY <1>0, <2>1, <2>2, WordsOfNext DEF MonitorInv
  <2>4. FreeWordsBelow(curr_free)' = FreeWordsBelow(curr_free')
    BY <2>1 DEF FreeWordsBelow
  <2>5. \A f \in free : f \in Int /\ mem[f].size \in Int /\ mem[f].size > 0
    BY <1>0, FreeBlock
  <2>6. /\ mem[curr_free].to_next \in Int /\ mem[curr_free].to_next > 0
        /\ \A g \in free : g > curr_free => g >= curr_free + mem[curr_free].to_next
    BY <1>0, <2>2, FreeBlock
  <2>7. \A f \in free : f < curr_free' <=> f < curr_free \/ f = curr_free
    BY <2>1, <2>2, <2>5, <2>6
  <2>8. max \in Int
    BY <1>0 DEF TypeOK
  <2>9. /\ \A f \in free : f < curr_free => mem[f].size <= max
        /\ max = 0 \/ \E f \in free : f < curr_free /\ mem[f].size = max
    BY <2>1 DEF MonitorInv
  <2>10. \A f \in free : f < curr_free' => mem[f].size <= max'
    BY <2>1, <2>2, <2>5, <2>7, <2>8, <2>9
  <2>11. max' = 0 \/ \E f \in free : f < curr_free' /\ mem[f].size = max'
    BY <2>1, <2>2, <2>7, <2>9
  <2> QED
    BY <2>1, <2>3, <2>4, <2>10, <2>11 DEF MonitorInv
<1>3. CASE MonitorReturn
  BY <1>3 DEF MonitorReturn, ClearLocals, MonitorInv
<1>4. CASE mem_alloc \/ mem_realloc \/ mem_free \/ ReallocFree
  BY <1>4 DEF mem_alloc, mem_realloc, mem_free, ReallocFree, StartAlloc, StartFree, MonitorInv
<1>5. CASE AllocScan \/ AllocWhole \/ AllocSplit \/ AllocFail
  <2>1. pc = "alloc" /\ pc' # "sum" /\ (UNCHANGED <<sum, max>> \/ (sum' = 0 /\ max' = 0))
    BY <1>5 DEF AllocScan, AllocWhole, AllocSplit, AllocFail, ReturnAlloc, ClearLocals
  <2> QED
    BY <2>1 DEF MonitorInv
<1>6. CASE FreeScan \/ FreeLink \/ ReallocCopy \/ UserWrite
  <2>1. pc # "sum" /\ pc' # "sum" /\ (UNCHANGED <<sum, max>> \/ (sum' = 0 /\ max' = 0))
    BY <1>6 DEF FreeScan, FreeLink, ReallocCopy, UserWrite, ClearLocals, locals
  <2> QED
    BY <2>1 DEF MonitorInv
<1>7. CASE UNCHANGED vars
  BY <1>7 DEF vars, locals, MonitorInv, FreeWordsBelow
<1> QED
  BY <1>1, <1>2, <1>3, <1>4, <1>5, <1>6, <1>7 DEF Next, Calls, Steps

\* A run of free words lies in one free block, because neighbours are merged.
LEMMA RunInOneBlock ==
  ASSUME TypeOK, FreeListOK, NEW p \in Int, NEW q \in Int, p <= q, p .. q \subseteq FreeWords
  PROVE  \E f \in free : f <= p /\ q < f + mem[f].size
<1> USE NType
<1>1. \A w \in p .. q : \E f \in free : f <= w /\ w < f + mem[f].size
  <2>1. SUFFICES ASSUME NEW w \in p .. q PROVE \E f \in free : f <= w /\ w < f + mem[f].size
    OBVIOUS
  <2>2. PICK f \in free : w \in f .. f + mem[f].size - 1
    BY DEF FreeWords
  <2> QED
    BY <2>2, FreeBlock
<1>2. PICK f \in free : f <= p /\ p < f + mem[f].size
  BY <1>1
<1>3. f \in Int /\ mem[f].size \in Int
  BY FreeBlock
<1>4. ASSUME f + mem[f].size <= q PROVE FALSE
  <2>1. f + mem[f].size \in p .. q
    BY <1>2, <1>3, <1>4
  <2>2. PICK g \in free : g <= f + mem[f].size /\ f + mem[f].size < g + mem[g].size
    BY <1>1, <2>1
  <2>3. g \in Int /\ mem[g].size \in Int /\ mem[g].size <= mem[g].to_next /\ mem[g].to_next \in Int
        /\ g < N
    BY FreeBlock
  <2>4. ~ (g < f)
    BY <1>2, <1>3, <2>2, <2>3, FreeBlock
  <2>5. g > f
    BY <1>3, <2>2, <2>3, <2>4
  <2>6. g >= f + mem[f].to_next /\ mem[f].to_next \in Int /\ mem[f].size <= mem[f].to_next
        /\ (mem[f].size = mem[f].to_next => f + mem[f].to_next = N)
    BY <1>3, <2>5, FreeBlock
  <2> QED
    BY <1>3, <2>2, <2>3, <2>6
<1> QED
  BY <1>2, <1>3, <1>4

\* get_free_mem and get_max_free_mem report what is free, for every heap and
\* every list: the number of free words and the longest run of them.
THEOREM AllocatorMonitorExact == Spec => []MonitorExact
<1>1. Init => MonitorInv
  BY DEF Init, MonitorInv
<1>2. IInv /\ MonitorInv => MonitorExact
  <2> SUFFICES ASSUME IInv, MonitorInv, pc = "sum", mem[curr_free].to_next = 0
               PROVE  /\ sum = Cardinality(FreeWords)
                      /\ \A p \in 0 .. N : p + max > N \/ ~ (p .. p + max \subseteq FreeWords)
                      /\ max = 0 \/ \E p \in 0 .. N : p .. p + max - 1 \subseteq FreeWords
    BY DEF MonitorExact
  <2> USE NType
  <2>0. TypeOK /\ FreeListOK /\ curr_free \in free \cup {N} /\ max \in Int /\ max >= 0
    BY DEF IInv, LoopsOK, TypeOK
  <2>1. curr_free = N
    BY <2>0, FreeBlock
  <2>2. \A f \in free : /\ f \in Int /\ 0 <= f /\ f < N /\ mem[f].size \in Int /\ mem[f].size > 0
                        /\ f + mem[f].size <= N
    BY <2>0, FreeBlock
  <2>3. FreeWords = FreeWordsBelow(N)
    <3>1. ASSUME NEW w \in FreeWords PROVE w \in FreeWordsBelow(N)
      <4>1. PICK f \in free : w \in f .. f + mem[f].size - 1
        BY DEF FreeWords
      <4> QED
        BY <2>2, <4>1 DEF FreeWordsBelow
    <3>2. ASSUME NEW w \in FreeWordsBelow(N) PROVE w \in FreeWords
      <4>1. w \in Int /\ \E f \in free : f <= w /\ w < f + mem[f].size
        BY DEF FreeWordsBelow
      <4>2. PICK f \in free : f <= w /\ w < f + mem[f].size
        BY <4>1
      <4>3. w \in f .. f + mem[f].size - 1
        BY <2>2, <4>1, <4>2
      <4> QED
        BY <4>3 DEF FreeWords
    <3> QED
      BY <3>1, <3>2
  <2>4. /\ sum = Cardinality(FreeWordsBelow(N))
        /\ \A f \in free : mem[f].size <= max
        /\ max = 0 \/ \E f \in free : mem[f].size = max
    BY <2>1, <2>2 DEF MonitorInv
  <2>5. ASSUME NEW p \in 0 .. N, p .. p + max \subseteq FreeWords PROVE FALSE
    <3>1. p \in Int /\ p + max \in Int /\ p <= p + max
      BY <2>0
    <3>2. PICK f \in free : f <= p /\ p + max < f + mem[f].size
      BY <2>0, <2>5, <3>1, RunInOneBlock
    <3> QED
      BY <2>0, <2>2, <2>4, <3>1, <3>2
  <2>6. ASSUME max # 0 PROVE \E p \in 0 .. N : p .. p + max - 1 \subseteq FreeWords
    <3>1. PICK f \in free : mem[f].size = max
      BY <2>4, <2>6
    <3>2. f .. f + max - 1 \subseteq FreeWords
      BY <3>1 DEF FreeWords
    <3> QED
      BY <2>2, <3>1, <3>2
  <2> QED
    BY <2>3, <2>4, <2>5, <2>6
<1>3. IInv /\ MonitorInv /\ [Next]_vars => MonitorInv'
  BY MonitorStep
<1> QED
  BY AllocatorInvariant, <1>1, <1>2, <1>3, PTL DEF Spec

----------------------------------------------------------------------------
\* The refinement.  The words a live block covers are the same in both
\* specifications.
LEMMA CoverIsWordsOf ==
  ASSUME NEW b, b.bytes \in Sizes
  PROVE  Abs!Cover(b) = WordsOf(b)
BY WordsRounds DEF Abs!Cover, Abs!WordsFor, WordsOf

LEMMA UsedIsLiveWords == IInv => Abs!Used(live) = LiveWords
<1> SUFFICES ASSUME IInv PROVE Abs!Used(live) = LiveWords OBVIOUS
<1>1. \A b \in live : Abs!Cover(b) = WordsOf(b) BY LiveBlock, CoverIsWordsOf
<1> QED BY <1>1 DEF Abs!Used, LiveWords

\* No header of the free list is a word of a live block.
LEMMA HeadersAreFree ==
  ASSUME IInv, NEW f \in free
  PROVE  f \notin LiveWords
<1> SUFFICES ASSUME f \in LiveWords PROVE FALSE OBVIOUS
<1>1. PICK b \in live : f \in WordsOf(b) BY DEF LiveWords
<1>2. b.ptr \in Int /\ Words(b.bytes) \in Int BY LiveBlock
<1>3. f \in Int /\ mem[f].size \in Int /\ mem[f].size > 0 BY FreeBlock DEF IInv
<1>4. Apart(b.ptr, Words(b.bytes), f, mem[f].size) BY DEF IInv, NoOverlap
<1> QED BY <1>1, <1>2, <1>3, <1>4 DEF Apart, WordsOf

\* The allocator writes headers only into words nobody owns.
LEMMA LiveWordsKept ==
  ASSUME IInv, AllocWhole \/ AllocSplit \/ FreeLink
  PROVE  \A w \in LiveWords : w \in 0 .. N /\ mem'[w] = mem[w]
<1> USE NType, U16Type
<1>0. TypeOK /\ FreeListOK /\ NoOverlap /\ LoopsOK BY DEF IInv
<1>1. mem \in [0 .. N -> Header] BY <1>0 DEF TypeOK
<1>2. \A w \in LiveWords : w \in 0 .. N - 1
  <2>1. ASSUME NEW b \in live, NEW w \in WordsOf(b) PROVE w \in 0 .. N - 1
    BY LiveBlock DEF WordsOf
  <2> QED BY <2>1 DEF LiveWords
<1>3. Position BY <1>0 DEF LoopsOK, AllocWhole, AllocSplit, FreeLink
<1>4. \A w \in LiveWords : w # prev_free
  <2>1. prev_free # NULL => prev_free \notin LiveWords BY <1>3, HeadersAreFree DEF Position
  <2> QED BY <1>2, <2>1 DEF NULL
<1>5. \A d : \A w \in LiveWords : Stretch(mem, d)[w] = mem[w] BY <1>1, <1>2, <1>4 DEF Stretch
<1>6. CASE AllocWhole BY <1>2, <1>5, <1>6 DEF AllocWhole
<1>7. CASE AllocSplit
  <2>1. CASE size = 0
    <3>1. pc = "alloc" BY <1>7 DEF AllocSplit
    <3>2. mem' = mem BY <1>7, <2>1, <3>1, ZeroAlloc
    <3> QED BY <1>2, <3>2
  <2>2. CASE size # 0
    <3>1. mem[curr_free].size > size /\ size \in Int /\ size > 0
      BY <1>0, <1>7, <2>2 DEF AllocSplit, TypeOK
    <3>2. curr_free \in free /\ curr_free \in Int /\ mem[curr_free].size \in Int
      BY <1>0, <1>3, <3>1, PositionFacts, FreeBlock
    <3>3. curr_free + size \notin LiveWords
      <4> SUFFICES ASSUME curr_free + size \in LiveWords PROVE FALSE OBVIOUS
      <4>1. PICK b \in live : curr_free + size \in WordsOf(b) BY DEF LiveWords
      <4>2. Apart(b.ptr, Words(b.bytes), curr_free, mem[curr_free].size)
        BY <1>0, <3>2 DEF NoOverlap
      <4>3. b.ptr \in Int /\ Words(b.bytes) \in Int BY LiveBlock
      <4> QED BY <3>1, <3>2, <4>1, <4>2, <4>3 DEF Apart, WordsOf
    <3>4. mem' = [Stretch(mem, size) EXCEPT ![curr_free + size] = Remainder]
      BY <1>7 DEF AllocSplit
    <3>5. \A w \in LiveWords : w # curr_free + size BY <3>3
    <3>6. DOMAIN Stretch(mem, size) = 0 .. N BY <1>1 DEF Stretch
    <3> QED BY <1>2, <1>5, <3>4, <3>5, <3>6
  <2> QED BY <2>1, <2>2
<1>8. CASE FreeLink
  <2>1. /\ ChainedNext \in [0 .. N -> Header]
        /\ \A w \in 0 .. N : w # to_free => ChainedNext[w] = mem[w]
    BY <1>8, ChainNext DEF FreeLink
  <2>2. to_free \notin LiveWords
    <3> SUFFICES ASSUME to_free \in LiveWords PROVE FALSE OBVIOUS
    <3>1. PICK b \in live : to_free \in WordsOf(b) BY DEF LiveWords
    <3>2. Apart(b.ptr, Words(b.bytes), to_free, size) /\ size > 0 /\ size \in Int
          /\ to_free \in Int
      BY <1>0, <1>8 DEF NoOverlap, FreeLink, LoopsOK, TypeOK
    <3>3. b.ptr \in Int /\ Words(b.bytes) \in Int BY LiveBlock
    <3> QED BY <3>1, <3>2, <3>3 DEF Apart, WordsOf
  <2>3. \A w \in LiveWords : ChainedNext[w] = mem[w] BY <1>2, <2>1, <2>2
  <2>4. \A w \in LiveWords : mem'[w] = ChainedNext[w]
    BY <1>2, <1>4, <1>8, <2>1 DEF FreeLink, chain_free_blocs
  <2> QED BY <1>2, <2>3, <2>4
<1> QED BY <1>6, <1>7, <1>8

\* mem_alloc refuses only when no run of free words is long enough: two free
\* blocks never touch, so a run lies within one of them.
LEMMA RefusedForLackOfRoom ==
  ASSUME IInv, AllocFail
  PROVE  ~ Abs!Room(bytes)
<1> USE NType, U16Type
<1>0. TypeOK /\ FreeListOK /\ NoOverlap /\ NoWordLost /\ LoopsOK /\ Position /\ pc = "alloc"
  BY DEF IInv, LoopsOK, AllocFail
<1>1. size = Words(bytes) /\ bytes \in Sizes /\ size \in Int /\ mem[curr_free].size < size
  BY <1>0 DEF LoopsOK, AllocFail, TypeOK
<1>2. curr_free = N /\ size > 0
  BY <1>0, <1>1, PositionFacts DEF AllocFail, TooSmall
<1>3. \A f \in free : mem[f].size < size BY <1>0, <1>2, FreeBlock DEF LoopsOK
<1>4. Abs!WordsFor(bytes) = size BY <1>1, WordsRounds DEF Abs!WordsFor
<1> SUFFICES ASSUME NEW p \in 0 .. N - 1, p + size <= N,
                    (p .. p + size - 1) \cap LiveWords = {}
             PROVE  FALSE
  BY <1>4, UsedIsLiveWords DEF Abs!Room
<1>5. ASSUME NEW w \in p .. p + size - 1
      PROVE  \E f \in free : f <= w /\ w < f + mem[f].size
  <2>1. w \in 0 .. N - 1 /\ w \notin LiveWords BY <1>1, <1>5
  <2>2. ~ \E b \in live : b.ptr <= w /\ w < b.ptr + Words(b.bytes)
    <3> SUFFICES ASSUME NEW b \in live, b.ptr <= w, w < b.ptr + Words(b.bytes)
                 PROVE  FALSE
      OBVIOUS
    <3>1. b.ptr \in Int /\ Words(b.bytes) \in Int BY LiveBlock
    <3>2. w \in WordsOf(b) BY <2>1, <3>1 DEF WordsOf
    <3> QED BY <2>1, <3>2 DEF LiveWords
  <2> QED BY <1>0, <2>1, <2>2 DEF NoWordLost
<1>6. PICK f \in free : f <= p /\ p < f + mem[f].size BY <1>1, <1>2, <1>5
<1>7. /\ f \in Int /\ mem[f].size \in Int /\ mem[f].to_next \in Int /\ mem[f].size > 0
      /\ f + mem[f].size <= f + mem[f].to_next /\ f + mem[f].to_next <= N
      /\ f + mem[f].size = f + mem[f].to_next => f + mem[f].to_next = N
      /\ \A g \in free : g > f => g >= f + mem[f].to_next
  BY <1>0, FreeBlock
<1> DEFINE e == f + mem[f].size
<1>8. e \in p .. p + size - 1 BY <1>1, <1>3, <1>6, <1>7
<1>9. PICK g \in free : g <= e /\ e < g + mem[g].size BY <1>5, <1>8
<1>10. g \in Int /\ mem[g].size \in Int /\ mem[g].to_next \in Int
       /\ g + mem[g].size <= g + mem[g].to_next
       /\ (f > g => f >= g + mem[g].to_next)
  BY <1>0, FreeBlock
<1>11. CASE g = f BY <1>7, <1>9, <1>11
<1>12. CASE g < f BY <1>7, <1>9, <1>10, <1>12
<1>13. CASE g > f
  <2>1. g >= f + mem[f].to_next BY <1>7, <1>13
  <2>2. e = f + mem[f].to_next BY <1>7, <1>9, <1>10, <2>1
  <2>3. e = N BY <1>7, <2>2
  <2> QED BY <1>1, <1>8, <2>3
<1> QED BY <1>7, <1>10, <1>11, <1>12, <1>13

LEMMA InitRefines == Init => Abs!AbsInit
<1> SUFFICES ASSUME Init PROVE Abs!AbsInit OBVIOUS
<1>1. LiveWords = {} BY DEF Init, LiveWords
<1> QED BY <1>1 DEF Init, Abs!AbsInit, Abs!NoRequest

\* A block is granted: the abstract Grant.
LEMMA GrantRefines ==
  ASSUME IInv, IInv', AllocWhole \/ AllocSplit
  PROVE  Abs!Grant
<1> USE NType, U16Type
<1> DEFINE c == curr_free
           b == [ptr |-> curr_free, bytes |-> bytes]
<1>0. TypeOK /\ FreeListOK /\ NoOverlap /\ LoopsOK /\ Position BY DEF IInv, LoopsOK, AllocWhole, AllocSplit
<1>1. /\ pc = "alloc" /\ ReturnAlloc(c) /\ mem[c].size >= size /\ size = Words(bytes)
      /\ bytes \in Sizes /\ size \in Int /\ size >= 0
      /\ c \in Int /\ 0 <= c /\ c <= N /\ mem[c].size \in Int
  BY <1>0, PositionFacts, WordsRounds DEF AllocWhole, AllocSplit, LoopsOK
<1>2. bytes \in Int /\ bytes >= 0 /\ bytes # -1 /\ (bytes = 0 => size = 0) /\ (bytes > 0 => size > 0)
  BY <1>1, WordsRounds
<1>3. c # NULL BY <1>1 DEF NULL
<1>4. pc' # "alloc" /\ live' = IF bytes = 0 THEN live ELSE live \cup {b}
  BY <1>1, <1>3 DEF ReturnAlloc
<1>5. Abs!Cover(b) = c .. c + size - 1
  <2>1. Abs!Cover(b) = WordsOf(b) BY <1>1, CoverIsWordsOf
  <2> QED BY <1>1, <2>1 DEF WordsOf
<1>6. Abs!Cover(b) \subseteq 0 .. N - 1
  <2>1. CASE size = 0 BY <1>1, <1>5, <2>1
  <2>2. CASE size > 0
    <3>1. c \in free BY <1>0, <1>1, <2>2, PositionFacts
    <3>2. c + mem[c].size <= N BY <1>0, <3>1, FreeBlock
    <3>3. N \in Int /\ 0 <= c /\ c + size - 1 <= N - 1 BY <1>1, <3>2
    <3>4. c .. c + size - 1 \subseteq 0 .. N - 1
      <4> HIDE DEF c
      <4> QED BY <1>1, <3>3
    <3> QED BY <1>5, <3>4
  <2> QED BY <1>1, <2>1, <2>2
<1>7. Abs!Cover(b) \cap Abs!Used(live) = {}
  <2>1. SUFFICES ASSUME NEW w \in c .. c + size - 1, w \in LiveWords PROVE FALSE
    BY <1>5, UsedIsLiveWords
  <2>2. size > 0 /\ w \in Int BY <1>1, <2>1
  <2>3. c \in free BY <1>0, <1>1, <2>2, PositionFacts
  <2>4. PICK d \in live : w \in WordsOf(d) BY <2>1 DEF LiveWords
  <2>5. d.ptr \in Int /\ Words(d.bytes) \in Int BY LiveBlock
  <2>6. Apart(d.ptr, Words(d.bytes), c, mem[c].size) BY <1>0, <2>3 DEF NoOverlap
  <2> QED BY <1>1, <2>1, <2>2, <2>4, <2>5, <2>6 DEF Apart, WordsOf
<1>8. Abs!Used(live') = LiveWords'
  <2>1. \A d \in live' : Abs!Cover(d) = WordsOf(d)
    <3> SUFFICES ASSUME NEW d \in live' PROVE Abs!Cover(d) = WordsOf(d) OBVIOUS
    <3>1. live' \subseteq Blocks BY DEF IInv, TypeOK
    <3>2. d.bytes \in Sizes BY <3>1 DEF Blocks
    <3> QED BY <3>2, CoverIsWordsOf
  <2> QED BY <2>1 DEF Abs!Used, LiveWords
<1>9. \A w \in Abs!Used(live) : w \in LiveWords /\ w \in LiveWords' /\ mem'[w] = mem[w]
  <2>1. Abs!Used(live) = LiveWords BY UsedIsLiveWords
  <2>2. \A w \in LiveWords : w \in LiveWords' BY <1>4 DEF LiveWords
  <2> QED BY <2>1, <2>2, LiveWordsKept
<1> DEFINE request == IF pc = "alloc" THEN bytes ELSE -1
           contents == [w \in LiveWords |-> mem[w]]
<1>10. request = bytes BY <1>1
<1>11. request' = -1 BY <1>4
<1>12. /\ DOMAIN contents' = Abs!Used(live')
       /\ \A w \in Abs!Used(live) : contents'[w] = contents[w]
  BY <1>8, <1>9
<1>13. \E p \in 0 .. N :
         /\ Abs!Cover([ptr |-> p, bytes |-> request]) \subseteq 0 .. N - 1
         /\ Abs!Cover([ptr |-> p, bytes |-> request]) \cap Abs!Used(live) = {}
         /\ live' = IF request = 0 THEN live ELSE live \cup {[ptr |-> p, bytes |-> request]}
  <2> HIDE DEF request
  <2>1. [ptr |-> c, bytes |-> request] = b BY <1>10
  <2>2. c \in 0 .. N BY <1>1
  <2> HIDE DEF b, c
  <2> WITNESS c \in 0 .. N
  <2> QED BY <1>4, <1>6, <1>7, <1>10, <2>1
<1> HIDE DEF contents
<1>14. request # -1 BY <1>2, <1>10
<1> HIDE DEF request
<1> QED BY <1>11, <1>12, <1>13, <1>14 DEF Abs!Grant, Abs!NoRequest, request, contents

\* Steps that hand out, take back and serve nothing are stuttering steps.
LEMMA StutterRefines ==
  ASSUME IInv, UNCHANGED live, \A w \in LiveWords : mem'[w] = mem[w],
         (pc = "alloc") = (pc' = "alloc"), pc = "alloc" => bytes' = bytes
  PROVE  UNCHANGED Abs!absVars
<1>1. LiveWords' = LiveWords BY DEF LiveWords
<1>2. [w \in LiveWords |-> mem[w]]' = [w \in LiveWords |-> mem[w]] BY <1>1
<1>3. (IF pc = "alloc" THEN bytes ELSE -1)' = (IF pc = "alloc" THEN bytes ELSE -1) OBVIOUS
<1> QED BY <1>2, <1>3 DEF Abs!absVars

\* A block goes back: the abstract Release, whose words are then no one's.
LEMMA ReleaseRefines ==
  ASSUME IInv, IInv', mem_free \/ ReallocFree
  PROVE  Abs!Release
<1> DEFINE contents == [w \in LiveWords |-> mem[w]]
           request == IF pc = "alloc" THEN bytes ELSE -1
<1>1. PICK b \in live : StartFree(b) BY DEF mem_free, ReallocFree, IInv, LoopsOK
<1>2. live' = live \ {b} /\ mem' = mem /\ pc' = "free" /\ pc # "alloc"
  BY <1>1 DEF StartFree, mem_free, ReallocFree
<1>3. Abs!Used(live') = LiveWords'
  <2>1. \A d \in live' : Abs!Cover(d) = WordsOf(d)
    <3> SUFFICES ASSUME NEW d \in live' PROVE Abs!Cover(d) = WordsOf(d) OBVIOUS
    <3>1. live' \subseteq Blocks BY DEF IInv, TypeOK
    <3>2. d.bytes \in Sizes BY <3>1 DEF Blocks
    <3> QED BY <3>2, CoverIsWordsOf
  <2> QED BY <2>1 DEF Abs!Used, LiveWords
<1>4. \A w \in LiveWords' : w \in LiveWords BY <1>2 DEF LiveWords
<1>5. contents' = [w \in Abs!Used(live') |-> contents[w]] BY <1>2, <1>3, <1>4
<1>6. request' = request BY <1>2
<1> HIDE DEF contents, request
<1> QED BY <1>2, <1>5, <1>6 DEF Abs!Release, contents, request

\* Owners, and mem_realloc for its caller, write into one live block.
LEMMA WriteRefines ==
  ASSUME IInv, pc # "alloc", pc' # "alloc", UNCHANGED live,
         NEW b \in live, \A w \in LiveWords : w \notin WordsOf(b) => mem'[w] = mem[w]
  PROVE  Abs!Write
<1> DEFINE contents == [w \in LiveWords |-> mem[w]]
           request == IF pc = "alloc" THEN bytes ELSE -1
<1>1. LiveWords' = LiveWords BY DEF LiveWords
<1>2. Abs!Cover(b) = WordsOf(b) BY LiveBlock, CoverIsWordsOf
<1>3. DOMAIN contents' = DOMAIN contents BY <1>1
<1>4. \A w \in DOMAIN contents \ Abs!Cover(b) : contents'[w] = contents[w] BY <1>1, <1>2
<1>5. request' = request OBVIOUS
<1> HIDE DEF contents, request
<1> QED BY <1>3, <1>4, <1>5 DEF Abs!Write, contents, request

LEMMA StepRefines ==
  ASSUME IInv, IInv', [Next]_vars
  PROVE  [Abs!AbsNext]_(Abs!absVars)
<1> USE NType, U16Type
<1>1. CASE AllocScan \/ FreeScan \/ Monitor \/ MonitorScan \/ MonitorReturn
  <2>1. UNCHANGED live /\ mem' = mem /\ ((pc = "alloc") = (pc' = "alloc"))
        /\ (pc = "alloc" => bytes' = bytes)
    BY <1>1 DEF AllocScan, FreeScan, Monitor, MonitorScan, MonitorReturn
  <2> QED BY <2>1, StutterRefines
<1>2. CASE mem_alloc \/ mem_realloc
  <2>1. PICK n \in Sizes : StartAlloc(n) BY <1>2 DEF mem_alloc, mem_realloc
  <2>2. /\ pc = "idle" /\ pc' = "alloc" /\ bytes' = n /\ UNCHANGED <<live, mem>>
    BY <1>2, <2>1 DEF StartAlloc, mem_alloc, mem_realloc
  <2>3. [w \in LiveWords |-> mem[w]]' = [w \in LiveWords |-> mem[w]]
    BY <2>2 DEF LiveWords
  <2>4. (IF pc = "alloc" THEN bytes ELSE -1) = -1 /\ (IF pc = "alloc" THEN bytes ELSE -1)' = n
    BY <2>2
  <2>5. Abs!Request BY <2>2, <2>3, <2>4 DEF Abs!Request, Abs!NoRequest
  <2> QED BY <2>5 DEF Abs!AbsNext
<1>3. CASE AllocWhole \/ AllocSplit
  BY <1>3, GrantRefines DEF Abs!AbsNext
<1>4. CASE AllocFail
  <2>1. ~ Abs!Room(bytes) BY <1>4, RefusedForLackOfRoom
  <2>2. /\ pc = "alloc" /\ pc' # "alloc" /\ UNCHANGED <<live, mem>>
    BY <1>4 DEF AllocFail, ReturnAlloc
  <2>3. bytes # -1
    <3>1. bytes \in Sizes BY <2>2 DEF IInv, LoopsOK
    <3> QED BY <3>1, WordsRounds
  <2>4. [w \in LiveWords |-> mem[w]]' = [w \in LiveWords |-> mem[w]]
    BY <2>2 DEF LiveWords
  <2>5. (IF pc = "alloc" THEN bytes ELSE -1) = bytes /\ (IF pc = "alloc" THEN bytes ELSE -1)' = -1
    BY <2>2
  <2>6. Abs!Refuse BY <2>1, <2>2, <2>3, <2>4, <2>5 DEF Abs!Refuse, Abs!NoRequest
  <2> QED BY <2>6 DEF Abs!AbsNext
<1>5. CASE mem_free \/ ReallocFree BY <1>5, ReleaseRefines DEF Abs!AbsNext
<1>6. CASE FreeLink
  <2>1. UNCHANGED live /\ pc # "alloc" /\ pc' # "alloc" BY <1>6 DEF FreeLink
  <2>2. \A w \in LiveWords : mem'[w] = mem[w] BY <1>6, LiveWordsKept
  <2> QED BY <2>1, <2>2, StutterRefines
<1>7. CASE ReallocCopy
  <2>0. pc = "copy" /\ pc' = "release" /\ UNCHANGED live BY <1>7 DEF ReallocCopy
  <2>1. CASE new_ptr = NULL
    <3>1. mem' = mem BY <1>7, <2>1 DEF ReallocCopy
    <3> QED BY <2>0, <3>1, StutterRefines
  <2>2. CASE new_ptr # NULL
    <3>1. PICK b \in live : new_ptr .. new_ptr + Words(old.bytes) - 1 \subseteq WordsOf(b)
      BY <2>0, <2>2, CopyTarget
    <3>2. \A w \in LiveWords : w \in 0 .. N
      <4>1. ASSUME NEW d \in live, NEW w \in WordsOf(d) PROVE w \in 0 .. N
        BY LiveBlock DEF WordsOf
      <4> QED BY <4>1 DEF LiveWords
    <3>3. \A w \in LiveWords : w \notin WordsOf(b) => mem'[w] = mem[w]
      BY <1>7, <2>2, <3>1, <3>2 DEF ReallocCopy
    <3> QED BY <2>0, <3>3, WriteRefines DEF Abs!AbsNext
  <2> QED BY <2>1, <2>2
<1>8. CASE UserWrite
  <2>1. PICK b \in live : \E w \in WordsOf(b), v \in UserWords : mem' = [mem EXCEPT ![w] = v]
    BY <1>8 DEF UserWrite
  <2>2. pc # "alloc" /\ pc' # "alloc" /\ UNCHANGED live BY <1>8 DEF UserWrite
  <2>3. mem \in [0 .. N -> Header] BY DEF IInv, TypeOK
  <2>4. \A u \in LiveWords : u \in 0 .. N
    <3>1. ASSUME NEW d \in live, NEW u \in WordsOf(d) PROVE u \in 0 .. N
      BY LiveBlock DEF WordsOf
    <3> QED BY <3>1 DEF LiveWords
  <2>5. \A u \in LiveWords : u \notin WordsOf(b) => mem'[u] = mem[u] BY <2>1, <2>3, <2>4
  <2> QED BY <2>2, <2>5, WriteRefines DEF Abs!AbsNext
<1>9. CASE UNCHANGED vars
  <2>1. UNCHANGED <<live, mem, pc, bytes>> BY <1>9 DEF vars, locals
  <2> QED BY <2>1, StutterRefines
<1> QED BY <1>1, <1>2, <1>3, <1>4, <1>5, <1>6, <1>7, <1>8, <1>9 DEF Next, Calls, Steps

\* core/memory.c implements the abstract allocator, for every heap size and
\* every set of request sizes up to 65532 bytes.
THEOREM AllocatorRefines == Spec => AbsSpec
<1>1. Init => Abs!AbsInit BY InitRefines
<1>2. IInv /\ IInv' /\ [Next]_vars => [Abs!AbsNext]_(Abs!absVars) BY StepRefines
<1> QED BY <1>1, <1>2, AllocatorInvariant, PTL DEF Spec, AbsSpec, Abs!AbsSpec
=============================================================================

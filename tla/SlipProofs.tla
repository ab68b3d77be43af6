----------------------------- MODULE SlipProofs -----------------------------
(***************************************************************************)
(* The ring buffer of the serial drivers loses, repeats and reorders no    *)
(* byte that the interrupt handler accepted, for a buffer of any size and  *)
(* any traffic, if dev_get masks the interrupt while it moves the pointers *)
(* and the handler looks at writePtr before it writes.                     *)
(***************************************************************************)
EXTENDS Slip, SequenceTheorems, TLAPS

\* True of the drivers of Arduino_slip, MicaZ and GBA.
MaskAndLook == \A d \in Drivers : d.masks = TRUE /\ d.looks = TRUE

ReadPtr == serial_line.readPtr
WritePtr == serial_line.writePtr

\* dev_get has taken a byte out of the buffer that it has not returned yet.
Fetched == IF rpc \in {"wrap", "empty?", "empty", "return"} THEN 1 ELSE 0

\* How many bytes the buffer holds.
Held == Len(accepted) - Len(got) - Fetched

\* The place x steps after the first one.
Place(x) == IF x < INBUF_SIZE THEN x ELSE x - INBUF_SIZE

\* Bytes are values of some set V.
TypedIn(V) ==
  /\ accepted \in Seq(V) /\ got \in Seq(V) /\ c \in V
  /\ serial_line \in [buffer : [Places -> V], writePtr : Places \cup {NULL},
                      readPtr : Places \cup {NULL, INBUF_SIZE}]

\* The reader: the handler is out while it works, and what it has returned
\* and holds are the first bytes accepted.
ReaderInv ==
  /\ rpc \in {"idle", "wait", "refill?", "refill", "fetch", "wrap", "empty?", "empty", "return"}
  /\ rpc \notin {"idle", "wait"} => irq = FALSE
  /\ \A i \in 1 .. Len(got) : i <= Len(accepted) /\ got[i] = accepted[i]
  /\ Fetched = 1 => c = accepted[Len(got) + 1]

\* The pointers: readPtr is NULL when the buffer is empty and writePtr when
\* it is full, unless dev_get is about to say so, and otherwise writePtr is as
\* far from readPtr as the number of bytes held.
PointersInv ==
  /\ Held \in 0 .. INBUF_SIZE
  /\ ReadPtr = NULL => /\ rpc \in {"idle", "wait", "return"}
                       /\ Held = 0
                       /\ WritePtr # NULL
  /\ ReadPtr # NULL => /\ Held = 0 => rpc \in {"wrap", "empty?", "empty"}
                       /\ rpc = "wrap" => ReadPtr > 0
                       /\ ReadPtr = INBUF_SIZE => rpc = "wrap"
                       /\ WritePtr # NULL => WritePtr = Place(ReadPtr + Held)
                       /\ WritePtr # NULL /\ Held = INBUF_SIZE => rpc = "fetch"
                       /\ WritePtr = NULL => /\ Held = INBUF_SIZE
                                             /\ rpc \in {"idle", "wait", "refill?", "refill"}
  /\ rpc = "refill" => WritePtr = NULL
  /\ rpc = "empty" => Held = 0

\* The bytes held are the bytes accepted after those taken out.
CellsInv ==
  ReadPtr # NULL => \A i \in 1 .. Held :
    serial_line.buffer[Place(ReadPtr + i - 1)] = accepted[Len(got) + Fetched + i]

IInv == /\ driver \in Drivers /\ fault = FALSE
        /\ \E V : TypedIn(V)
        /\ ReaderInv /\ PointersInv /\ CellsInv

----------------------------------------------------------------------------
LEMMA SizeType == INBUF_SIZE \in Nat /\ INBUF_SIZE > 0
BY SlipAssumption

\* The remainders that the model computes.
LEMMA Remainders ==
  ASSUME NEW x \in Int
  PROVE  /\ x \in 0 .. INBUF_SIZE - 1 => x % INBUF_SIZE = x
         /\ x = INBUF_SIZE => x % INBUF_SIZE = 0
         /\ x \in 0 .. 2 * INBUF_SIZE - 1 => x % INBUF_SIZE = Place(x)
         /\ x \in 1 - INBUF_SIZE .. -1 => x % INBUF_SIZE = x + INBUF_SIZE
<1> DEFINE n == INBUF_SIZE
           q == x \div n
           r == x % n
<1>1. n \in Nat /\ n > 0
  BY SizeType
<1>2. q \in Int /\ r \in 0 .. n - 1 /\ x = (n * q) + r
  BY <1>1
<1> HIDE DEF q, r
<1>3. (q >= 1 => n * q >= n) /\ (q >= 2 => n * q >= 2 * n)
      /\ (q <= -1 => n * q <= -n) /\ (q <= -2 => n * q <= -(2 * n))
      /\ (q = 0 => n * q = 0) /\ (q = 1 => n * q = n) /\ (q = -1 => n * q = -n)
  BY <1>1, <1>2
<1> DEFINE nq == n * q
<1>4. nq \in Int
  BY <1>1, <1>2
<1>5. /\ x \in 0 .. n - 1 => r = x
      /\ x = n => r = 0
      /\ x \in 0 .. 2 * n - 1 => r = IF x < n THEN x ELSE x - n
      /\ x \in 1 - n .. -1 => r = x + n
  <2> HIDE DEF nq
  <2>1. x = nq + r /\ (q >= 1 => nq >= n) /\ (q >= 2 => nq >= 2 * n)
        /\ (q <= -1 => nq <= -n) /\ (q <= -2 => nq <= -(2 * n))
        /\ (q = 0 => nq = 0) /\ (q = 1 => nq = n) /\ (q = -1 => nq = -n)
    BY <1>2, <1>3 DEF nq
  <2> HIDE DEF n
  <2> QED
    BY <1>1, <1>2, <1>4, <2>1
<1> QED
  BY <1>5 DEF Place, r

\* What the invariant says of the numbers.
LEMMA NumberTypes ==
  ASSUME IInv
  PROVE  /\ Len(accepted) \in Nat /\ Len(got) \in Nat
         /\ ReadPtr \in 0 .. INBUF_SIZE \/ ReadPtr = NULL
         /\ WritePtr \in 0 .. INBUF_SIZE - 1 \/ WritePtr = NULL
         /\ Held \in 0 .. INBUF_SIZE /\ Fetched \in {0, 1}
         /\ Len(got) + Fetched + Held = Len(accepted)
         /\ INBUF_SIZE \in Nat /\ INBUF_SIZE > 0
<1>1. PICK V : TypedIn(V)
  BY DEF IInv
<1>2. /\ Len(accepted) \in Nat /\ Len(got) \in Nat
      /\ ReadPtr \in Places \cup {NULL, INBUF_SIZE} /\ WritePtr \in Places \cup {NULL}
  BY <1>1 DEF TypedIn, ReadPtr, WritePtr
<1>3. Held \in 0 .. INBUF_SIZE
  BY DEF IInv, PointersInv
<1> QED
  BY <1>2, <1>3, SizeType DEF Places, Fetched, Held

LEMMA InitInv == Init => IInv
<1> SUFFICES ASSUME Init PROVE IInv
  OBVIOUS
<1>1. /\ serial_line = [buffer |-> [i \in Places |-> 0], writePtr |-> 0, readPtr |-> NULL]
      /\ accepted = << >> /\ got = << >> /\ c = 0 /\ rpc = "idle" /\ fault = FALSE
      /\ driver \in Drivers
  BY DEF Init, dev_init
<1>2. TypedIn({0})
  BY <1>1, SizeType DEF TypedIn, Places
<1>3. Fetched = 0 /\ Held = 0 /\ ReadPtr = NULL /\ WritePtr = 0
  <2>1. ReadPtr = NULL /\ WritePtr = 0
    BY <1>1 DEF ReadPtr, WritePtr
  <2>2. Fetched = 0
    BY <1>1 DEF Fetched
  <2>3. Len(accepted) = 0 /\ Len(got) = 0
    BY <1>1
  <2> QED
    BY <2>1, <2>2, <2>3 DEF Held
<1>4. 0 # NULL
  BY DEF NULL
<1> QED
  BY <1>1, <1>2, <1>3, <1>4, SizeType DEF IInv, ReaderInv, PointersInv, CellsInv

\* Steps that leave the buffer and dev_get alone.
LEMMA OtherStep ==
  ASSUME IInv,
         driver' = driver, serial_line' = serial_line, accepted' = accepted, fault' = fault,
         c' = c, got' = got,
         \/ rpc' = rpc
         \/ rpc = "wait" /\ rpc' = "idle",
         rpc \in {"idle", "wait"} \/ irq' = irq
  PROVE  IInv'
<1>1. Fetched' = Fetched /\ Held' = Held /\ ReadPtr' = ReadPtr /\ WritePtr' = WritePtr
  BY DEF Fetched, Held, ReadPtr, WritePtr
<1>2. \E V : TypedIn(V)'
  BY DEF IInv, TypedIn
<1>3. ReaderInv'
  BY <1>1 DEF IInv, ReaderInv
<1>4. PointersInv'
  BY <1>1 DEF IInv, PointersInv
<1>5. CellsInv'
  BY <1>1 DEF IInv, CellsInv
<1> QED
  BY <1>2, <1>3, <1>4, <1>5 DEF IInv

\* The handler stores a byte behind those held.
LEMMA StoreStep ==
  ASSUME IInv, MaskAndLook, uart_irq
  PROVE  IInv'
<1> DEFINE b == Unescaped(Head(lineIn), slip_state)
<1>1. rpc \in {"idle", "wait"} /\ Fetched = 0
  BY DEF IInv, ReaderInv, uart_irq, Fetched
<1>2. driver' = driver /\ rpc' = rpc /\ c' = c /\ got' = got /\ Fetched' = Fetched
  BY DEF uart_irq, drivers, reader, Fetched
<1>3. driver.looks = TRUE
  BY DEF IInv, MaskAndLook
<1>4. CASE WritePtr = NULL
  <2>1. serial_line' = serial_line /\ accepted' = accepted
    BY <1>4 DEF uart_irq, WritePtr
  <2>2. fault' = FALSE
    BY <1>3, <1>4 DEF uart_irq, WritePtr, IInv
  <2>3. irq' = irq
    BY DEF uart_irq
  <2> QED
    BY <1>1, <1>2, <2>1, <2>2, <2>3, OtherStep DEF IInv
<1>5. CASE WritePtr # NULL
  <2> DEFINE n == INBUF_SIZE
             w == WritePtr
             r == IF ReadPtr = NULL THEN w ELSE ReadPtr
             nw == Next1(w)
  <2>1. /\ serial_line' = Stored(b) /\ accepted' = Append(accepted, b) /\ fault' = fault
    BY <1>5 DEF uart_irq, WritePtr
  <2>2. PICK V : TypedIn(V)
    BY DEF IInv
  <2> PICK U : U = V \cup {b}
    OBVIOUS
  <2>3. /\ accepted \in Seq(U) /\ got \in Seq(U) /\ c \in U /\ b \in U
        /\ serial_line.buffer \in [Places -> U]
    BY <2>2, SeqMonotonic DEF TypedIn
  <2>4. /\ accepted' \in Seq(U) /\ Len(accepted') = Len(accepted) + 1
        /\ accepted'[Len(accepted) + 1] = b
        /\ \A i \in 1 .. Len(accepted) : accepted'[i] = accepted[i]
    BY <2>1, <2>3, AppendProperties
  <2>5. /\ Len(accepted) \in Nat /\ Len(got) \in Nat /\ Held \in 0 .. n
        /\ Len(got) + Held = Len(accepted) /\ n \in Nat /\ n > 0
        /\ w \in 0 .. n - 1 /\ (ReadPtr \in 0 .. n - 1 \/ ReadPtr = NULL)
    <3>1. ReadPtr # NULL => ReadPtr # INBUF_SIZE
      BY <1>1 DEF IInv, PointersInv
    <3>2. /\ Len(accepted) \in Nat /\ Len(got) \in Nat /\ Held \in 0 .. INBUF_SIZE
          /\ Len(got) + Held = Len(accepted) /\ INBUF_SIZE \in Nat /\ INBUF_SIZE > 0
          /\ WritePtr \in 0 .. INBUF_SIZE - 1
          /\ (ReadPtr \in 0 .. INBUF_SIZE \/ ReadPtr = NULL)
      <4>1. Len(accepted) \in Nat /\ Len(got) \in Nat /\ Held \in 0 .. INBUF_SIZE
            /\ INBUF_SIZE \in Nat /\ INBUF_SIZE > 0
        BY NumberTypes
      <4>2. WritePtr \in 0 .. INBUF_SIZE - 1 /\ (ReadPtr \in 0 .. INBUF_SIZE \/ ReadPtr = NULL)
        BY <1>5, NumberTypes
      <4>3. Len(got) + Fetched + Held = Len(accepted)
        BY NumberTypes
      <4> QED
        BY <1>1, <4>1, <4>2, <4>3
    <3> QED
      BY <3>1, <3>2
  <2>6. Held < n /\ r \in 0 .. n - 1 /\ w = Place(r + Held)
    <3>1. CASE ReadPtr = NULL
      BY <2>5, <3>1 DEF IInv, PointersInv, Place
    <3>2. CASE ReadPtr # NULL
      BY <1>1, <1>5, <2>5, <3>2 DEF IInv, PointersInv
    <3> QED
      BY <3>1, <3>2
  <2>7. /\ ReadPtr' = r
        /\ WritePtr' = IF nw = r THEN NULL ELSE nw
        /\ serial_line'.buffer = [serial_line.buffer EXCEPT ![w] = b]
        /\ serial_line' = [buffer |-> serial_line'.buffer, readPtr |-> ReadPtr', writePtr |-> WritePtr']
    BY <2>1 DEF Stored, ReadPtr, WritePtr
  <2>8. Held' = Held + 1
    BY <1>1, <1>2, <2>4, <2>5 DEF Held
  <2>9. nw \in 0 .. n - 1 /\ nw = Place(r + (Held + 1)) /\ (nw = r <=> Held + 1 = n)
    <3>1. nw = IF w + 1 = n THEN 0 ELSE w + 1
      BY DEF Next1
    <3>2. \A x \in Int : Place(x) = IF x < n THEN x ELSE x - n
      BY DEF Place
    <3> HIDE DEF w, r, n, nw
    <3>5. w = IF r + Held < n THEN r + Held ELSE r + Held - n
      BY <2>5, <2>6, <3>2
    <3>3. nw \in 0 .. n - 1 /\ nw = IF r + (Held + 1) < n THEN r + (Held + 1) ELSE r + (Held + 1) - n
      BY <2>5, <2>6, <3>1, <3>5
    <3>4. nw = r <=> Held + 1 = n
      BY <2>5, <2>6, <3>3
    <3>6. Place(r + (Held + 1)) = IF r + (Held + 1) < n THEN r + (Held + 1) ELSE r + (Held + 1) - n
      BY <2>5, <2>6, <3>2
    <3> QED
      BY <3>3, <3>4, <3>6
  <2> HIDE DEF n, w, r, nw, b
  <2>10. TypedIn(U)'
    <3>1. w \in Places /\ r \in Places /\ nw \in Places
      BY <2>5, <2>6, <2>9 DEF Places, n
    <3>2. serial_line'.buffer \in [Places -> U]
      BY <2>3, <2>7, <3>1
    <3>3. ReadPtr' \in Places \cup {NULL, INBUF_SIZE} /\ WritePtr' \in Places \cup {NULL}
      BY <2>7, <3>1
    <3>4. serial_line' \in [buffer : [Places -> U], writePtr : Places \cup {NULL},
                            readPtr : Places \cup {NULL, INBUF_SIZE}]
      BY <2>7, <3>2, <3>3
    <3>5. accepted' \in Seq(U) /\ got' \in Seq(U) /\ c' \in U
      BY <1>2, <2>3, <2>4
    <3> QED
      BY <3>4, <3>5 DEF TypedIn, Places
  <2>11. ReaderInv'
    BY <1>1, <1>2, <2>4, <2>5 DEF IInv, ReaderInv
  <2>12. PointersInv'
    <3>1. r # NULL /\ nw # NULL /\ ReadPtr' # INBUF_SIZE
      BY <2>5, <2>6, <2>7, <2>9 DEF NULL, n
    <3>2. Held' \in 0 .. INBUF_SIZE /\ Held' # 0
      BY <2>5, <2>6, <2>8 DEF n
    <3> QED
      BY <1>1, <1>2, <2>6, <2>7, <2>8, <2>9, <3>1, <3>2 DEF PointersInv, n
  <2>13. ASSUME NEW i \in 1 .. Held'
         PROVE  serial_line'.buffer[Place(ReadPtr' + i - 1)] = accepted'[Len(got') + Fetched' + i]
    <3>1. CASE i = Held + 1
      <4>1. Place(ReadPtr' + i - 1) = w /\ Len(got') + Fetched' + i = Len(accepted) + 1
        BY <1>1, <1>2, <2>5, <2>6, <2>7, <3>1
      <4>2. serial_line'.buffer[w] = b
        BY <2>3, <2>5, <2>7 DEF Places, n
      <4> QED
        BY <2>4, <4>1, <4>2
    <3>2. CASE i # Held + 1
      <4>1. i \in 1 .. Held /\ ReadPtr # NULL /\ r = ReadPtr
        BY <2>5, <2>8, <3>2 DEF IInv, PointersInv, r
      <4>2. Place(r + i - 1) # w /\ Place(r + i - 1) \in 0 .. n - 1
        BY <2>5, <2>6, <4>1 DEF Place, n
      <4>3. serial_line'.buffer[Place(r + i - 1)] = serial_line.buffer[Place(r + i - 1)]
        BY <2>3, <2>7, <4>2 DEF Places, n
      <4>4. serial_line.buffer[Place(r + i - 1)] = accepted[Len(got) + Fetched + i]
        BY <4>1 DEF IInv, CellsInv
      <4>5. Len(got) + Fetched + i \in 1 .. Len(accepted)
        BY <1>1, <2>5, <4>1
      <4> QED
        BY <1>2, <2>4, <2>7, <4>3, <4>4, <4>5
    <3> QED
      BY <3>1, <3>2
  <2>14. CellsInv'
    BY <2>13 DEF CellsInv
  <2> QED
    BY <1>2, <2>1, <2>10, <2>11, <2>12, <2>14 DEF IInv
<1> QED
  BY <1>4, <1>5

\* What the steps of dev_get find.
LEMMA ReaderNumbers ==
  ASSUME IInv, ReadPtr # NULL
  PROVE  /\ Len(accepted) \in Nat /\ Len(got) \in Nat /\ Held \in 0 .. INBUF_SIZE
         /\ INBUF_SIZE \in Nat /\ INBUF_SIZE > 0 /\ Fetched \in {0, 1}
         /\ Len(got) + Fetched + Held = Len(accepted)
         /\ ReadPtr \in 0 .. INBUF_SIZE /\ (rpc # "wrap" => ReadPtr \in 0 .. INBUF_SIZE - 1)
         /\ WritePtr \in 0 .. INBUF_SIZE - 1 \/ WritePtr = NULL
<1>1. ReadPtr \in 0 .. INBUF_SIZE /\ (ReadPtr = INBUF_SIZE => rpc = "wrap")
  BY NumberTypes DEF IInv, PointersInv
<1> QED
  BY <1>1, NumberTypes

LEMMA StartStep ==
  ASSUME IInv, MaskAndLook, dev_get
  PROVE  IInv'
<1>1. /\ rpc \in {"idle", "wait"} /\ ReadPtr # NULL /\ rpc' = "refill?"
      /\ driver' = driver /\ serial_line' = serial_line /\ accepted' = accepted
      /\ fault' = fault /\ c' = c /\ got' = got
  BY DEF dev_get, ReadPtr, drivers
<1>2. irq' = FALSE
  BY DEF dev_get, IInv, MaskAndLook
<1>3. Fetched = 0 /\ Fetched' = 0 /\ Held' = Held /\ ReadPtr' = ReadPtr /\ WritePtr' = WritePtr
  <2>1. Fetched = 0 /\ Fetched' = 0
    BY <1>1 DEF Fetched
  <2> QED
    BY <1>1, <2>1 DEF Held, ReadPtr, WritePtr
<1>4. \E V : TypedIn(V)'
  BY <1>1 DEF IInv, TypedIn
<1>5. ReaderInv'
  BY <1>1, <1>2, <1>3 DEF IInv, ReaderInv
<1>6. PointersInv'
  BY <1>1, <1>3 DEF IInv, PointersInv
<1>7. CellsInv'
  BY <1>1, <1>3 DEF IInv, CellsInv
<1> QED
  BY <1>1, <1>4, <1>5, <1>6, <1>7 DEF IInv

LEMMA RefillStep ==
  ASSUME IInv, Refill
  PROVE  IInv'
<1>1. /\ rpc \in {"refill?", "refill"} /\ rpc' \in {"refill", "fetch"}
      /\ driver' = driver /\ accepted' = accepted /\ irq' = irq
      /\ fault' = fault /\ c' = c /\ got' = got
  BY DEF Refill, At, drivers
<1>2. Fetched = 0 /\ Fetched' = 0 /\ Held' = Held
  <2>1. Fetched = 0 /\ Fetched' = 0
    BY <1>1 DEF Fetched
  <2> QED
    BY <1>1, <2>1 DEF Held
<1>3. ReadPtr # NULL
  BY <1>1 DEF IInv, PointersInv
<1>4. ReadPtr' = ReadPtr /\ serial_line'.buffer = serial_line.buffer
      /\ \/ /\ rpc' = "refill" /\ WritePtr' = WritePtr /\ WritePtr = NULL
         \/ /\ rpc = "refill?" /\ rpc' = "fetch" /\ WritePtr' = WritePtr /\ WritePtr # NULL
         \/ /\ rpc = "refill" /\ rpc' = "fetch" /\ WritePtr' = ReadPtr
  <2>1. PICK V : TypedIn(V)
    BY DEF IInv
  <2> QED
    BY <2>1 DEF Refill, At, ReadPtr, WritePtr, TypedIn
<1>5. \E V : TypedIn(V)'
  <2>1. PICK V : TypedIn(V)
    BY DEF IInv
  <2>2. ReadPtr \in Places
    BY <1>1, <1>3, ReaderNumbers DEF Places
  <2>3. serial_line' \in [buffer : [Places -> V], writePtr : Places \cup {NULL},
                          readPtr : Places \cup {NULL, INBUF_SIZE}]
    BY <2>1, <2>2 DEF TypedIn, Refill, ReadPtr
  <2>4. TypedIn(V)'
    BY <1>1, <2>1, <2>3 DEF TypedIn, Places
  <2> QED
    BY <2>4
<1>6. ReaderInv'
  BY <1>1, <1>2 DEF IInv, ReaderInv
<1>7. PointersInv'
  <2>1. rpc = "refill" => WritePtr = NULL /\ Held = INBUF_SIZE /\ ReadPtr = Place(ReadPtr + Held)
    <3>1. \A x \in Int : Place(x) = IF x < INBUF_SIZE THEN x ELSE x - INBUF_SIZE
      BY DEF Place
    <3>2. rpc = "refill" => WritePtr = NULL /\ Held = INBUF_SIZE
      BY <1>3 DEF IInv, PointersInv
    <3> QED
      BY <1>1, <1>3, <3>1, <3>2, ReaderNumbers
  <2>2. ReadPtr' # INBUF_SIZE
    BY <1>1, <1>3, <1>4, ReaderNumbers
  <2> QED
    BY <1>1, <1>2, <1>3, <1>4, <2>1, <2>2 DEF IInv, PointersInv
<1>8. CellsInv'
  BY <1>1, <1>2, <1>3, <1>4 DEF IInv, CellsInv
<1> QED
  BY <1>1, <1>5, <1>6, <1>7, <1>8 DEF IInv

\* dev_get takes the byte that ReadPtr points at.
LEMMA FetchStep ==
  ASSUME IInv, Fetch
  PROVE  IInv'
<1>1. /\ rpc = "fetch" /\ rpc' = "wrap" /\ irq' = irq
      /\ driver' = driver /\ accepted' = accepted /\ fault' = fault /\ got' = got
  BY DEF Fetch, At, drivers
<1>2. ReadPtr # NULL /\ WritePtr # NULL /\ Held # 0
  BY <1>1 DEF IInv, PointersInv
<1>3. Fetched = 0 /\ Fetched' = 1 /\ Held' = Held - 1 /\ Held \in 1 .. INBUF_SIZE
      /\ Held' \in 0 .. INBUF_SIZE - 1
  <2>1. Fetched = 0 /\ Fetched' = 1
    BY <1>1 DEF Fetched
  <2>2. Held = Len(accepted) - Len(got) /\ Held' = Len(accepted) - Len(got) - 1
    BY <1>1, <1>2, <2>1, ReaderNumbers DEF Held
  <2> QED
    BY <1>2, <2>1, <2>2, ReaderNumbers
<1>4. /\ ReadPtr \in 0 .. INBUF_SIZE - 1 /\ INBUF_SIZE \in Nat
      /\ Len(got) \in Nat /\ Len(got) + Held = Len(accepted)
  BY <1>1, <1>2, <1>3, ReaderNumbers
<1>5. PICK V : TypedIn(V)
  BY DEF IInv
<1>6. /\ ReadPtr' = ReadPtr + 1 /\ WritePtr' = WritePtr
      /\ serial_line'.buffer = serial_line.buffer
      /\ serial_line' = [serial_line EXCEPT !.readPtr = ReadPtr + 1]
      /\ c' = serial_line.buffer[ReadPtr]
  BY <1>5 DEF Fetch, ReadPtr, WritePtr, TypedIn
<1>7. Place(ReadPtr) = ReadPtr /\ c' = accepted[Len(got) + 1]
  <2>1. Place(ReadPtr) = ReadPtr
    BY <1>4 DEF Place
  <2>2. Place(ReadPtr + 1 - 1) = ReadPtr
    BY <1>4, <2>1
  <2>3. serial_line.buffer[Place(ReadPtr + 1 - 1)] = accepted[Len(got) + Fetched + 1]
    <3>1. 1 \in 1 .. Held
      BY <1>3, <1>4
    <3> QED
      BY <1>2, <3>1 DEF IInv, CellsInv
  <2> QED
    BY <1>3, <1>4, <1>6, <2>1, <2>2, <2>3
<1>8. TypedIn(V)'
  <2>1. c' \in V
    BY <1>4, <1>5, <1>6 DEF TypedIn, Places
  <2>2. ReadPtr + 1 \in Places \cup {NULL, INBUF_SIZE}
    BY <1>4 DEF Places
  <2>3. serial_line' \in [buffer : [Places -> V], writePtr : Places \cup {NULL},
                          readPtr : Places \cup {NULL, INBUF_SIZE}]
    BY <1>5, <1>6, <2>2 DEF TypedIn
  <2> QED
    BY <1>1, <1>5, <2>1, <2>3 DEF TypedIn, Places
<1>9. ReaderInv'
  BY <1>1, <1>3, <1>7 DEF IInv, ReaderInv
<1>10. PointersInv'
  <2>1. ReadPtr' # NULL /\ ReadPtr' > 0 /\ ReadPtr' + Held' = ReadPtr + Held
    <3>1. ReadPtr' = ReadPtr + 1
      BY <1>6
    <3>2. Held \in Int /\ Held' = Held - 1
      BY <1>3
    <3> QED
      BY <1>4, <3>1, <3>2 DEF NULL
  <2>2. WritePtr = Place(ReadPtr + Held)
    BY <1>2 DEF IInv, PointersInv
  <2>3. Held' # INBUF_SIZE /\ Held' \in 0 .. INBUF_SIZE
    BY <1>3, <1>4
  <2> QED
    BY <1>1, <1>2, <1>6, <2>1, <2>2, <2>3 DEF PointersInv
<1>11. CellsInv'
  <2>1. ASSUME NEW i \in 1 .. Held'
        PROVE  serial_line'.buffer[Place(ReadPtr' + i - 1)] = accepted'[Len(got') + Fetched' + i]
    <3>1. i + 1 \in 1 .. Held
      BY <1>3, <1>4
    <3>2. serial_line.buffer[Place(ReadPtr + (i + 1) - 1)] = accepted[Len(got) + Fetched + (i + 1)]
      BY <1>2, <3>1 DEF IInv, CellsInv
    <3>3. ReadPtr + (i + 1) - 1 = ReadPtr' + i - 1
          /\ Len(got) + Fetched + (i + 1) = Len(got') + Fetched' + i
      <4>1. Len(got') = Len(got) /\ i \in Int
        BY <1>1, <3>1, <1>3, <1>4
      <4>2. ReadPtr + (i + 1) - 1 = ReadPtr' + i - 1
        BY <1>4, <1>6, <4>1
      <4>3. Len(got) + Fetched + (i + 1) = Len(got') + Fetched' + i
        BY <1>3, <1>4, <4>1
      <4> QED
        BY <4>2, <4>3
    <3> QED
      BY <1>1, <1>6, <3>2, <3>3
  <2> QED
    BY <2>1 DEF CellsInv
<1> QED
  BY <1>1, <1>8, <1>9, <1>10, <1>11 DEF IInv

LEMMA WrapStep ==
  ASSUME IInv, Wrap
  PROVE  IInv'
<1>1. /\ rpc = "wrap" /\ rpc' = "empty?" /\ irq' = irq /\ c' = c
      /\ driver' = driver /\ accepted' = accepted /\ fault' = fault /\ got' = got
  BY DEF Wrap, At, drivers
<1>2. ReadPtr # NULL /\ WritePtr # NULL /\ Held # INBUF_SIZE /\ ReadPtr > 0
  BY <1>1 DEF IInv, PointersInv
<1>3. Fetched = 1 /\ Fetched' = 1 /\ Held' = Held
  <2>1. Fetched = 1 /\ Fetched' = 1
    BY <1>1 DEF Fetched
  <2> QED
    BY <1>1, <2>1 DEF Held
<1>4. ReadPtr \in 1 .. INBUF_SIZE /\ INBUF_SIZE \in Nat /\ Held \in 0 .. INBUF_SIZE - 1
  BY <1>2, ReaderNumbers
<1>5. PICK V : TypedIn(V)
  BY DEF IInv
<1>6. /\ ReadPtr' = Place(ReadPtr) /\ WritePtr' = WritePtr
      /\ serial_line'.buffer = serial_line.buffer
      /\ serial_line' = [serial_line EXCEPT !.readPtr = Place(ReadPtr)]
  <2>1. ReadPtr % INBUF_SIZE = Place(ReadPtr)
    <3>1. ReadPtr \in Int
      BY <1>4
    <3>2. ReadPtr \in 0 .. 2 * INBUF_SIZE - 1
      BY <1>4
    <3> QED
      BY <3>1, <3>2, Remainders
  <2>2. serial_line' = [serial_line EXCEPT !.readPtr = Place(ReadPtr)]
    BY <2>1 DEF Wrap, ReadPtr
  <2> QED
    BY <1>5, <2>2 DEF ReadPtr, WritePtr, TypedIn
<1>7. Place(ReadPtr) \in 0 .. INBUF_SIZE - 1
      /\ \A d \in 0 .. INBUF_SIZE - 1 : Place(Place(ReadPtr) + d) = Place(ReadPtr + d)
  BY <1>4 DEF Place
<1>8. TypedIn(V)'
  <2>1. Place(ReadPtr) \in Places
    BY <1>7 DEF Places
  <2>2. serial_line' \in [buffer : [Places -> V], writePtr : Places \cup {NULL},
                          readPtr : Places \cup {NULL, INBUF_SIZE}]
    BY <1>5, <1>6, <2>1 DEF TypedIn
  <2> QED
    BY <1>1, <1>5, <2>2 DEF TypedIn, Places
<1>9. ReaderInv'
  BY <1>1, <1>3 DEF IInv, ReaderInv
<1>10. PointersInv'
  <2>1. ReadPtr' # NULL /\ ReadPtr' # INBUF_SIZE
    BY <1>4, <1>6, <1>7 DEF NULL
  <2>2. WritePtr = Place(ReadPtr' + Held)
    BY <1>2, <1>4, <1>6, <1>7 DEF IInv, PointersInv
  <2>3. Held # INBUF_SIZE /\ Held \in 0 .. INBUF_SIZE
    BY <1>4
  <2> QED
    BY <1>1, <1>2, <1>3, <1>6, <2>1, <2>2, <2>3 DEF PointersInv
<1>11. CellsInv'
  <2>1. ASSUME NEW i \in 1 .. Held
        PROVE  serial_line.buffer[Place(ReadPtr' + i - 1)] = accepted[Len(got) + Fetched + i]
    <3>1. serial_line.buffer[Place(ReadPtr + i - 1)] = accepted[Len(got) + Fetched + i]
      BY <1>2 DEF IInv, CellsInv
    <3>2. i - 1 \in 0 .. INBUF_SIZE - 1 /\ i \in Int
      BY <1>4
    <3>3. Place(ReadPtr) \in Int
      BY <1>4, <1>7
    <3>5. ReadPtr' + i - 1 = Place(ReadPtr) + (i - 1) /\ ReadPtr + i - 1 = ReadPtr + (i - 1)
      BY <1>4, <1>6, <3>2, <3>3
    <3>6. Place(ReadPtr' + i - 1) = Place(ReadPtr + i - 1)
      BY <1>7, <3>2, <3>5
    <3> QED
      BY <3>1, <3>6
  <2> QED
    BY <1>1, <1>3, <1>6, <2>1 DEF CellsInv
<1> QED
  BY <1>1, <1>8, <1>9, <1>10, <1>11 DEF IInv

\* dev_get marks the buffer as empty when it is.
LEMMA EmptyStep ==
  ASSUME IInv, Empty
  PROVE  IInv'
<1>1. /\ rpc \in {"empty?", "empty"} /\ rpc' \in {"empty", "return"} /\ irq' = irq /\ c' = c
      /\ driver' = driver /\ accepted' = accepted /\ fault' = fault /\ got' = got
  BY DEF Empty, At, drivers
<1>2. ReadPtr # NULL /\ WritePtr # NULL /\ Held # INBUF_SIZE /\ ReadPtr # INBUF_SIZE
  BY <1>1 DEF IInv, PointersInv
<1>3. Fetched = 1 /\ Fetched' = 1 /\ Held' = Held
  <2>1. Fetched = 1 /\ Fetched' = 1
    BY <1>1 DEF Fetched
  <2> QED
    BY <1>1, <2>1 DEF Held
<1>4. ReadPtr \in 0 .. INBUF_SIZE - 1 /\ INBUF_SIZE \in Nat /\ Held \in 0 .. INBUF_SIZE - 1
  BY <1>1, <1>2, ReaderNumbers
<1>5. PICK V : TypedIn(V)
  BY DEF IInv
<1>6. ReadPtr = WritePtr <=> Held = 0
  <2>1. WritePtr = Place(ReadPtr + Held)
    BY <1>2 DEF IInv, PointersInv
  <2> QED
    BY <1>4, <2>1 DEF Place
<1>7. /\ WritePtr' = WritePtr /\ serial_line'.buffer = serial_line.buffer
      /\ \/ rpc = "empty?" /\ rpc' = "empty" /\ ReadPtr' = ReadPtr /\ Held = 0
         \/ rpc = "empty?" /\ rpc' = "return" /\ ReadPtr' = ReadPtr /\ Held # 0
         \/ rpc = "empty" /\ rpc' = "return" /\ ReadPtr' = NULL
  BY <1>5, <1>6 DEF Empty, At, ReadPtr, WritePtr, TypedIn
<1>8. TypedIn(V)'
  <2>1. serial_line' \in [buffer : [Places -> V], writePtr : Places \cup {NULL},
                          readPtr : Places \cup {NULL, INBUF_SIZE}]
    BY <1>5 DEF TypedIn, Empty
  <2> QED
    BY <1>1, <1>5, <2>1 DEF TypedIn, Places
<1>9. ReaderInv'
  BY <1>1, <1>3 DEF IInv, ReaderInv
<1>10. PointersInv'
  <2>1. rpc = "empty" => Held = 0
    BY DEF IInv, PointersInv
  <2>2. WritePtr = Place(ReadPtr + Held)
    BY <1>2 DEF IInv, PointersInv
  <2>3. Held \in 0 .. INBUF_SIZE
    BY <1>4
  <2> QED
    BY <1>1, <1>2, <1>3, <1>7, <2>1, <2>2, <2>3 DEF PointersInv
<1>11. CellsInv'
  <2>1. ReadPtr' # NULL => ReadPtr' = ReadPtr
    BY <1>7
  <2> QED
    BY <1>1, <1>2, <1>3, <1>7, <2>1 DEF IInv, CellsInv
<1> QED
  BY <1>1, <1>8, <1>9, <1>10, <1>11 DEF IInv

\* dev_get returns the byte.
LEMMA ReturnStep ==
  ASSUME IInv, Return
  PROVE  IInv'
<1>1. /\ rpc = "return" /\ rpc' \in {"idle", "wait"} /\ c' = c
      /\ driver' = driver /\ accepted' = accepted /\ fault' = fault
      /\ serial_line' = serial_line /\ got' = Append(got, c)
  BY DEF Return, drivers
<1>2. PICK V : TypedIn(V)
  BY DEF IInv
<1>3. /\ got' \in Seq(V) /\ Len(got') = Len(got) + 1 /\ got'[Len(got) + 1] = c
      /\ \A i \in 1 .. Len(got) : got'[i] = got[i]
  BY <1>1, <1>2, AppendProperties DEF TypedIn
<1>4. Fetched = 1 /\ Fetched' = 0 /\ Held' = Held
  <2>1. Fetched = 1 /\ Fetched' = 0
    BY <1>1 DEF Fetched
  <2>2. Len(got) \in Nat /\ Len(accepted) \in Nat
    BY NumberTypes
  <2> QED
    BY <1>1, <1>3, <2>1, <2>2 DEF Held
<1>5. ReadPtr' = ReadPtr /\ WritePtr' = WritePtr
  BY <1>1 DEF ReadPtr, WritePtr
<1>6. TypedIn(V)'
  BY <1>1, <1>2, <1>3 DEF TypedIn, Places
<1>7. ReaderInv'
  <2>1. ASSUME NEW i \in 1 .. Len(got')
        PROVE  i <= Len(accepted) /\ got'[i] = accepted[i]
    <3>1. Len(got) \in Nat /\ Len(accepted) \in Nat /\ Held \in Nat
          /\ Len(got) + 1 + Held = Len(accepted)
      BY <1>4, NumberTypes
    <3>2. CASE i = Len(got) + 1
      BY <1>3, <1>4, <3>1, <3>2 DEF IInv, ReaderInv
    <3>3. CASE i # Len(got) + 1
      <4>1. i \in 1 .. Len(got)
        BY <1>3, <3>1, <3>3
      <4> QED
        BY <1>3, <4>1 DEF IInv, ReaderInv
    <3> QED
      BY <3>2, <3>3
  <2> QED
    BY <1>1, <1>4, <2>1 DEF ReaderInv
<1>8. PointersInv'
  BY <1>1, <1>4, <1>5 DEF IInv, PointersInv
<1>9. CellsInv'
  <2>1. Len(got') + Fetched' = Len(got) + Fetched
    <3>1. Len(got) \in Nat
      BY NumberTypes
    <3> QED
      BY <1>3, <1>4, <3>1
  <2> QED
    BY <1>1, <1>4, <1>5, <2>1 DEF IInv, CellsInv
<1> QED
  BY <1>1, <1>6, <1>7, <1>8, <1>9 DEF IInv

LEMMA NextInv ==
  ASSUME IInv, MaskAndLook, [Next]_vars
  PROVE  IInv'
<1>1. CASE uart_irq
  BY <1>1, StoreStep
<1>2. CASE uart_irq_end
  <2>1. rpc \in {"idle", "wait"}
    BY <1>2 DEF uart_irq_end, IInv, ReaderInv
  <2> QED
    BY <1>2, <2>1, OtherStep DEF uart_irq_end, drivers, reader
<1>3. CASE dev_get
  BY <1>3, StartStep
<1>4. CASE Refill
  BY <1>4, RefillStep
<1>5. CASE Fetch
  BY <1>5, FetchStep
<1>6. CASE Wrap
  BY <1>6, WrapStep
<1>7. CASE Empty
  BY <1>7, EmptyStep
<1>8. CASE Return
  BY <1>8, ReturnStep
<1>9. CASE Timeout
  BY <1>9, OtherStep DEF Timeout, drivers, ring
<1>10. CASE dev_put
  BY <1>10, OtherStep DEF dev_put, drivers, ring, reader
<1>11. CASE forward_to_slip
  BY <1>11, OtherStep DEF forward_to_slip, drivers, ring, reader
<1>12. CASE read_end
  BY <1>12, OtherStep DEF read_end, drivers, ring, reader
<1>13. CASE read_from_slip
  BY <1>13, OtherStep DEF read_from_slip, drivers, ring, reader
<1>14. CASE UNCHANGED vars
  BY <1>14, OtherStep DEF vars, drivers, ring, reader
<1> QED
  BY <1>1, <1>2, <1>3, <1>4, <1>5, <1>6, <1>7, <1>8, <1>9, <1>10, <1>11, <1>12, <1>13, <1>14
  DEF Next, Handler, Device, Host, Done

\* Between two calls of dev_get the content that the pointers delimit is what
\* the invariant says of the cells.
LEMMA InvImpliesBytesInOrder == IInv => BytesInOrder
<1> SUFFICES ASSUME IInv, rpc \in {"idle", "wait"}
             PROVE  got \o Content = accepted
  BY DEF IInv, BytesInOrder
<1>1. Fetched = 0
  BY DEF Fetched
<1>2. PICK V : TypedIn(V)
  BY DEF IInv
<1>3. /\ Len(accepted) \in Nat /\ Len(got) \in Nat /\ Held \in 0 .. INBUF_SIZE
      /\ INBUF_SIZE \in Nat /\ INBUF_SIZE > 0 /\ Len(got) + Held = Len(accepted)
  BY <1>1, NumberTypes
<1>4. Content \in Seq(V) /\ Len(Content) = Held
      /\ \A i \in 1 .. Held : Content[i] = accepted[Len(got) + i]
  <2>1. CASE ReadPtr = NULL
    BY <2>1 DEF Content, ReadPtr, IInv, PointersInv
  <2>2. CASE ReadPtr # NULL
    <3> DEFINE n == IF WritePtr = NULL THEN INBUF_SIZE
                    ELSE (WritePtr - ReadPtr) % INBUF_SIZE
               f == [i \in 1 .. n |-> serial_line.buffer[(ReadPtr + i - 1) % INBUF_SIZE]]
    <3>1. Content = f
      BY <2>2 DEF Content, ReadPtr, WritePtr
    <3>2. ReadPtr \in 0 .. INBUF_SIZE - 1
      BY <2>2, ReaderNumbers
    <3>3. n = Held
      <4>1. CASE WritePtr = NULL
        BY <2>2, <4>1 DEF IInv, PointersInv
      <4>2. CASE WritePtr # NULL
        <5>1. WritePtr = Place(ReadPtr + Held) /\ Held # INBUF_SIZE /\ Held # 0
          BY <2>2, <4>2 DEF IInv, PointersInv
        <5>2. /\ WritePtr - ReadPtr \in Int
              /\ \/ WritePtr - ReadPtr = Held /\ Held \in 0 .. INBUF_SIZE - 1
                 \/ WritePtr - ReadPtr = Held - INBUF_SIZE /\ Held - INBUF_SIZE \in 1 - INBUF_SIZE .. -1
          BY <1>3, <3>2, <5>1 DEF Place
        <5>3. (WritePtr - ReadPtr) % INBUF_SIZE = Held
          <6>1. PICK x \in Int : x = WritePtr - ReadPtr
            BY <5>2
          <6>2. CASE x = Held
            BY <1>3, <5>2, <6>1, <6>2, Remainders
          <6>3. CASE x # Held
            <7>1. x = Held - INBUF_SIZE /\ x \in 1 - INBUF_SIZE .. -1
              BY <5>2, <6>1, <6>3
            <7>2. x % INBUF_SIZE = x + INBUF_SIZE
              BY <7>1, Remainders
            <7> QED
              BY <1>3, <6>1, <7>1, <7>2
          <6> QED
            BY <6>2, <6>3
        <5> QED
          BY <4>2, <5>3
      <4> QED
        BY <4>1, <4>2
    <3>4. ASSUME NEW i \in 1 .. Held
          PROVE  /\ serial_line.buffer[(ReadPtr + i - 1) % INBUF_SIZE] = accepted[Len(got) + i]
                 /\ accepted[Len(got) + i] \in V
      <4>1. serial_line.buffer[Place(ReadPtr + i - 1)] = accepted[Len(got) + Fetched + i]
        BY <2>2 DEF IInv, CellsInv
      <4>2. ReadPtr + i - 1 \in Int /\ ReadPtr + i - 1 \in 0 .. 2 * INBUF_SIZE - 1
        BY <1>3, <3>2
      <4>3. (ReadPtr + i - 1) % INBUF_SIZE = Place(ReadPtr + i - 1)
        <5> DEFINE x == ReadPtr + i - 1
        <5> HIDE DEF x
        <5>1. x % INBUF_SIZE = Place(x)
          BY <4>2, Remainders DEF x
        <5> QED
          BY <5>1 DEF x
      <4>4. Len(got) + i \in 1 .. Len(accepted) /\ Len(got) + Fetched + i = Len(got) + i
        BY <1>1, <1>3
      <4>5. accepted[Len(got) + i] \in V
        BY <1>2, <4>4, ElementOfSeq DEF TypedIn
      <4> QED
        BY <4>1, <4>3, <4>4, <4>5
    <3> HIDE DEF n
    <3>5. \A i \in 1 .. Held : f[i] = accepted[Len(got) + i]
      BY <3>3, <3>4
    <3>6. f \in [1 .. Held -> V]
      BY <3>3, <3>4
    <3>7. f \in Seq(V) /\ Len(f) = Held
      <4> HIDE DEF f
      <4>1. Held \in Nat
        BY <1>3
      <4> QED
        BY <3>6, <4>1, SeqDef, LenProperties
    <3> QED
      BY <3>1, <3>5, <3>7
  <2> QED
    BY <2>1, <2>2
<1>5. /\ got \o Content \in Seq(V) /\ Len(got \o Content) = Len(got) + Held
      /\ \A i \in 1 .. Len(got) + Held :
           (got \o Content)[i] = IF i <= Len(got) THEN got[i] ELSE Content[i - Len(got)]
  <2>1. got \in Seq(V) /\ Content \in Seq(V)
    BY <1>2, <1>4 DEF TypedIn
  <2> HIDE DEF Content
  <2> QED
    BY <1>3, <1>4, <2>1, ConcatProperties
<1>6. ASSUME NEW i \in 1 .. Len(accepted)
      PROVE  (got \o Content)[i] = accepted[i]
  <2>1. CASE i <= Len(got)
    <3>1. i \in 1 .. Len(got)
      BY <1>3, <2>1
    <3>2. got[i] = accepted[i]
      BY <3>1 DEF IInv, ReaderInv
    <3> QED
      BY <1>3, <1>5, <2>1, <3>2
  <2>2. CASE ~(i <= Len(got))
    <3>1. i - Len(got) \in 1 .. Held /\ Len(got) + (i - Len(got)) = i
      BY <1>3, <2>2
    <3>2. Content[i - Len(got)] = accepted[Len(got) + (i - Len(got))]
      BY <1>4, <3>1
    <3> QED
      BY <1>3, <1>5, <2>2, <3>1, <3>2
  <2> QED
    BY <2>1, <2>2
<1> QED
  BY <1>2, <1>3, <1>5, <1>6, SeqEqual DEF TypedIn

\* With drivers that mask the interrupt in dev_get and look at writePtr
\* before they write, dev_get returns the bytes that the interrupt handler
\* accepted, in their order, whatever the interleaving of the two and
\* whatever the size of the buffer, and the handler never writes through NULL.
THEOREM SlipBytesInOrder == MaskAndLook => (Spec => []BytesInOrder)
<1> SUFFICES ASSUME MaskAndLook PROVE Spec => []BytesInOrder
  OBVIOUS
<1>1. Init => IInv
  BY InitInv
<1>2. IInv /\ [Next]_vars => IInv'
  BY NextInv
<1>3. IInv => BytesInOrder
  BY InvImpliesBytesInOrder
<1> QED
  BY <1>1, <1>2, <1>3, PTL DEF Spec

=============================================================================

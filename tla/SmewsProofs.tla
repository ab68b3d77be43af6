---------------------------- MODULE SmewsProofs ----------------------------
(***************************************************************************)
(* Proofs about the TCP server, for any number of clients, any files and   *)
(* any segments: the types and the list of connections of the server in    *)
(* any environment, the turns of its connections, and, over the network of *)
(* SmewsNet, the window of each client and the bytes it reads.             *)
(***************************************************************************)
EXTENDS SmewsNet, SequenceTheorems, WellFoundedInduction, TLAPS

\* What is known of the constants of the server.
LEMMA ConstantTypes ==
  /\ InMod \in Nat /\ InMod > 0
  /\ MssMod \in Nat /\ MssMod > 0
  /\ TickMod \in Nat /\ TickMod > 0
  /\ Chunk \in Nat /\ Chunk > 0
  /\ MAX_MSS \in Nat
  /\ BASIC_SEQNO \in Nat
  /\ NotFound \in Files
  /\ \A f \in Files : Length[f] \in Int
BY SmewsAssumption

LEMMA U16Type == U16 \in Nat /\ U16 > 0
BY DEF U16

\* A remainder is in its range.
LEMMA Remainder ==
  ASSUME NEW x \in Int, NEW m \in Nat, m > 0
  PROVE  x % m \in 0 .. m - 1
OBVIOUS

\* The handlers of the control segments are not those of files, and none is.
LEMMA HandlerKinds ==
  /\ Files \cap Control = {}
  /\ None \notin Files /\ None \notin Control
  /\ Control \subseteq Handlers /\ None \in Handlers /\ Files \subseteq Handlers
BY SmewsAssumption DEF Handlers

----------------------------------------------------------------------------
\* Types: what smews_receive makes of its copy is a connection.

LEMMA AckTypes ==
  ASSUME NEW c \in Connection, NEW s \in InSegment
  PROVE  ClearHandler(AckManagement(DuplicateAck(c, s), s)) \in Connection
<1>1. DuplicateAck(c, s) \in Connection
  BY DEF DuplicateAck, Connection, InSegment
<1>2. ASSUME NEW d \in Connection PROVE AckManagement(d, s) \in Connection
  <2>1. d.next_outseqno - s.ack \in Int
    BY DEF Connection, InSegment
  <2>2. (d.next_outseqno - s.ack) % U16 \in 0 .. U16 - 1
    BY <2>1, Remainder, U16Type
  <2> QED
    BY <2>2 DEF AckManagement, Connection
<1>3. ASSUME NEW d \in Connection PROVE ClearHandler(d) \in Connection
  BY HandlerKinds DEF ClearHandler, Connection
<1> QED
  BY <1>1, <1>2, <1>3

LEMMA MachineTypes ==
  ASSUME NEW c \in Connection, NEW s \in InSegment
  PROVE  TcpStateMachine(c, s) \in Connection
<1>1. SeqEnd(s) \in 0 .. InMod - 1
  BY ConstantTypes, Remainder DEF SeqEnd, InSegment
<1>2. [c EXCEPT !.current_inseqno = SeqEnd(s)] \in Connection
  BY <1>1 DEF Connection
<1>3. ASSUME NEW d \in Connection PROVE Transition(d, s) \in Connection
  <2>1. (d.current_inseqno + 1) % InMod \in 0 .. InMod - 1
    BY ConstantTypes, Remainder DEF Connection
  <2>2. {"ref_synack", "ref_finack"} \subseteq Handlers
    BY DEF Handlers, Control
  <2> QED
    BY <2>1, <2>2 DEF Transition, Connection
<1> QED
  BY <1>2, <1>3 DEF TcpStateMachine

LEMMA WindowTypes ==
  ASSUME NEW c \in Connection, NEW s \in InSegment
  PROVE  WindowAndMss(c, s) \in Connection
<1> DEFINE m == IF s.mss > MAX_MSS THEN MAX_MSS ELSE s.mss
<1>1. m \in Int
  BY ConstantTypes DEF InSegment
<1> HIDE DEF m
<1>2. m % MssMod \in 0 .. MssMod - 1
  BY <1>1, ConstantTypes, Remainder
<1>3. WindowAndMss(c, s) =
        [c EXCEPT !.cwnd = s.cwnd, !.tcp_mss = IF s.mss = 0 THEN @ ELSE m % MssMod]
  BY DEF WindowAndMss, m
<1> QED
  BY <1>2, <1>3 DEF Connection, InSegment

LEMMA InstallTypes ==
  ASSUME NEW c \in Connection, NEW h \in Handlers, NEW s \in InSegment
  PROVE  Install(c, h, s) \in Connection
<1>1. s.ack \in Int
  BY DEF InSegment
<1>2. (IF h \in Files THEN s.ack + Length[h] ELSE s.ack - 1) \in Int
  BY <1>1, ConstantTypes
<1> QED
  BY <1>1, <1>2 DEF Install, Connection

LEMMA ParseTypes ==
  ASSUME NEW c \in Connection, NEW s \in InSegment
  PROVE  Parse(c, s) \in Connection
<1>1. s.text.file \in Handlers /\ NotFound \in Handlers /\ None \in Handlers
  BY HandlerKinds, ConstantTypes DEF InSegment, Text
<1>2. c.output_handler \in Handlers
  BY DEF Connection
<1>3. ParseUrl(c, s) \in Connection
  BY <1>1, <1>2, InstallTypes DEF ParseUrl
<1>4. [c EXCEPT !.output_handler = None] \in Connection
  BY <1>1 DEF Connection
<1>5. ASSUME NEW d \in Connection PROVE ParseCommand(d, s) \in Connection
  <2>1. [d EXCEPT !.parsing_state = "url"] \in Connection
    BY DEF Connection
  <2>2. Install(d, s.text.file, s) \in Connection
    BY <1>1, InstallTypes
  <2> QED
    BY <2>1, <2>2 DEF ParseCommand
<1> QED
  BY <1>3, <1>4, <1>5 DEF Parse

LEMMA ProcessedTypes ==
  ASSUME NEW c \in Connection, NEW s \in InSegment
  PROVE  Processed(c, s) \in Connection
<1> DEFINE acked   == ClearHandler(AckManagement(DuplicateAck(c, s), s))
           updated == WindowAndMss(TcpStateMachine(acked, s), s)
<1>1. acked \in Connection
  BY AckTypes
<1>2. updated \in Connection
  BY <1>1, MachineTypes, WindowTypes
<1>3. ASSUME NEW d \in Connection, NEW b \in BOOLEAN PROVE HttpRequest(d, s, b) \in Connection
  BY ParseTypes DEF HttpRequest
<1>4. ASSUME NEW d \in Connection PROVE Acknowledge(d, s) \in Connection
  <2>1. "ref_ack" \in Handlers
    BY DEF Handlers, Control
  <2> QED
    BY <2>1 DEF Acknowledge, Connection
<1>5. NewTcpData(acked, s) \in BOOLEAN
  BY DEF NewTcpData
<1>6. Processed(c, s) = Acknowledge(HttpRequest(updated, s, NewTcpData(acked, s)), s)
  BY DEF Processed
<1> QED
  BY <1>2, <1>3, <1>4, <1>5, <1>6

\* A connection is not what stands for none.
LEMMA ConnectionIsOne == NoConnection \notin Connection
BY DEF Connection, NoConnection

LEMMA SentTypes ==
  ASSUME NEW p \in Peers, NEW c \in Connection,
         last_transmission_time \in 0 .. TickMod - 1
  PROVE  /\ Segment(p, c).len \in Int
         /\ Sent(p, c) \in Connection
<1> DEFINE n == Segment(p, c).len
<1>1. c.tcp_mss % Chunk \in Int
  BY ConstantTypes, Remainder DEF Connection
<1>2. MaxOutSize(c.tcp_mss) \in Int
  BY <1>1 DEF MaxOutSize, Connection
<1>3. c.final_outseqno - c.next_outseqno \in Int
  BY DEF Connection
<1>4. n \in Int
  BY <1>2, <1>3 DEF Segment
<1> HIDE DEF n
<1>5. (c.inflight + n) % U16 \in 0 .. U16 - 1
  BY <1>4, Remainder, U16Type DEF Connection
<1>6. Sent(p, c) = [c EXCEPT !.transmission_time = last_transmission_time,
                             !.next_outseqno = @ + (IF c.output_handler = "ref_synack" THEN 1 ELSE n),
                             !.inflight = (@ + n) % U16,
                             !.output_handler = IF @ \in Control THEN None ELSE @]
  BY DEF Sent, n
<1>7. c.next_outseqno + (IF c.output_handler = "ref_synack" THEN 1 ELSE n) \in Int
  BY <1>4 DEF Connection
<1>8. Sent(p, c) \in Connection
  BY <1>5, <1>6, <1>7, HandlerKinds DEF Connection
<1> QED
  BY <1>4, <1>8 DEF n

LEMMA RolledBackTypes ==
  ASSUME NEW c \in Connection \cup {NoConnection}, NEW now \in 0 .. TickMod - 1
  PROVE  /\ RolledBack(c, now) \in Connection \cup {NoConnection}
         /\ RolledBack(c, now) = NoConnection <=> c = NoConnection
<1>1. CASE c = NoConnection
  BY <1>1 DEF RolledBack
<1>2. CASE c \in Connection
  <2>1. c.next_outseqno - c.inflight \in Int /\ 0 \in 0 .. U16 - 1
    BY <1>2, U16Type DEF Connection
  <2>2. RolledBack(c, now) \in Connection
    BY <1>2, <2>1 DEF RolledBack, Connection
  <2> QED
    BY <1>2, <2>2, ConnectionIsOne
<1> QED
  BY <1>1, <1>2

----------------------------------------------------------------------------
\* The circular list.

Once(L) == \A i, j \in 1 .. Len(L) : L[i] = L[j] => i = j
In(p, L) == \E i \in 1 .. Len(L) : L[i] = p

\* L is A from after its element k on, around to n elements.
Rotates(A, k, n, L) ==
  /\ L \in Seq(Peers)
  /\ Len(L) = n
  /\ \A i \in 1 .. n : L[i] = IF i <= Len(A) - k THEN A[k + i] ELSE A[i - (Len(A) - k)]

\* A rotation of all the elements, or of all but the element k, holds each
\* of them once.
LEMMA RotationHolds ==
  ASSUME NEW A \in Seq(Peers), NEW k \in 1 .. Len(A), NEW n \in {Len(A) - 1, Len(A)},
         NEW L, Once(A), Rotates(A, k, n, L)
  PROVE  /\ Once(L)
         /\ \A p \in Peers : In(p, L) <=> In(p, A) /\ (n = Len(A) \/ p # A[k])
<1> DEFINE N == Len(A)
           place(i) == IF i <= N - k THEN k + i ELSE i - (N - k)
<1>1. N \in Nat /\ k \in Int /\ 1 <= k /\ k <= N /\ n \in Int /\ n <= N /\ Len(L) = n
  BY LenProperties DEF Rotates
<1>2. \A i \in 1 .. n : /\ place(i) \in 1 .. N
                        /\ L[i] = A[place(i)]
                        /\ place(i) = k => i = N
  BY <1>1 DEF Rotates
<1>3. \A i, j \in 1 .. n : place(i) = place(j) => i = j
  BY <1>1
<1>4. ASSUME NEW j \in 1 .. N, n = N \/ j # k
      PROVE  \E i \in 1 .. n : place(i) = j
  <2>1. CASE j > k
    <3>1. j - k \in 1 .. n /\ place(j - k) = j
      BY <1>1, <2>1
    <3> QED
      BY <3>1
  <2>2. CASE j < k \/ j = k
    <3>1. j + (N - k) \in 1 .. n /\ place(j + (N - k)) = j
      BY <1>1, <1>4, <2>2
    <3> QED
      BY <3>1
  <2> QED
    BY <1>1, <2>1, <2>2
<1> HIDE DEF place, N
<1>5. ASSUME NEW i \in 1 .. n, NEW j \in 1 .. n, L[i] = L[j]
      PROVE  i = j
  <2>1. A[place(i)] = A[place(j)] /\ place(i) \in 1 .. N /\ place(j) \in 1 .. N
    BY <1>2, <1>5
  <2>2. place(i) = place(j)
    BY <2>1 DEF Once, N
  <2> QED
    BY <1>3, <2>2
<1>6. ASSUME NEW p \in Peers, In(p, L)
      PROVE  In(p, A) /\ (n = N \/ p # A[k])
  <2>1. PICK i \in 1 .. n : L[i] = p
    BY <1>1, <1>6 DEF In
  <2>2. place(i) \in 1 .. N /\ A[place(i)] = p
    BY <1>2, <2>1
  <2>3. ASSUME n # N, p = A[k] PROVE FALSE
    <3>1. place(i) = k
      BY <1>1, <2>2, <2>3 DEF Once, N
    <3> QED
      BY <1>1, <1>2, <2>1, <2>3, <3>1
  <2> QED
    BY <2>2, <2>3 DEF In, N
<1>7. ASSUME NEW p \in Peers, In(p, A), n = N \/ p # A[k]
      PROVE  In(p, L)
  <2>1. PICK j \in 1 .. N : A[j] = p
    BY <1>7 DEF In, N
  <2>2. PICK i \in 1 .. n : place(i) = j
    BY <1>4, <1>7, <2>1
  <2> QED
    BY <1>1, <1>2, <2>1, <2>2 DEF In
<1> QED
  BY <1>1, <1>5, <1>6, <1>7 DEF N, Once

\* The place of an element of the list.
LEMMA PositionIs ==
  ASSUME all_connections \in Seq(Peers), Once(all_connections),
         NEW i \in 1 .. Len(all_connections)
  PROVE  Position(all_connections[i]) = i
BY DEF Position, Once

\* What is after an element of the list, and what is before it.
LEMMA Neighbours ==
  ASSUME all_connections \in Seq(Peers), Once(all_connections),
         NEW k \in 1 .. Len(all_connections)
  PROVE  LET F == Following(all_connections[k])
             B == Before(all_connections[k]) IN
         /\ F \in Seq(Peers) /\ B \in Seq(Peers)
         /\ Len(F) = Len(all_connections) - k
         /\ Len(B) = k - 1
         /\ \A i \in 1 .. Len(all_connections) - k : F[i] = all_connections[k + i]
         /\ \A i \in 1 .. k - 1 : B[i] = all_connections[i]
<1> DEFINE A == all_connections
           N == Len(all_connections)
<1>1. N \in Nat /\ k \in Int /\ 1 <= k /\ k <= N /\ \A i \in 1 .. N : A[i] \in Peers
  BY LenProperties, ElementOfSeq
<1>2. Following(A[k]) = SubSeq(A, k + 1, N) /\ Before(A[k]) = SubSeq(A, 1, k - 1)
  BY PositionIs DEF Following, Before
<1> HIDE DEF A, N
<1>3. /\ SubSeq(A, k + 1, N) \in Seq(Peers)
      /\ Len(SubSeq(A, k + 1, N)) = IF k + 1 <= N THEN N - (k + 1) + 1 ELSE 0
      /\ \A i \in 1 .. N - (k + 1) + 1 : SubSeq(A, k + 1, N)[i] = A[k + 1 + i - 1]
  <2>1. k + 1 \in Int /\ N \in Int /\ \A i \in k + 1 .. N : A[i] \in Peers
    BY <1>1
  <2> QED
    BY ONLY <2>1, SubSeqProperties
<1>4. /\ SubSeq(A, 1, k - 1) \in Seq(Peers)
      /\ Len(SubSeq(A, 1, k - 1)) = IF 1 <= k - 1 THEN k - 1 - 1 + 1 ELSE 0
      /\ \A i \in 1 .. k - 1 - 1 + 1 : SubSeq(A, 1, k - 1)[i] = A[1 + i - 1]
  <2>1. 1 \in Int /\ k - 1 \in Int /\ \A i \in 1 .. k - 1 : A[i] \in Peers
    BY <1>1
  <2> QED
    BY ONLY <2>1, SubSeqProperties
<1>5. \A i \in 1 .. N - k : SubSeq(A, k + 1, N)[i] = A[k + i]
  BY <1>1, <1>3
<1>6. \A i \in 1 .. k - 1 : SubSeq(A, 1, k - 1)[i] = A[i]
  BY <1>1, <1>4
<1> QED
  BY <1>1, <1>2, <1>3, <1>4, <1>5, <1>6 DEF A, N

\* free_connection and the turn of a connection rotate the list.
LEMMA FreeRotates ==
  ASSUME all_connections \in Seq(Peers), Once(all_connections),
         NEW k \in 1 .. Len(all_connections)
  PROVE  Rotates(all_connections, k, Len(all_connections) - 1,
                 Following(all_connections[k]) \o Before(all_connections[k]))
<1> DEFINE F == Following(all_connections[k])
           B == Before(all_connections[k])
           N == Len(all_connections)
<1>1. /\ F \in Seq(Peers) /\ B \in Seq(Peers)
      /\ Len(F) = N - k /\ Len(B) = k - 1
      /\ \A i \in 1 .. N - k : F[i] = all_connections[k + i]
      /\ \A i \in 1 .. k - 1 : B[i] = all_connections[i]
  BY Neighbours
<1>2. N \in Nat /\ k \in Int /\ 1 <= k /\ k <= N
  BY LenProperties
<1> HIDE DEF F, B, N
<1>3. /\ F \o B \in Seq(Peers)
      /\ Len(F \o B) = Len(F) + Len(B)
      /\ \A i \in 1 .. Len(F) + Len(B) : (F \o B)[i] = IF i <= Len(F) THEN F[i] ELSE B[i - Len(F)]
  BY <1>1, ConcatProperties
<1>4. Len(F) + Len(B) = N - 1
  BY <1>1, <1>2
<1>5. \A i \in 1 .. N - 1 : (F \o B)[i] = IF i <= N - k THEN all_connections[k + i]
                                                       ELSE all_connections[i - (N - k)]
  BY <1>1, <1>2, <1>3, <1>4
<1> QED
  BY <1>3, <1>4, <1>5 DEF Rotates, F, B, N

LEMMA TurnRotates ==
  ASSUME all_connections \in Seq(Peers), Once(all_connections),
         NEW k \in 1 .. Len(all_connections)
  PROVE  Rotates(all_connections, k, Len(all_connections),
                 Following(all_connections[k])
                   \o Append(Before(all_connections[k]), all_connections[k]))
<1> DEFINE F == Following(all_connections[k])
           B == Before(all_connections[k])
           a == all_connections[k]
           N == Len(all_connections)
<1>1. /\ F \in Seq(Peers) /\ B \in Seq(Peers)
      /\ Len(F) = N - k /\ Len(B) = k - 1
      /\ \A i \in 1 .. N - k : F[i] = all_connections[k + i]
      /\ \A i \in 1 .. k - 1 : B[i] = all_connections[i]
  BY Neighbours
<1>2. N \in Nat /\ k \in Int /\ 1 <= k /\ k <= N /\ a \in Peers
  BY LenProperties, ElementOfSeq
<1> HIDE DEF F, B
<1>3. /\ Append(B, a) \in Seq(Peers)
      /\ Len(Append(B, a)) = k
      /\ \A i \in 1 .. k : Append(B, a)[i] = all_connections[i]
  <2>1. /\ Append(B, a) \in Seq(Peers)
        /\ Len(Append(B, a)) = Len(B) + 1
        /\ \A i \in 1 .. Len(B) : Append(B, a)[i] = B[i]
        /\ Append(B, a)[Len(B) + 1] = a
    BY <1>1, <1>2, AppendProperties
  <2> QED
    BY <1>1, <1>2, <2>1
<1> DEFINE E == Append(B, a)
<1>7. E \in Seq(Peers)
  BY <1>3
<1> HIDE DEF N, a, E
<1>4. /\ F \o E \in Seq(Peers)
      /\ Len(F \o E) = Len(F) + Len(E)
      /\ \A i \in 1 .. Len(F) + Len(E) : (F \o E)[i] = IF i <= Len(F) THEN F[i] ELSE E[i - Len(F)]
  BY <1>1, <1>7, ConcatProperties
<1>5. Len(F) + Len(E) = N
  BY <1>1, <1>2, <1>3 DEF E
<1>6. \A i \in 1 .. N : (F \o E)[i] = IF i <= N - k THEN all_connections[k + i]
                                                   ELSE all_connections[i - (N - k)]
  <2>1. \A i \in 1 .. k : E[i] = all_connections[i]
    BY <1>3 DEF E
  <2> QED
    BY <1>1, <1>2, <1>4, <1>5, <2>1
<1> QED
  BY <1>4, <1>5, <1>6 DEF Rotates, F, B, N, E, a

----------------------------------------------------------------------------
\* The server in any environment.

ServerTypes ==
  /\ connections \in [Peers -> Connection \cup {NoConnection}]
  /\ all_connections \in Seq(Peers)
  /\ rst_connection \in Reset \cup {None}
  /\ last_transmission_time \in 0 .. TickMod - 1
  /\ heap_room \in HeapConns

ServerInv == ServerTypes /\ ListIsConnections

\* The two parts of ListIsConnections.
LEMMA ListParts ==
  ListIsConnections <=> /\ Once(all_connections)
                        /\ \A p \in Peers : connections[p] # NoConnection <=> In(p, all_connections)
BY DEF ListIsConnections, Once, In

\* A connection that is none is not in the list: its peer may be added.
LEMMA AddKeepsList ==
  ASSUME ServerInv, NEW p \in Peers, NEW c \in Connection,
         connections[p] = NoConnection, add_connection(p, c)
  PROVE  ListIsConnections' /\ all_connections' \in Seq(Peers)
<1> DEFINE A == all_connections
<1>1. PICK L : L = Append(A, p)
  OBVIOUS
<1>2. /\ all_connections' = L
      /\ connections' = [connections EXCEPT ![p] = c]
  BY <1>1 DEF add_connection
<1>3. /\ L \in Seq(Peers) /\ Len(L) = Len(A) + 1 /\ Len(A) \in Nat
      /\ \A i \in 1 .. Len(A) : L[i] = A[i]
      /\ L[Len(A) + 1] = p
  BY <1>1, AppendProperties, LenProperties DEF ServerInv, ServerTypes
<1>4. Once(A) /\ ~ In(p, A)
  BY ListParts DEF ServerInv
<1>5. \A i \in 1 .. Len(L) : i \in 1 .. Len(A) \/ i = Len(A) + 1
  BY <1>3
<1>6. Once(L)
  BY <1>3, <1>4, <1>5 DEF Once, In
<1>7. \A q \in Peers : In(q, L) <=> In(q, A) \/ q = p
  <2>1. Len(A) + 1 \in 1 .. Len(L) /\ 1 .. Len(A) \subseteq 1 .. Len(L)
    BY <1>3
  <2> QED
    BY <1>3, <1>5, <2>1 DEF In
<1>8. \A q \in Peers : connections'[q] # NoConnection <=> connections[q] # NoConnection \/ q = p
  BY <1>2, ConnectionIsOne DEF ServerInv, ServerTypes
<1>9. \A q \in Peers : connections'[q] # NoConnection <=> In(q, L)
  BY <1>7, <1>8, ListParts DEF ServerInv
<1> QED
  BY <1>2, <1>3, <1>6, <1>9 DEF ListIsConnections, Once, In

\* A connection that is freed leaves the list.
LEMMA FreeKeepsList ==
  ASSUME ServerInv, NEW p \in Peers, connections[p] # NoConnection, free_connection(p)
  PROVE  ListIsConnections' /\ all_connections' \in Seq(Peers)
<1> DEFINE A == all_connections
<1>1. A \in Seq(Peers) /\ Once(A) /\ In(p, A)
  BY ListParts DEF ServerInv, ServerTypes
<1>2. PICK k \in 1 .. Len(A) : A[k] = p
  BY <1>1 DEF In
<1>3. PICK L : L = Following(p) \o Before(p)
  OBVIOUS
<1>4. /\ all_connections' = L
      /\ connections' = [connections EXCEPT ![p] = NoConnection]
  BY <1>3 DEF free_connection
<1>5. Rotates(A, k, Len(A) - 1, L)
  BY <1>1, <1>2, <1>3, FreeRotates
<1>6. /\ Once(L)
      /\ \A q \in Peers : In(q, L) <=> In(q, A) /\ (Len(A) - 1 = Len(A) \/ q # A[k])
  BY <1>1, <1>5, RotationHolds
<1>7. Len(A) \in Nat
  BY <1>1, LenProperties
<1>8. \A q \in Peers : In(q, L) <=> In(q, A) /\ q # p
  BY <1>2, <1>6, <1>7
<1>9. \A q \in Peers : connections'[q] # NoConnection <=> connections[q] # NoConnection /\ q # p
  BY <1>4 DEF ServerInv, ServerTypes
<1>10. \A q \in Peers : connections'[q] # NoConnection <=> In(q, L)
  BY <1>8, <1>9, ListParts DEF ServerInv
<1>11. L \in Seq(Peers)
  BY <1>5 DEF Rotates
<1> QED
  BY <1>4, <1>6, <1>10, <1>11 DEF ListIsConnections, Once, In

\* Steps that change no pointer of the list and neither make nor free a
\* connection.
LEMMA SameList ==
  ASSUME ServerInv, all_connections' = all_connections,
         \A p \in Peers : connections'[p] # NoConnection <=> connections[p] # NoConnection
  PROVE  ListIsConnections'
BY DEF ServerInv, ListIsConnections

LEMMA FreshTypes ==
  ASSUME ServerTypes, NEW m \in 0 .. MssMod - 1
  PROVE  FreshConnection(m) \in Connection
<1>1. 0 \in 0 .. U16 - 1 /\ 0 \in 0 .. InMod - 1
  BY U16Type, ConstantTypes
<1> QED
  BY <1>1, HandlerKinds, ConstantTypes DEF FreshConnection, Connection, ServerTypes

\* smews_receive keeps the server's invariant.
LEMMA ReceiveKeepsServer ==
  ASSUME ServerInv, NEW s \in InSegment, smews_receive(s)
  PROVE  ServerInv'
<1>0. s.peer \in Peers /\ ServerTypes
  BY DEF InSegment, ServerInv
<1>1. CASE connections[s.peer] = NoConnection
  <2>1. PICK m \in (IF s.mss = 0 THEN 0 .. MssMod - 1 ELSE {0}) :
          LET c == Processed(FreshConnection(m), s) IN
          IF c.tcp_state = "syn_rcvd" /\ Len(all_connections) < heap_room
          THEN /\ add_connection(s.peer, c)
               /\ UNCHANGED rst_connection
          ELSE /\ rst_connection' = [peer |-> s.peer,
                                     current_inseqno |-> c.current_inseqno,
                                     next_outseqno |-> s.ack]
               /\ UNCHANGED <<connections, all_connections>>
    BY <1>1 DEF smews_receive, ReceiveUnknown
  <2>2. PICK c : c = Processed(FreshConnection(m), s)
    OBVIOUS
  <2>3. m \in 0 .. MssMod - 1
    BY <2>1, ConstantTypes
  <2>4. c \in Connection
    BY <1>0, <2>2, <2>3, FreshTypes, ProcessedTypes
  <2>5. UNCHANGED <<last_transmission_time, heap_room>>
    BY DEF smews_receive
  <2>6. CASE c.tcp_state = "syn_rcvd" /\ Len(all_connections) < heap_room
    <3>1. add_connection(s.peer, c) /\ UNCHANGED rst_connection
      BY <2>1, <2>2, <2>6
    <3>2. ListIsConnections' /\ all_connections' \in Seq(Peers)
      BY <1>0, <1>1, <2>4, <3>1, AddKeepsList
    <3>3. connections' \in [Peers -> Connection \cup {NoConnection}]
      BY <1>0, <2>4, <3>1 DEF add_connection, ServerTypes
    <3> QED
      BY <1>0, <2>5, <3>1, <3>2, <3>3 DEF ServerInv, ServerTypes
  <2>7. CASE ~ (c.tcp_state = "syn_rcvd" /\ Len(all_connections) < heap_room)
    <3>1. /\ rst_connection' = [peer |-> s.peer,
                                current_inseqno |-> c.current_inseqno,
                                next_outseqno |-> s.ack]
          /\ UNCHANGED <<connections, all_connections>>
      BY <2>1, <2>2, <2>7
    <3>2. rst_connection' \in Reset
      BY <1>0, <2>4, <3>1 DEF Reset, Connection, InSegment
    <3>3. ListIsConnections'
      BY <3>1, SameList
    <3> QED
      BY <1>0, <2>5, <3>1, <3>2, <3>3 DEF ServerInv, ServerTypes
  <2> QED
    BY <2>6, <2>7
<1>2. CASE connections[s.peer] # NoConnection
  <2>1. PICK c : c = Processed(connections[s.peer], s)
    OBVIOUS
  <2>2. /\ IF c.tcp_state = "listen"
           THEN free_connection(s.peer)
           ELSE /\ connections' = [connections EXCEPT ![s.peer] = c]
                /\ UNCHANGED all_connections
        /\ UNCHANGED <<rst_connection, last_transmission_time, heap_room>>
    BY <1>2, <2>1 DEF smews_receive, ReceiveKnown
  <2>3. connections[s.peer] \in Connection
    BY <1>0, <1>2 DEF ServerTypes
  <2>4. c \in Connection /\ c # NoConnection
    BY <2>1, <2>3, ProcessedTypes, ConnectionIsOne
  <2>5. CASE c.tcp_state = "listen"
    <3>1. free_connection(s.peer)
      BY <2>2, <2>5
    <3>2. ListIsConnections' /\ all_connections' \in Seq(Peers)
      BY <1>0, <1>2, <3>1, FreeKeepsList
    <3>3. connections' \in [Peers -> Connection \cup {NoConnection}]
      BY <1>0, <3>1 DEF free_connection, ServerTypes
    <3> QED
      BY <1>0, <2>2, <3>2, <3>3 DEF ServerInv, ServerTypes
  <2>6. CASE c.tcp_state # "listen"
    <3>1. /\ connections' = [connections EXCEPT ![s.peer] = c]
          /\ UNCHANGED all_connections
      BY <2>2, <2>6
    <3>2. connections' \in [Peers -> Connection \cup {NoConnection}]
      BY <1>0, <2>4, <3>1 DEF ServerTypes
    <3>3. \A p \in Peers : connections'[p] # NoConnection <=> connections[p] # NoConnection
      BY <1>0, <1>2, <2>4, <3>1 DEF ServerTypes
    <3>4. ListIsConnections'
      BY <3>1, <3>3, SameList
    <3> QED
      BY <1>0, <2>2, <3>1, <3>2, <3>4 DEF ServerInv, ServerTypes
  <2> QED
    BY <2>5, <2>6
<1> QED
  BY <1>1, <1>2

\* A set of naturals that is not empty has a least element.
Less == {ss \in Nat \X Nat : ss[1] < ss[2]}

LEMMA Least ==
  ASSUME NEW T, T \subseteq Nat, T # {}
  PROVE  \E m \in T : \A n \in T : m <= n
<1>1. IsWellFoundedOn(Less, Nat)
  BY NatLessThanWellFounded DEF OpToRel, Less
<1>2. PICK m \in T : \A n \in T : ~ (<<n, m>> \in Less)
  BY <1>1, WFMin
<1>3. ASSUME NEW n \in T PROVE m <= n
  <2>1. n \in Nat /\ m \in Nat /\ <<n, m>> \notin Less
    BY <1>2
  <2> QED
    BY <2>1 DEF Less
<1> QED
  BY <1>3

\* smews_send takes the first connection, from the head, that can send.
LEMMA ActiveFacts ==
  ASSUME ServerInv, Candidates # {}
  PROVE  \E k \in 1 .. Len(all_connections) :
           /\ Active = all_connections[k]
           /\ Active \in Peers
           /\ connections[Active] \in Connection
           /\ able_to_send(connections[Active])
           /\ \A i \in Candidates : k <= i
<1>1. Len(all_connections) \in Nat
  BY LenProperties DEF ServerInv, ServerTypes
<1>2. Candidates \subseteq Nat
  BY <1>1 DEF Candidates
<1>3. \E i \in Candidates : \A j \in Candidates : i <= j
  BY <1>2, Least
<1>4. PICK k : k = CHOOSE i \in Candidates : \A j \in Candidates : i <= j
  OBVIOUS
<1>5. k \in Candidates /\ \A j \in Candidates : k <= j
  BY <1>3, <1>4
<1>6. Active = all_connections[k]
  BY <1>4 DEF Active
<1>7. k \in 1 .. Len(all_connections) /\ able_to_send(connections[Active])
  BY <1>5, <1>6 DEF Candidates
<1>8. Active \in Peers
  BY <1>6, <1>7, ElementOfSeq DEF ServerInv, ServerTypes
<1>9. connections[Active] # NoConnection
  BY <1>6, <1>7, <1>8 DEF ServerInv, ListIsConnections
<1> QED
  BY <1>5, <1>6, <1>7, <1>8, <1>9 DEF ServerInv, ServerTypes

\* smews_send keeps the server's invariant.
LEMMA SendKeepsServer ==
  ASSUME ServerInv, smews_send
  PROVE  ServerInv'
<1>0. UNCHANGED <<last_transmission_time, heap_room>>
  BY DEF smews_send
<1>1. CASE SendReset
  <2>1. rst_connection' = None /\ UNCHANGED <<connections, all_connections>>
    BY <1>1 DEF SendReset
  <2>2. ListIsConnections'
    BY <2>1, SameList
  <2> QED
    BY <1>0, <2>1, <2>2 DEF ServerInv, ServerTypes
<1>2. CASE SendConnection
  <2> DEFINE A == all_connections
  <2>1. PICK k \in 1 .. Len(A) : /\ Active = A[k]
                                 /\ Active \in Peers
                                 /\ connections[Active] \in Connection
    BY <1>2, ActiveFacts DEF SendConnection
  <2>2. PICK p : p = Active
    OBVIOUS
  <2>3. PICK L : L = Following(p) \o Append(Before(p), p)
    OBVIOUS
  <2>4. PICK c : c = Sent(p, connections[p])
    OBVIOUS
  <2>5. /\ connections' = [connections EXCEPT ![p] = c]
        /\ all_connections' = L
        /\ rst_connection' = rst_connection
    BY <1>2, <2>2, <2>3, <2>4 DEF SendConnection
  <2>6. ServerTypes /\ A \in Seq(Peers) /\ Once(A) /\ p = A[k] /\ p \in Peers
    BY <2>1, <2>2, ListParts DEF ServerInv, ServerTypes
  <2>7. c \in Connection /\ connections[p] # NoConnection
    BY <2>1, <2>2, <2>4, <2>6, SentTypes, ConnectionIsOne DEF ServerTypes
  <2>8. Rotates(A, k, Len(A), L)
    BY <2>3, <2>6, TurnRotates
  <2>9. Once(L) /\ \A q \in Peers : In(q, L) <=> In(q, A)
    BY <2>6, <2>8, RotationHolds
  <2>10. \A q \in Peers : connections'[q] # NoConnection <=> connections[q] # NoConnection
    BY <2>5, <2>6, <2>7, ConnectionIsOne DEF ServerTypes
  <2>11. \A q \in Peers : connections'[q] # NoConnection <=> In(q, L)
    BY <2>9, <2>10, ListParts DEF ServerInv
  <2>12. ListIsConnections'
    BY <2>5, <2>9, <2>11 DEF ListIsConnections, Once, In
  <2>13. L \in Seq(Peers)
    BY <2>8 DEF Rotates
  <2>14. connections' \in [Peers -> Connection \cup {NoConnection}]
    BY <2>5, <2>6, <2>7 DEF ServerTypes
  <2> QED
    BY <1>0, <2>5, <2>6, <2>12, <2>13, <2>14 DEF ServerInv, ServerTypes
<1> QED
  BY <1>1, <1>2 DEF smews_send

\* smews_retransmit keeps the server's invariant.
LEMMA RetransmitKeepsServer ==
  ASSUME ServerInv, smews_retransmit
  PROVE  ServerInv'
<1>1. PICK now : now = (last_transmission_time + 1) % TickMod
  OBVIOUS
<1>2. now \in 0 .. TickMod - 1
  BY <1>1, Remainder, ConstantTypes DEF ServerInv, ServerTypes
<1>3. /\ last_transmission_time' = now
      /\ connections' = [p \in Peers |-> RolledBack(connections[p], now)]
      /\ UNCHANGED <<all_connections, rst_connection, heap_room>>
  BY <1>1 DEF smews_retransmit
<1>4. \A p \in Peers : /\ connections'[p] \in Connection \cup {NoConnection}
                       /\ connections'[p] = NoConnection <=> connections[p] = NoConnection
  BY <1>2, <1>3, RolledBackTypes DEF ServerInv, ServerTypes
<1>5. ListIsConnections'
  BY <1>3, <1>4, SameList
<1> QED
  BY <1>2, <1>3, <1>4, <1>5 DEF ServerInv, ServerTypes

LEMMA InitServer == Init => ServerInv
<1> SUFFICES ASSUME Init PROVE ServerInv
  OBVIOUS
<1>1. << >> \in Seq(Peers) /\ Len(<< >>) = 0
  BY EmptySeq
<1>2. 1 % TickMod \in 0 .. TickMod - 1
  BY Remainder, ConstantTypes
<1> QED
  BY <1>1, <1>2 DEF Init, ServerInv, ServerTypes, ListIsConnections

LEMMA ServerStep == ServerInv /\ [ServerNext]_server => ServerInv'
<1> SUFFICES ASSUME ServerInv, [ServerNext]_server PROVE ServerInv'
  OBVIOUS
<1>1. CASE UNCHANGED server
  BY <1>1 DEF server, ServerInv, ServerTypes, ListIsConnections
<1> QED
  BY <1>1, ReceiveKeepsServer, SendKeepsServer, RetransmitKeepsServer DEF ServerNext

\* Whatever segments arrive, the circular list of the server holds each of
\* its connections once, and nothing else: smews_send finds every connection
\* that has something to send, and no freed one.
THEOREM ServerListIsConnections == ServerSpec => []ListIsConnections
<1>1. ServerInv => ListIsConnections
  BY DEF ServerInv
<1> QED
  BY InitServer, ServerStep, <1>1, PTL DEF ServerSpec

\* A connection that can send and is not chosen comes closer to the head.
LEMMA TurnMoves ==
  ASSUME ServerInv, SendConnection, NEW q \in Peers,
         connections[q] # NoConnection, able_to_send(connections[q]), q # Active
  PROVE  Position(q)' < Position(q)
<1> DEFINE A == all_connections
<1>1. PICK k \in 1 .. Len(A) : /\ Active = A[k]
                               /\ Active \in Peers
                               /\ \A i \in Candidates : k <= i
  BY ActiveFacts DEF SendConnection
<1>2. A \in Seq(Peers) /\ Once(A) /\ In(q, A)
  BY ListParts DEF ServerInv, ServerTypes
<1>3. PICK j \in 1 .. Len(A) : A[j] = q
  BY <1>2 DEF In
<1>4. j \in Candidates /\ j # k
  BY <1>1, <1>3 DEF Candidates
<1>5. Len(A) \in Nat /\ k \in Int /\ j \in Int /\ 1 <= k /\ k < j /\ j <= Len(A)
  BY <1>1, <1>2, <1>3, <1>4, LenProperties
<1>6. Position(q) = j
  BY <1>2, <1>3, PositionIs
<1>7. PICK L : L = Following(Active) \o Append(Before(Active), Active)
  OBVIOUS
<1>8. all_connections' = L
  BY <1>7 DEF SendConnection
<1>9. Rotates(A, k, Len(A), L)
  BY <1>1, <1>2, <1>7, TurnRotates
<1>10. Once(L) /\ Len(L) = Len(A)
  BY <1>2, <1>9, RotationHolds DEF Rotates
<1>11. j - k \in 1 .. Len(L) /\ L[j - k] = q
  BY <1>3, <1>5, <1>9, <1>10 DEF Rotates
<1>12. Position(q)' = CHOOSE i \in 1 .. Len(L) : L[i] = q
  BY <1>8 DEF Position
<1>13. (CHOOSE i \in 1 .. Len(L) : L[i] = q) = j - k
  BY <1>10, <1>11 DEF Once
<1>14. Position(q)' = j - k
  BY <1>12, <1>13
<1>15. j - k < j
  BY <1>5
<1> QED
  BY <1>6, <1>14, <1>15

\* Connections take turns, whatever arrives in between: each segment of
\* another client brings a connection that can send closer to the head.
THEOREM ServerTakesTurns == ServerSpec => TakeTurns
<1>1. ServerInv /\ [ServerNext]_server
        => [SendConnection => \A p \in Peers :
              (/\ connections[p] # NoConnection
               /\ able_to_send(connections[p])
               /\ p # Active)
              => Position(p)' < Position(p)]_server
  BY TurnMoves
<1> QED
  BY InitServer, ServerStep, <1>1, PTL DEF ServerSpec, TakeTurns

----------------------------------------------------------------------------
\* Sequence numbers.  The clients of Client acknowledge nothing before the
\* SYN-ACK, and the SYN-ACK has the first sequence number.

\* What the segments of the clients are.
Sensible(s) ==
  /\ s.ack = 0 \/ s.ack > BASIC_SEQNO
  /\ s.flag = "SYN" => s.ack = 0 /\ s.len = 0
  /\ s.ack = 0 => s.flag \in {"SYN", "RST"} /\ s.len = 0

\* A connection never goes beyond the end of its answer; while its SYN-ACK
\* is to be sent or acknowledged it is where it began.
Numbers(c) ==
  /\ c.output_handler \in Files => c.next_outseqno <= c.final_outseqno
                                   /\ c.tcp_state # "syn_rcvd"
  /\ c.output_handler = "ref_synack" => c.next_outseqno = BASIC_SEQNO
  /\ c.tcp_state = "syn_rcvd" => c.next_outseqno \in {BASIC_SEQNO, BASIC_SEQNO + 1}
  /\ c.output_handler = "ref_synack" \/ c.tcp_state = "syn_rcvd"
       => c.inflight = 0 /\ c.parsing_state = "out"

\* The copy of a client without a connection.
Begins(c) ==
  /\ c.next_outseqno = BASIC_SEQNO /\ c.inflight = 0
  /\ c.output_handler = None /\ c.parsing_state = "out"

\* A connection that smews_receive reads, or starts with.
Readable(c) == /\ c \in Connection
               /\ Numbers(c)
               /\ c.tcp_state = "listen" => Begins(c)

\* No control handler is that of a file, and "ref_synack" is one.
LEMMA SynackIsControl ==
  /\ "ref_synack" \in Control /\ "ref_synack" \notin Files /\ "ref_synack" # None
  /\ "ref_ack" \notin Files /\ "ref_ack" # None
  /\ "ref_finack" \notin Files /\ "ref_finack" # None
BY HandlerKinds DEF Control

\* The acknowledgment of a segment changes the numbers and the handler only:
\* the numbers go back or stay.
LEMMA AckNumbers ==
  ASSUME NEW c \in Connection, NEW s \in InSegment
  PROVE  LET d == DuplicateAck(c, s)
             a == AckManagement(d, s)
             k == ClearHandler(a) IN
         /\ \/ d.next_outseqno = c.next_outseqno
            \/ s.ack = c.next_outseqno - c.inflight /\ d.next_outseqno = s.ack
         /\ d.inflight = c.inflight
         /\ IF s.ack # 0 /\ s.ack <= d.next_outseqno
            THEN a.inflight = (d.next_outseqno - s.ack) % U16
            ELSE a.inflight = d.inflight
         /\ a.next_outseqno = d.next_outseqno
         /\ k.next_outseqno = a.next_outseqno /\ k.inflight = a.inflight
         /\ k.output_handler = c.output_handler \/ k.output_handler = None
         /\ k.final_outseqno = c.final_outseqno
         /\ k.tcp_state = c.tcp_state
         /\ k.parsing_state = c.parsing_state
         /\ k.cwnd = c.cwnd
<1> DEFINE d == DuplicateAck(c, s)
           a == AckManagement(d, s)
           k == ClearHandler(a)
<1>1. d = c \/ d = [c EXCEPT !.next_outseqno = s.ack]
  BY DEF DuplicateAck
<1>2. /\ \/ d.next_outseqno = c.next_outseqno
         \/ s.ack = c.next_outseqno - c.inflight /\ d.next_outseqno = s.ack
      /\ d.inflight = c.inflight /\ d.final_outseqno = c.final_outseqno
      /\ d.tcp_state = c.tcp_state /\ d.parsing_state = c.parsing_state
      /\ d.cwnd = c.cwnd /\ d.output_handler = c.output_handler
      /\ d \in Connection
  <2>1. d \in Connection
    BY DEF DuplicateAck, Connection, InSegment
  <2>2. CASE d = c
    BY <2>2
  <2>3. CASE d # c
    <3>1. d = [c EXCEPT !.next_outseqno = s.ack] /\ s.ack = c.next_outseqno - c.inflight
      BY <2>3 DEF DuplicateAck, Connection, InSegment
    <3> HIDE DEF d
    <3> QED
      BY <2>1, <3>1 DEF Connection
  <2> QED
    BY <2>2, <2>3
<1> HIDE DEF d
<1>3. /\ a.next_outseqno = d.next_outseqno
      /\ IF s.ack # 0 /\ s.ack <= d.next_outseqno
         THEN a.inflight = (d.next_outseqno - s.ack) % U16
         ELSE a.inflight = d.inflight
      /\ a.final_outseqno = d.final_outseqno
      /\ a.tcp_state = d.tcp_state /\ a.parsing_state = d.parsing_state
      /\ a.cwnd = d.cwnd /\ a.output_handler = d.output_handler
  <2> DEFINE n == (d.next_outseqno - s.ack) % U16
  <2>1. a = IF s.ack # 0 /\ s.ack <= d.next_outseqno THEN [d EXCEPT !.inflight = n] ELSE d
    BY DEF AckManagement
  <2> HIDE DEF n
  <2>2. [d EXCEPT !.inflight = n].inflight = n
    BY <1>2 DEF Connection
  <2> QED
    BY <1>2, <2>1, <2>2 DEF Connection, n
<1>4. \/ a = d
      \/ a = [d EXCEPT !.inflight = (d.next_outseqno - s.ack) % U16]
  BY DEF AckManagement
<1> HIDE DEF a
<1>5. k = a \/ k = [a EXCEPT !.output_handler = None]
  BY DEF ClearHandler
<1>6. DOMAIN a = DOMAIN d /\ a = [x \in DOMAIN a |-> a[x]]
  BY <1>2, <1>4 DEF Connection
<1>7. DOMAIN d = {"tcp_state", "output_handler", "next_outseqno", "final_outseqno",
                  "current_inseqno", "inflight", "cwnd", "tcp_mss", "parsing_state",
                  "transmission_time"}
  BY <1>2 DEF Connection
<1>8. /\ k.next_outseqno = a.next_outseqno /\ k.inflight = a.inflight
      /\ k.output_handler = a.output_handler \/ k.output_handler = None
      /\ k.final_outseqno = a.final_outseqno
      /\ k.tcp_state = a.tcp_state /\ k.parsing_state = a.parsing_state
      /\ k.cwnd = a.cwnd
  BY <1>5, <1>6, <1>7
<1> QED
  BY <1>2, <1>3, <1>8 DEF k, a, d

\* The numbers, the window and what is read of a request.
Same(c, d) ==
  /\ d.next_outseqno = c.next_outseqno /\ d.inflight = c.inflight
  /\ d.final_outseqno = c.final_outseqno
  /\ d.parsing_state = c.parsing_state
  /\ d.cwnd = c.cwnd

\* The state machine changes the state and the handler only.
Moved(c, d, s) ==
  /\ Same(c, d)
  /\ \/ d.tcp_state = c.tcp_state /\ d.output_handler = c.output_handler
     \/ d.tcp_state = "last_ack" /\ d.output_handler = "ref_finack"
     \/ d.tcp_state = "listen"
     \/ /\ d.tcp_state = "syn_rcvd" /\ d.output_handler = "ref_synack"
        /\ \/ c.tcp_state = "listen" /\ s.flag = "SYN"
           \/ c.tcp_state = "syn_rcvd" /\ c.inflight # 0
     \/ /\ d.tcp_state = "established" /\ d.output_handler = c.output_handler
        /\ c.tcp_state = "syn_rcvd"
  /\ c.tcp_state = "listen" => d.tcp_state \in {"listen", "syn_rcvd"}

LEMMA MachineNumbers ==
  ASSUME NEW c \in Connection, NEW s \in InSegment
  PROVE  Moved(c, TcpStateMachine(c, s), s)
<1>1. SeqEnd(s) \in 0 .. InMod - 1
  BY ConstantTypes, Remainder DEF SeqEnd, InSegment
<1>2. PICK e : e = [c EXCEPT !.current_inseqno = SeqEnd(s)]
  OBVIOUS
<1>3. /\ e \in Connection /\ Same(c, e)
      /\ e.tcp_state = c.tcp_state /\ e.output_handler = c.output_handler
      /\ e.inflight = c.inflight
  BY <1>1, <1>2 DEF Connection, Same
<1>4. PICK i : i = (e.current_inseqno + 1) % InMod
  OBVIOUS
<1>5. PICK d : d = Transition(e, s)
  OBVIOUS
<1>6. ASSUME Moved(e, d, s) PROVE Moved(c, TcpStateMachine(c, s), s)
  <2>1. TcpStateMachine(c, s) = d \/ TcpStateMachine(c, s) = c
    BY <1>2, <1>5 DEF TcpStateMachine
  <2>2. Moved(c, d, s)
    BY <1>3, <1>6 DEF Moved, Same
  <2>3. Moved(c, c, s)
    BY DEF Moved, Same
  <2> QED
    BY <2>1, <2>2, <2>3
<1>7. CASE e.tcp_state = "established" /\ s.flag = "FIN"
  <2>1. d = [e EXCEPT !.tcp_state = "last_ack", !.output_handler = "ref_finack",
                      !.current_inseqno = i]
    BY <1>4, <1>5, <1>7 DEF Transition
  <2>2. Moved(e, d, s)
    BY <1>3, <1>7, <2>1 DEF Moved, Connection, Same
  <2> QED
    BY <1>6, <2>2
<1>8. CASE e.tcp_state = "listen" /\ s.flag = "SYN"
  <2>1. d = [e EXCEPT !.tcp_state = "syn_rcvd", !.output_handler = "ref_synack",
                      !.current_inseqno = i]
    BY <1>4, <1>5, <1>8 DEF Transition
  <2>2. Moved(e, d, s)
    BY <1>3, <1>8, <2>1 DEF Moved, Connection, Same
  <2> QED
    BY <1>6, <2>2
<1>9. CASE e.tcp_state = "syn_rcvd" /\ e.inflight = 0
  <2>1. d = [e EXCEPT !.tcp_state = "established"]
    BY <1>5, <1>9 DEF Transition
  <2>2. Moved(e, d, s)
    BY <1>3, <1>9, <2>1 DEF Moved, Connection, Same
  <2> QED
    BY <1>6, <2>2
<1>10. CASE e.tcp_state = "syn_rcvd" /\ e.inflight # 0
  <2>1. d = [e EXCEPT !.output_handler = "ref_synack"]
    BY <1>5, <1>10 DEF Transition
  <2>2. Moved(e, d, s)
    BY <1>3, <1>10, <2>1 DEF Moved, Connection, Same
  <2> QED
    BY <1>6, <2>2
<1>11. CASE (e.tcp_state = "established" /\ s.flag = "RST") \/ e.tcp_state = "last_ack"
  <2>1. d = [e EXCEPT !.tcp_state = "listen"]
    BY <1>5, <1>11 DEF Transition
  <2>2. Moved(e, d, s)
    BY <1>3, <1>11, <2>1 DEF Moved, Connection, Same
  <2> QED
    BY <1>6, <2>2
<1>12. CASE /\ ~ (e.tcp_state = "established" /\ s.flag \in {"FIN", "RST"})
            /\ ~ (e.tcp_state = "listen" /\ s.flag = "SYN")
            /\ e.tcp_state \notin {"syn_rcvd", "last_ack"}
  <2>1. d = e
    BY <1>5, <1>12 DEF Transition
  <2>2. Moved(e, d, s)
    BY <2>1 DEF Moved, Same
  <2> QED
    BY <1>6, <2>2
<1> QED
  BY <1>7, <1>8, <1>9, <1>10, <1>11, <1>12

\* The window is the one of the segment.
LEMMA WindowNumbers ==
  ASSUME NEW c \in Connection, NEW s \in InSegment
  PROVE  LET d == WindowAndMss(c, s) IN
         /\ d.next_outseqno = c.next_outseqno /\ d.inflight = c.inflight
         /\ d.final_outseqno = c.final_outseqno
         /\ d.parsing_state = c.parsing_state
         /\ d.tcp_state = c.tcp_state /\ d.output_handler = c.output_handler
         /\ d.cwnd = s.cwnd
<1>1. PICK m : m = (IF s.mss > MAX_MSS THEN MAX_MSS ELSE s.mss) % MssMod
  OBVIOUS
<1>2. WindowAndMss(c, s) = [c EXCEPT !.cwnd = s.cwnd, !.tcp_mss = IF s.mss = 0 THEN @ ELSE m]
  BY <1>1 DEF WindowAndMss
<1> QED
  BY <1>2 DEF Connection

\* What a request makes of the handler: none, or one that answers from the
\* sequence number the client expects.
Installed(c, d, s) ==
  /\ d.next_outseqno = s.ack /\ d.inflight = c.inflight /\ d.cwnd = c.cwnd
  /\ d.tcp_state = c.tcp_state /\ d.parsing_state = "out"
  /\ \/ /\ d.output_handler \in Files
        /\ d.final_outseqno = s.ack + Length[d.output_handler]
     \/ /\ d.output_handler \notin Files
        /\ d.output_handler = c.output_handler /\ c.parsing_state = "url"

LEMMA InstallNumbers ==
  ASSUME NEW c \in Connection, NEW h \in Handlers, NEW s \in InSegment,
         h \in Files \/ (h = c.output_handler /\ c.parsing_state = "url")
  PROVE  Installed(c, Install(c, h, s), s)
<1>1. PICK f : f = IF h \in Files THEN s.ack + Length[h] ELSE s.ack - 1
  OBVIOUS
<1>2. Install(c, h, s) = [c EXCEPT !.output_handler = h, !.next_outseqno = s.ack,
                                   !.final_outseqno = f, !.parsing_state = "out"]
  BY <1>1 DEF Install
<1> QED
  BY <1>1, <1>2 DEF Installed, Connection

LEMMA RequestNumbers ==
  ASSUME NEW c \in Connection, NEW s \in InSegment, NEW b \in BOOLEAN
  PROVE  LET d == HttpRequest(c, s, b) IN
         \/ d = c
         \/ /\ c.tcp_state = "established" /\ s.len > 0
            /\ \/ /\ d.next_outseqno = c.next_outseqno /\ d.inflight = c.inflight
                  /\ d.cwnd = c.cwnd /\ d.tcp_state = c.tcp_state
                  /\ d.output_handler = None
               \/ Installed(c, d, s)
<1> SUFFICES ASSUME c.tcp_state = "established", s.len > 0
             PROVE  LET d == Parse(c, s) IN
                    \/ /\ d.next_outseqno = c.next_outseqno /\ d.inflight = c.inflight
                       /\ d.cwnd = c.cwnd /\ d.tcp_state = c.tcp_state
                       /\ d.output_handler = None
                    \/ Installed(c, d, s)
  BY DEF HttpRequest
<1>1. /\ s.text.file \in Files /\ NotFound \in Files /\ Files \subseteq Handlers
      /\ None \in Handlers /\ c.output_handler \in Handlers
      /\ c.parsing_state \in {"out", "url"}
  BY HandlerKinds, ConstantTypes DEF InSegment, Text, Connection
<1>2. CASE c.parsing_state = "out"
  <2>1. PICK e : e = [c EXCEPT !.output_handler = None]
    OBVIOUS
  <2>2. /\ e \in Connection /\ Same(c, e) /\ e.tcp_state = c.tcp_state
        /\ e.output_handler = None
    BY <1>1, <2>1 DEF Connection, Same
  <2>3. Parse(c, s) = ParseCommand(e, s)
    BY <1>2, <2>1 DEF Parse
  <2>4. CASE s.text.from # 1
    BY <2>2, <2>3, <2>4 DEF ParseCommand, Same
  <2>5. CASE s.text.from = 1 /\ s.text.to = 1
    <3>1. Parse(c, s) = [e EXCEPT !.parsing_state = "url"]
      BY <2>3, <2>5 DEF ParseCommand
    <3> QED
      BY <2>2, <3>1 DEF Connection, Same
  <2>6. CASE s.text.from = 1 /\ s.text.to # 1
    <3>1. Parse(c, s) = Install(e, s.text.file, s)
      BY <2>3, <2>6 DEF ParseCommand
    <3>2. Installed(e, Install(e, s.text.file, s), s)
      BY <1>1, <2>2, InstallNumbers
    <3>3. e.parsing_state = "out"
      BY <1>2, <2>2 DEF Same
    <3> QED
      BY <2>2, <3>1, <3>2, <3>3 DEF Installed, Same
  <2> QED
    BY <2>4, <2>5, <2>6
<1>3. CASE c.parsing_state = "url"
  <2>1. Parse(c, s) = ParseUrl(c, s)
    BY <1>3 DEF Parse
  <2>2. \/ Parse(c, s) = Install(c, NotFound, s)
        \/ Parse(c, s) = Install(c, s.text.file, s)
        \/ Parse(c, s) = Install(c, c.output_handler, s)
    BY <2>1 DEF ParseUrl
  <2> QED
    BY <1>1, <1>3, <2>2, InstallNumbers
<1> QED
  BY <1>1, <1>2, <1>3

LEMMA AcknowledgeNumbers ==
  ASSUME NEW c \in Connection, NEW s \in InSegment
  PROVE  LET d == Acknowledge(c, s) IN
         \/ d = c
         \/ Same(c, d) /\ d.tcp_state = c.tcp_state /\ d.tcp_state = "established"
            /\ d.output_handler = "ref_ack"
BY DEF Acknowledge, Same, Connection

\* The steps of smews_receive: what each one gives to the next.
Stages(c, s, a, t, u, h, r) ==
  /\ a = ClearHandler(AckManagement(DuplicateAck(c, s), s))
  /\ t = TcpStateMachine(a, s)
  /\ u = WindowAndMss(t, s)
  /\ h = HttpRequest(u, s, NewTcpData(a, s))
  /\ r = Acknowledge(h, s)
  /\ r = Processed(c, s)

LEMMA ProcessedStages ==
  ASSUME NEW c \in Connection, NEW s \in InSegment
  PROVE  \E a, t, u, h, r \in Connection : Stages(c, s, a, t, u, h, r)
<1>1. PICK a : a = ClearHandler(AckManagement(DuplicateAck(c, s), s))
  OBVIOUS
<1>2. PICK t : t = TcpStateMachine(a, s)
  OBVIOUS
<1>3. PICK u : u = WindowAndMss(t, s)
  OBVIOUS
<1>4. PICK h : h = HttpRequest(u, s, NewTcpData(a, s))
  OBVIOUS
<1>5. PICK r : r = Acknowledge(h, s)
  OBVIOUS
<1>6. r = Processed(c, s)
  BY <1>1, <1>2, <1>3, <1>4, <1>5 DEF Processed
<1>7. a \in Connection
  BY <1>1, AckTypes
<1>8. t \in Connection
  BY <1>2, <1>7, MachineTypes
<1>9. u \in Connection
  BY <1>3, <1>8, WindowTypes
<1>10. h \in Connection
  BY <1>4, <1>9, ParseTypes DEF HttpRequest
<1>11. r \in Connection
  BY <1>6, ProcessedTypes
<1> QED
  BY <1>1, <1>2, <1>3, <1>4, <1>5, <1>6, <1>7, <1>8, <1>9, <1>10, <1>11 DEF Stages

\* A connection keeps its numbers in order when a segment is received.
LEMMA ReceiveNumbers ==
  ASSUME NEW c, Readable(c), NEW s \in InSegment, Sensible(s),
         Processed(c, s).tcp_state # "listen"
  PROVE  Numbers(Processed(c, s))
<1>0. c \in Connection /\ Numbers(c) /\ (c.tcp_state = "listen" => Begins(c))
  BY DEF Readable
<1>1. PICK a, t, u, h, r \in Connection : Stages(c, s, a, t, u, h, r)
  BY <1>0, ProcessedStages
<1>2. \A x \in Connection : /\ x.next_outseqno \in Int /\ x.inflight \in Int /\ 0 <= x.inflight
                            /\ x.final_outseqno \in Int
  BY U16Type DEF Connection
<1>3. s.ack \in Int /\ 0 <= s.ack /\ BASIC_SEQNO \in Int /\ BASIC_SEQNO > 0
  BY ConstantTypes, SmewsAssumption DEF InSegment
<1>4. /\ a.next_outseqno <= c.next_outseqno
      /\ a.output_handler = c.output_handler \/ a.output_handler = None
      /\ a.final_outseqno = c.final_outseqno
      /\ a.tcp_state = c.tcp_state
      /\ a.parsing_state = c.parsing_state
  <2>1. PICK d : d = DuplicateAck(c, s)
    OBVIOUS
  <2>2. /\ \/ d.next_outseqno = c.next_outseqno
           \/ s.ack = c.next_outseqno - c.inflight /\ d.next_outseqno = s.ack
        /\ a.next_outseqno = d.next_outseqno
        /\ a.output_handler = c.output_handler \/ a.output_handler = None
        /\ a.final_outseqno = c.final_outseqno
        /\ a.tcp_state = c.tcp_state
        /\ a.parsing_state = c.parsing_state
    BY <1>0, <1>1, <2>1, AckNumbers DEF Stages
  <2> QED
    BY <1>0, <1>2, <1>3, <2>2
<1>5. ASSUME c.next_outseqno \in {BASIC_SEQNO, BASIC_SEQNO + 1}, c.inflight = 0
      PROVE  a.next_outseqno = c.next_outseqno /\ a.inflight = 0
  <2>1. PICK d : d = DuplicateAck(c, s)
    OBVIOUS
  <2>2. /\ \/ d.next_outseqno = c.next_outseqno
           \/ s.ack = c.next_outseqno - c.inflight /\ d.next_outseqno = s.ack
        /\ d.inflight = c.inflight
        /\ IF s.ack # 0 /\ s.ack <= d.next_outseqno
           THEN a.inflight = (d.next_outseqno - s.ack) % U16
           ELSE a.inflight = d.inflight
        /\ a.next_outseqno = d.next_outseqno
    BY <1>0, <1>1, <2>1, AckNumbers DEF Stages
  <2>3. d.next_outseqno = c.next_outseqno
    BY <1>0, <1>2, <1>5, <2>2
  <2>4. CASE s.ack # 0 /\ s.ack <= d.next_outseqno
    <3>1. d.next_outseqno - s.ack = 0
      BY <1>0, <1>2, <1>3, <1>5, <2>3, <2>4 DEF Sensible
    <3>2. 0 % U16 = 0
      BY DEF U16
    <3> QED
      BY <2>2, <2>3, <2>4, <3>1, <3>2
  <2> QED
    BY <1>5, <2>2, <2>3, <2>4
<1>6. Moved(a, t, s)
  BY <1>1, MachineNumbers DEF Stages
<1>7. /\ u.next_outseqno = t.next_outseqno /\ u.inflight = t.inflight
      /\ u.final_outseqno = t.final_outseqno
      /\ u.parsing_state = t.parsing_state
      /\ u.tcp_state = t.tcp_state /\ u.output_handler = t.output_handler
  BY <1>1, WindowNumbers DEF Stages
<1>8. \/ h = u
      \/ /\ u.tcp_state = "established" /\ h.tcp_state = "established"
         /\ \/ h.output_handler = None
            \/ Installed(u, h, s)
  <2>1. NewTcpData(a, s) \in BOOLEAN
    BY DEF NewTcpData
  <2>2. \/ h = u
        \/ /\ u.tcp_state = "established" /\ s.len > 0
           /\ \/ /\ h.next_outseqno = u.next_outseqno /\ h.inflight = u.inflight
                 /\ h.cwnd = u.cwnd /\ h.tcp_state = u.tcp_state
                 /\ h.output_handler = None
              \/ Installed(u, h, s)
    BY <1>1, <2>1, RequestNumbers DEF Stages
  <2> QED
    BY <2>2 DEF Installed
<1>9. \/ r = h
      \/ r.tcp_state = "established" /\ r.output_handler = "ref_ack"
  <2>1. \/ r = h
        \/ Same(h, r) /\ r.tcp_state = h.tcp_state /\ r.tcp_state = "established"
           /\ r.output_handler = "ref_ack"
    <3>1. r = Acknowledge(h, s)
      BY <1>1 DEF Stages
    <3> QED
      BY <3>1, AcknowledgeNumbers
  <2> QED
    BY <2>1
<1>10. r.tcp_state # "listen" /\ r = Processed(c, s)
  BY <1>1 DEF Stages
<1>11. CASE r # h
  BY <1>9, <1>10, <1>11, SynackIsControl DEF Numbers
<1>12. CASE r = h /\ h # u /\ h.output_handler = None
  BY <1>8, <1>10, <1>12, SynackIsControl, HandlerKinds DEF Numbers
<1>13. u.tcp_state # "listen" => Numbers(u)
  <2>1. CASE c.output_handler = "ref_synack" \/ c.tcp_state \in {"syn_rcvd", "listen"}
    <3>1. /\ c.next_outseqno \in {BASIC_SEQNO, BASIC_SEQNO + 1} /\ c.inflight = 0
          /\ c.parsing_state = "out"
          /\ c.output_handler \notin Files
      BY <1>0, <2>1, SynackIsControl, HandlerKinds DEF Numbers, Begins
    <3>2. /\ a.next_outseqno = c.next_outseqno /\ a.inflight = 0
          /\ a.parsing_state = "out" /\ a.output_handler \notin Files
      BY <1>4, <1>5, <3>1, HandlerKinds
    <3>3. /\ t.next_outseqno = c.next_outseqno /\ t.inflight = 0 /\ t.parsing_state = "out"
      BY <1>6, <3>2 DEF Moved, Same
    <3>4. t.tcp_state # "listen" => t.output_handler \notin Files
      BY <1>6, <3>2, SynackIsControl DEF Moved
    <3>5. t.tcp_state # "listen" /\ t.output_handler = "ref_synack"
            => c.next_outseqno = BASIC_SEQNO
      <4>1. CASE c.output_handler = "ref_synack" \/ c.tcp_state = "listen"
        BY <1>0, <4>1 DEF Numbers, Begins
      <4>2. CASE c.output_handler # "ref_synack" /\ c.tcp_state # "listen"
        BY <1>4, <1>6, <3>2, <4>2, SynackIsControl DEF Moved, Same
      <4> QED
        BY <4>1, <4>2
    <3> QED
      BY <1>7, <3>1, <3>3, <3>4, <3>5 DEF Numbers
  <2>2. CASE ~ (c.output_handler = "ref_synack" \/ c.tcp_state \in {"syn_rcvd", "listen"})
    <3>1. a.output_handler # "ref_synack" /\ a.tcp_state \notin {"syn_rcvd", "listen"}
      BY <1>4, <2>2, SynackIsControl
    <3>2. t.tcp_state # "listen"
            => /\ t.output_handler # "ref_synack" /\ t.tcp_state # "syn_rcvd"
               /\ t.output_handler \in Files => t.output_handler = c.output_handler
      BY <1>4, <1>6, <3>1, SynackIsControl, HandlerKinds DEF Moved
    <3>3. t.next_outseqno <= c.next_outseqno /\ t.final_outseqno = c.final_outseqno
      BY <1>4, <1>6 DEF Moved, Same
    <3>4. t.tcp_state # "listen" /\ t.output_handler \in Files
            => t.next_outseqno <= t.final_outseqno
      <4>1. c.output_handler \in Files => c.next_outseqno <= c.final_outseqno
        BY <1>0 DEF Numbers
      <4> QED
        BY <1>0, <1>2, <3>2, <3>3, <4>1
    <3> QED
      BY <1>7, <3>2, <3>4 DEF Numbers
  <2> QED
    BY <2>1, <2>2
<1>14. CASE r = h /\ h = u
  BY <1>10, <1>13, <1>14
<1>15. CASE r = h /\ h # u /\ h.output_handler # None
  <2>1. Installed(u, h, s) /\ u.tcp_state = "established" /\ h.tcp_state = "established"
    BY <1>8, <1>15
  <2>2. CASE h.output_handler \in Files
    <3>1. h.next_outseqno = s.ack /\ h.final_outseqno = s.ack + Length[h.output_handler]
      BY <2>1, <2>2, <1>14, HandlerKinds DEF Installed
    <3>2. Length[h.output_handler] \in Nat
      BY <2>2, SmewsAssumption
    <3> QED
      BY <1>3, <1>10, <1>15, <2>1, <2>2, <3>1, <3>2, SynackIsControl DEF Numbers
  <2>3. CASE h.output_handler \notin Files
    <3>1. h.output_handler = u.output_handler /\ u.parsing_state = "url"
      BY <2>1, <2>3 DEF Installed
    <3>2. u.output_handler # "ref_synack"
      BY <1>13, <2>1, <3>1 DEF Numbers
    <3> QED
      BY <1>10, <1>15, <2>1, <2>3, <3>1, <3>2 DEF Numbers
  <2> QED
    BY <2>2, <2>3
<1> QED
  BY <1>11, <1>12, <1>14, <1>15

----------------------------------------------------------------------------
\* Windows.

\* A connection c that answers keeps within the end e of its client's window:
\* with all that is in flight, for the window it knows and for one at least
\* of those that the client advertises.
Within(c, e) ==
  c.output_handler \in Files =>
    /\ c.next_outseqno <= e
    /\ c.next_outseqno - c.inflight + c.cwnd <= e
    /\ \E w \in Windows : c.next_outseqno - c.inflight + w <= e

\* A segment offers no more than its client has, and is not so old that its
\* acknowledgment is 64 KB behind.
Offers(s, e) ==
  /\ s.ack # 0 => s.cwnd \in Windows /\ s.ack + s.cwnd <= e /\ e - s.ack < U16
  /\ s.flag = "RST" => s.cwnd = 0

LEMMA ReceiveWithin ==
  ASSUME NEW c \in Connection, NEW s \in InSegment, Sensible(s),
         NEW e \in Int, Within(c, e), Offers(s, e),
         s.flag = "SYN" => c.output_handler \notin Files \/ \A w \in Windows : s.cwnd <= w,
         Processed(c, s).tcp_state # "listen"
  PROVE  LET r == Processed(c, s) IN
         /\ Within(r, e)
         /\ r.output_handler \in Files => c.output_handler \in Files \/ s.len > 0
<1>1. PICK a, t, u, h, r \in Connection : Stages(c, s, a, t, u, h, r)
  BY ProcessedStages
<1>2. \A x \in Connection : /\ x.next_outseqno \in Int /\ x.inflight \in Int /\ 0 <= x.inflight
                            /\ x.cwnd \in Int /\ 0 <= x.cwnd
  BY U16Type DEF Connection
<1>3. /\ s.ack \in Int /\ 0 <= s.ack /\ s.cwnd \in Int /\ 0 <= s.cwnd
      /\ \A w \in Windows : w \in Int /\ 0 <= w
  BY U16Type, ClientAssumption DEF InSegment
<1>4. ASSUME a.output_handler \in Files
      PROVE  /\ c.output_handler \in Files
             /\ a.next_outseqno <= e
             /\ a.next_outseqno - a.inflight + s.cwnd <= e
             /\ \E w \in Windows : a.next_outseqno - a.inflight + w <= e
  <2>1. PICK d : d = DuplicateAck(c, s)
    OBVIOUS
  <2>2. /\ \/ d.next_outseqno = c.next_outseqno
           \/ s.ack = c.next_outseqno - c.inflight /\ d.next_outseqno = s.ack
        /\ d.inflight = c.inflight
        /\ IF s.ack # 0 /\ s.ack <= d.next_outseqno
           THEN a.inflight = (d.next_outseqno - s.ack) % U16
           ELSE a.inflight = d.inflight
        /\ a.next_outseqno = d.next_outseqno
        /\ a.output_handler = c.output_handler \/ a.output_handler = None
    BY <1>1, <2>1, AckNumbers DEF Stages
  <2>3. c.output_handler \in Files
    BY <1>4, <2>2, HandlerKinds
  <2>4. /\ c.next_outseqno <= e
        /\ c.next_outseqno - c.inflight + c.cwnd <= e
        /\ \E w \in Windows : c.next_outseqno - c.inflight + w <= e
    BY <2>3 DEF Within
  <2>5. d.next_outseqno \in Int /\ d.next_outseqno <= c.next_outseqno
    BY <1>2, <1>3, <2>2
  <2>6. CASE s.ack # 0 /\ s.ack <= d.next_outseqno
    <3>1. s.cwnd \in Windows /\ s.ack + s.cwnd <= e /\ e - s.ack < U16
      BY <2>6 DEF Offers
    <3>2. PICK n : n = d.next_outseqno - s.ack
      OBVIOUS
    <3>3. n \in Int /\ 0 <= n /\ n < U16
      BY <1>2, <1>3, <2>4, <2>5, <2>6, <3>1, <3>2, U16Type
    <3>4. n % U16 = n
      BY <3>3 DEF U16
    <3>5. a.inflight = n /\ a.next_outseqno = d.next_outseqno
      BY <2>2, <2>6, <3>2, <3>4
    <3>6. a.next_outseqno - a.inflight = s.ack
      BY <1>2, <1>3, <2>5, <3>2, <3>5
    <3> QED
      BY <1>2, <1>3, <2>3, <2>4, <2>5, <3>1, <3>5, <3>6
  <2>7. CASE s.ack # 0 /\ ~ (s.ack <= d.next_outseqno)
    <3>1. s.cwnd \in Windows /\ s.ack + s.cwnd <= e
      BY <2>7 DEF Offers
    <3>2. /\ a.inflight = c.inflight /\ a.next_outseqno = d.next_outseqno
          /\ d.next_outseqno < s.ack
      BY <1>3, <2>2, <2>5, <2>7
    <3>3. a.next_outseqno - a.inflight + s.cwnd <= e
      BY <1>2, <1>3, <2>5, <3>1, <3>2
    <3> QED
      BY <1>2, <1>3, <2>3, <2>4, <2>5, <3>1, <3>2, <3>3
  <2>8. CASE s.ack = 0
    <3>1. a.inflight = c.inflight /\ a.next_outseqno = d.next_outseqno
      BY <2>2, <2>8
    <3>2. PICK w \in Windows : c.next_outseqno - c.inflight + w <= e
      BY <2>4
    <3>3. a.next_outseqno - a.inflight + w <= e
      BY <1>2, <1>3, <2>5, <3>1, <3>2
    <3>4. s.cwnd = 0 \/ s.cwnd <= w
      BY <2>3, <2>8 DEF Sensible, Offers
    <3>5. a.next_outseqno - a.inflight + s.cwnd <= e
      BY <1>2, <1>3, <2>4, <2>5, <3>1, <3>2, <3>4
    <3> QED
      BY <1>2, <2>3, <2>4, <2>5, <3>1, <3>3, <3>5
  <2> QED
    BY <2>6, <2>7, <2>8
<1>5. Moved(a, t, s)
  BY <1>1, MachineNumbers DEF Stages
<1>6. /\ u.next_outseqno = t.next_outseqno /\ u.inflight = t.inflight
      /\ u.tcp_state = t.tcp_state /\ u.output_handler = t.output_handler
      /\ u.cwnd = s.cwnd
  BY <1>1, WindowNumbers DEF Stages
<1>7. \/ h = u
      \/ /\ u.tcp_state = "established" /\ s.len > 0
         /\ \/ h.output_handler = None
            \/ Installed(u, h, s)
  <2>1. NewTcpData(a, s) \in BOOLEAN
    BY DEF NewTcpData
  <2>2. \/ h = u
        \/ /\ u.tcp_state = "established" /\ s.len > 0
           /\ \/ /\ h.next_outseqno = u.next_outseqno /\ h.inflight = u.inflight
                 /\ h.cwnd = u.cwnd /\ h.tcp_state = u.tcp_state
                 /\ h.output_handler = None
              \/ Installed(u, h, s)
    BY <1>1, <2>1, RequestNumbers DEF Stages
  <2> QED
    BY <2>2
<1>8. r = h \/ r.output_handler = "ref_ack"
  <2>1. r = Acknowledge(h, s)
    BY <1>1 DEF Stages
  <2> QED
    BY <2>1, AcknowledgeNumbers
<1>9. r = Processed(c, s) /\ r.tcp_state # "listen"
  BY <1>1 DEF Stages
<1> SUFFICES ASSUME r.output_handler \in Files
             PROVE  /\ r.next_outseqno <= e
                    /\ r.next_outseqno - r.inflight + r.cwnd <= e
                    /\ \E w \in Windows : r.next_outseqno - r.inflight + w <= e
                    /\ c.output_handler \in Files \/ s.len > 0
  BY <1>9 DEF Within
<1>10. r = h
  BY <1>8, SynackIsControl
<1>11. CASE h = u
  <2>1. t.output_handler \in Files /\ t.tcp_state # "listen"
    BY <1>6, <1>9, <1>10, <1>11
  <2>2. a.output_handler \in Files /\ t.next_outseqno = a.next_outseqno /\ t.inflight = a.inflight
    BY <1>5, <2>1, SynackIsControl DEF Moved, Same
  <2> QED
    BY <1>4, <1>6, <1>10, <1>11, <2>2
<1>12. CASE h # u
  <2>1. Installed(u, h, s) /\ s.len > 0
    BY <1>7, <1>10, <1>12, HandlerKinds
  <2>2. s.ack # 0
    BY <2>1 DEF Sensible, InSegment
  <2>3. s.cwnd \in Windows /\ s.ack + s.cwnd <= e
    BY <2>2 DEF Offers
  <2>4. h.next_outseqno = s.ack /\ h.cwnd = s.cwnd
    BY <1>6, <2>1 DEF Installed
  <2> QED
    BY <1>2, <1>3, <1>10, <2>1, <2>3, <2>4
<1> QED
  BY <1>11, <1>12

\* A remainder is not above the number.
LEMMA RemainderBelow ==
  ASSUME NEW x \in Nat, NEW m \in Nat, m > 0
  PROVE  x % m <= x
<1> DEFINE q == x \div m
           r == x % m
<1>1. q \in Int /\ r \in 0 .. m - 1 /\ x = (m * q) + r
  OBVIOUS
<1> HIDE DEF q, r
<1>2. CASE x >= m
  BY <1>1, <1>2 DEF r
<1>3. CASE x < m
  <2>1. q >= 0
    <3>1. ASSUME q <= -1 PROVE FALSE
      <4>1. m * q <= -m
        BY <1>1, <3>1
      <4> QED
        BY <1>1, <4>1
    <3> QED
      BY <1>1, <3>1
  <2>2. m * q >= 0
    BY <1>1, <2>1
  <2> QED
    BY <1>1, <2>2 DEF r
<1> QED
  BY <1>2, <1>3

\* The segment a connection sends, and the connection after it.
LEMMA SentWithin ==
  ASSUME NEW p \in Peers, NEW c \in Connection, Numbers(c), able_to_send(c),
         NEW e \in Int, last_transmission_time \in 0 .. TickMod - 1
  PROVE  LET m == Segment(p, c)
             d == Sent(p, c) IN
         /\ m \in OutSegment /\ m.peer = p
         /\ Within(c, e) => (m.len > 0 => m.seq + m.len <= e) /\ Within(d, e)
         /\ m.handler = "ref_synack" => m.seq = BASIC_SEQNO
         /\ d \in Connection /\ Numbers(d) /\ d.tcp_state = c.tcp_state
         /\ d.output_handler \in Files => c.output_handler \in Files
<1> DEFINE rest == c.final_outseqno - c.next_outseqno
           max_out == MaxOutSize(c.tcp_mss)
           len == IF c.output_handler \notin Files THEN 0
                  ELSE IF rest > max_out THEN max_out ELSE rest
           index == IF c.output_handler \in Files THEN Length[c.output_handler] - rest ELSE 0
           out == IF c.output_handler = "ref_synack" THEN 1 ELSE len
           flying == (c.inflight + len) % U16
<1>1. /\ c.next_outseqno \in Int /\ c.final_outseqno \in Int
      /\ c.inflight \in 0 .. U16 - 1 /\ c.cwnd \in 0 .. U16 - 1
      /\ c.tcp_mss \in Nat /\ c.current_inseqno \in 0 .. InMod - 1
      /\ c.output_handler \in Handlers
      /\ U16 \in Nat
  BY ConstantTypes, U16Type DEF Connection
<1>2. max_out \in Int /\ 0 <= max_out /\ max_out <= c.tcp_mss
  <2>1. c.tcp_mss % Chunk \in Int /\ 0 <= c.tcp_mss % Chunk /\ c.tcp_mss % Chunk <= c.tcp_mss
    BY <1>1, ConstantTypes, Remainder, RemainderBelow
  <2> QED
    BY <1>1, <2>1 DEF MaxOutSize
<1>3. rest \in Int
  BY <1>1
<1>4. c.output_handler \in Files => 0 <= rest
  BY <1>1 DEF Numbers
<1> HIDE DEF max_out
<1>5. /\ len \in Int /\ 0 <= len /\ len <= c.tcp_mss
      /\ c.output_handler \in Files => len <= rest
      /\ c.output_handler \notin Files => len = 0
  BY <1>1, <1>2, <1>3, <1>4
<1>6. index \in Int
  BY <1>3, ConstantTypes
<1>7. Segment(p, c) = [peer |-> p, seq |-> c.next_outseqno, ack |-> c.current_inseqno,
                       handler |-> c.output_handler, index |-> index, len |-> len]
  BY DEF Segment, max_out
<1> HIDE DEF len, index
<1>8. c.inflight + c.tcp_mss <= c.cwnd /\ something_to_send(c)
  BY DEF able_to_send
<1>9. flying = c.inflight + len
  <2>1. PICK n : n = c.inflight + len
    OBVIOUS
  <2>2. n \in Int /\ 0 <= n /\ n < U16
    BY <1>1, <1>5, <1>8, <2>1
  <2> QED
    BY <2>1, <2>2 DEF U16
<1>10. c.output_handler # None
  BY <1>8 DEF something_to_send
<1>11. Sent(p, c) = [c EXCEPT !.transmission_time = last_transmission_time,
                              !.next_outseqno = @ + out,
                              !.inflight = flying,
                              !.output_handler = IF @ \in Control THEN None ELSE @]
  BY <1>7 DEF Sent
<1> HIDE DEF flying, out
<1>12. PICK d : d = Sent(p, c)
  OBVIOUS
<1>13. d \in Connection
  BY <1>12, SentTypes
<1>14. /\ d.next_outseqno = c.next_outseqno + out
       /\ d.inflight = flying
       /\ d.output_handler = IF c.output_handler \in Control THEN None ELSE c.output_handler
       /\ d.final_outseqno = c.final_outseqno /\ d.tcp_state = c.tcp_state
       /\ d.cwnd = c.cwnd /\ d.parsing_state = c.parsing_state
  BY <1>11, <1>12 DEF Connection
<1>15. CASE c.output_handler \in Files
  <2>1. out = len /\ d.output_handler = c.output_handler
    BY <1>14, <1>15, HandlerKinds, SynackIsControl DEF out
  <2>2. Within(c, e) => /\ c.next_outseqno <= e
                        /\ c.next_outseqno - c.inflight + c.cwnd <= e
                        /\ \E w \in Windows : c.next_outseqno - c.inflight + w <= e
    BY <1>15 DEF Within
  <2>3. d.next_outseqno = c.next_outseqno + len /\ d.inflight = c.inflight + len
    BY <1>9, <1>14, <2>1
  <2>4. d.next_outseqno - d.inflight = c.next_outseqno - c.inflight
    BY <1>1, <1>5, <2>3
  <2>5. Within(c, e) => d.next_outseqno <= e
    BY <1>1, <1>5, <1>8, <2>2, <2>3
  <2>6. Within(c, e) => Within(d, e)
    BY <1>14, <2>2, <2>4, <2>5 DEF Within
  <2>7. c.tcp_state # "syn_rcvd" /\ c.output_handler # "ref_synack"
    BY <1>15, SynackIsControl DEF Numbers
  <2>8. d.next_outseqno <= d.final_outseqno
    BY <1>1, <1>5, <1>14, <1>15, <2>3
  <2>9. Numbers(d)
    BY <1>14, <2>1, <2>7, <2>8 DEF Numbers
  <2>10. Within(c, e) => c.next_outseqno + len <= e
    BY <2>3, <2>5
  <2> QED
    BY <1>1, <1>5, <1>6, <1>7, <1>12, <1>13, <1>14, <1>15, <2>6, <2>7, <2>9, <2>10 DEF OutSegment
<1>16. CASE c.output_handler \notin Files
  <2>1. len = 0 /\ flying = c.inflight
    BY <1>1, <1>5, <1>9, <1>16
  <2>2. d.output_handler = None
    BY <1>1, <1>10, <1>14, <1>16 DEF Handlers
  <2>3. d.tcp_state = "syn_rcvd"
          => d.next_outseqno \in {BASIC_SEQNO, BASIC_SEQNO + 1}
             /\ d.inflight = 0 /\ d.parsing_state = "out"
    <3>1. CASE c.output_handler = "ref_synack"
      <4>1. c.next_outseqno = BASIC_SEQNO /\ c.inflight = 0 /\ c.parsing_state = "out" /\ out = 1
        BY <3>1 DEF Numbers, out
      <4> QED
        BY <1>14, <2>1, <4>1
    <3>2. CASE c.output_handler # "ref_synack"
      <4>1. out = 0
        BY <2>1, <3>2 DEF out
      <4>2. d.next_outseqno = c.next_outseqno /\ d.inflight = c.inflight
        BY <1>1, <1>14, <2>1, <4>1
      <4> QED
        BY <1>14, <4>2 DEF Numbers
    <3> QED
      BY <3>1, <3>2
  <2>4. Numbers(d)
    BY <2>2, <2>3, HandlerKinds, SynackIsControl DEF Numbers
  <2>5. Within(d, e) /\ d.output_handler \notin Files
    BY <2>2, HandlerKinds DEF Within
  <2>6. c.output_handler = "ref_synack" => c.next_outseqno = BASIC_SEQNO
    BY DEF Numbers
  <2> QED
    BY <1>1, <1>5, <1>6, <1>7, <1>12, <1>13, <1>14, <2>1, <2>4, <2>5, <2>6 DEF OutSegment
<1> QED
  BY <1>15, <1>16

\* What is sent again was in flight.
LEMMA RolledBackWithin ==
  ASSUME NEW c \in Connection, Numbers(c), NEW e \in Int, NEW now \in 0 .. TickMod - 1
  PROVE  LET d == RolledBack(c, now) IN
         /\ Numbers(d) /\ d.tcp_state = c.tcp_state
         /\ Within(c, e) => Within(d, e)
         /\ d.output_handler = c.output_handler
<1> DEFINE n == c.next_outseqno - c.inflight
           d == [c EXCEPT !.next_outseqno = n, !.inflight = 0]
<1>1. RolledBack(c, now) = c \/ (RolledBack(c, now) = d /\ c.inflight > 0)
  BY DEF RolledBack
<1>2. /\ c.next_outseqno \in Int /\ c.inflight \in Int /\ c.final_outseqno \in Int
  BY U16Type DEF Connection
<1> HIDE DEF n
<1>3. /\ d.next_outseqno = n /\ d.inflight = 0 /\ d.output_handler = c.output_handler
      /\ d.final_outseqno = c.final_outseqno /\ d.tcp_state = c.tcp_state
      /\ d.cwnd = c.cwnd
  BY DEF Connection
<1>4. n \in Int /\ n = c.next_outseqno - c.inflight
  BY <1>2 DEF n
<1> HIDE DEF d
<1>5. ASSUME c.inflight > 0 PROVE Numbers(d) /\ (Within(c, e) => Within(d, e))
  <2>1. c.output_handler # "ref_synack" /\ c.tcp_state # "syn_rcvd"
    BY <1>2, <1>5 DEF Numbers
  <2>2. Numbers(d)
    BY <1>2, <1>3, <1>4, <1>5, <2>1 DEF Numbers
  <2>3. n - 0 = n /\ n < c.next_outseqno
    BY <1>2, <1>4, <1>5
  <2>4. Within(c, e) => Within(d, e)
    BY <1>2, <1>3, <1>4, <2>3 DEF Within
  <2> QED
    BY <2>2, <2>4
<1> QED
  BY <1>1, <1>3, <1>5

----------------------------------------------------------------------------
\* The clients.

Early == {"closed", "syn_sent"}

\* A client that has a connection has received its first sequence number.
ClientNumbers(c) == IF c.state \in Early THEN c.rcv_nxt = 0
                    ELSE c.state # "reset" => c.rcv_nxt > BASIC_SEQNO

ClientOK(c) == c \in Client /\ ClientNumbers(c)

\* What a client c may become.
Later(c, d) == /\ ClientOK(d)
               /\ c.edge <= d.edge
               /\ c.state \notin Early => d.state \notin Early

\* What client p sends when it becomes d.
SentBy(s, p, d) ==
  /\ s \in InSegment /\ s.peer = p
  /\ Sensible(s)
  /\ s.ack # 0 => s.cwnd \in Windows /\ s.ack + s.cwnd <= d.edge
  /\ s.flag = "RST" => s.cwnd = 0
  /\ s.len > 0 => d.state \notin Early

\* A step of client p, which becomes d and sends the segments of S.
ClientStep(p, d, S) ==
  /\ p \in Peers
  /\ Later(clients[p], d)
  /\ \A s \in S : SentBy(s, p, d)
  /\ clients' = [clients EXCEPT ![p] = d]
  /\ to_server' = to_server \cup S
  /\ UNCHANGED <<server, to_clients>>

\* Segments of the server, as clients read them.
Readables(m) == m \in OutSegment /\ (m.handler = "ref_synack" => m.seq = BASIC_SEQNO)

\* A segment without text.
LEMMA ClientSegmentTypes ==
  ASSUME NEW p \in Peers, NEW c \in Client, NEW w \in Windows
  PROVE  LET s == ClientSegment(p, c, w) IN
         /\ s \in InSegment /\ s.peer = p /\ s.ack = c.rcv_nxt /\ s.len = 0
         /\ s.flag = "ACK" /\ s.cwnd = w /\ s.mss = 0 /\ s.text \in Text
<1>1. Iss[p] \in Int /\ c.sent \in Int /\ c.rcv_nxt \in Nat
  BY ClientAssumption, ConstantTypes DEF Client
<1>2. SndNxt(p, c) \in 0 .. InMod - 1
  BY <1>1, ConstantTypes, Remainder DEF SndNxt
<1>3. w \in 0 .. U16 - 1
  BY ClientAssumption
<1>4. NoText \in Text
  BY ConstantTypes DEF NoText, Text
<1> QED
  BY <1>1, <1>2, <1>3, <1>4 DEF ClientSegment, InSegment

\* The window that a client offers.
LEMMA OfferedTypes ==
  ASSUME NEW c \in Client, NEW w \in Windows, ClientNumbers(c), MayOffer(c, w)
  PROVE  LET d == Offered(c, w) IN
         /\ ClientOK(d) /\ c.edge <= d.edge
         /\ d.state = c.state /\ d.rcv_nxt = c.rcv_nxt
         /\ c.rcv_nxt + w = d.edge
<1>1. w \in Nat /\ c.rcv_nxt \in Nat /\ c.edge \in Nat
  BY ClientAssumption, U16Type DEF Client
<1>2. PICK e : e = c.rcv_nxt + w
  OBVIOUS
<1>3. e \in Nat /\ c.edge <= e
  BY <1>1, <1>2 DEF MayOffer
<1>4. Offered(c, w) = [c EXCEPT !.edge = e]
  BY <1>2 DEF Offered
<1> QED
  BY <1>2, <1>3, <1>4 DEF Client, ClientOK, ClientNumbers

\* Bare acknowledgments, of a client that has a connection.
LEMMA AckSentBy ==
  ASSUME NEW p \in Peers, NEW c \in Client, NEW w \in Windows, ClientNumbers(c),
         MayOffer(c, w), c.state \notin Early, c.state # "reset"
  PROVE  SentBy(ClientSegment(p, c, w), p, Offered(c, w))
<1>1. c.rcv_nxt > BASIC_SEQNO /\ c.rcv_nxt \in Nat /\ w \in Nat
  BY ClientAssumption, U16Type DEF ClientNumbers, Client
<1> QED
  BY <1>1, ClientSegmentTypes, OfferedTypes, ConstantTypes DEF SentBy, Sensible

LEMMA SynStep ==
  ASSUME \A q \in Peers : ClientOK(clients[q]), clients \in [Peers -> Client], ClientSyn
  PROVE  \E p, d, S : ClientStep(p, d, S)
<1>1. PICK p \in Peers, w \in Windows :
        /\ MaySyn(p)
        /\ clients' = [clients EXCEPT ![p].state = "syn_sent"]
        /\ to_server' = to_server \cup {Syn(p, clients[p], w)}
        /\ UNCHANGED <<server, to_clients>>
  BY DEF ClientSyn
<1>2. PICK d : d = [clients[p] EXCEPT !.state = "syn_sent"]
  OBVIOUS
<1>3. PICK s : s = Syn(p, clients[p], w)
  OBVIOUS
<1>4. clients[p] \in Client /\ ClientNumbers(clients[p]) /\ clients[p].state \in Early
  BY <1>1 DEF ClientOK, MaySyn, Early
<1>5. /\ d \in Client /\ d.state = "syn_sent" /\ d.edge = clients[p].edge /\ d.rcv_nxt = 0
      /\ d.edge \in Nat
  BY <1>2, <1>4 DEF Client, ClientStates, ClientNumbers
<1>6. /\ s \in InSegment /\ s.peer = p /\ s.ack = 0 /\ s.len = 0 /\ s.flag = "SYN"
  <2>1. PICK t : t = ClientSegment(p, clients[p], w)
    OBVIOUS
  <2>2. t \in InSegment /\ t.peer = p /\ t.ack = 0 /\ t.len = 0
    BY <1>4, <2>1, ClientSegmentTypes DEF ClientNumbers
  <2>3. s = [t EXCEPT !.seq = Iss[p], !.flag = "SYN", !.mss = Mss]
    BY <1>3, <2>1 DEF Syn
  <2>4. Iss[p] \in 0 .. InMod - 1 /\ Mss \in Nat
    BY ClientAssumption
  <2> QED
    BY <2>2, <2>3, <2>4 DEF InSegment
<1>7. Later(clients[p], d)
  BY <1>4, <1>5 DEF Later, ClientOK, ClientNumbers, Early
<1>8. SentBy(s, p, d)
  BY <1>6 DEF SentBy, Sensible
<1>9. clients' = [clients EXCEPT ![p] = d]
  BY <1>1, <1>2
<1>10. ClientStep(p, d, {s})
  BY <1>1, <1>3, <1>7, <1>8, <1>9 DEF ClientStep
<1> QED
  BY <1>10

LEMMA FinStep ==
  ASSUME \A q \in Peers : ClientOK(clients[q]), ClientFin
  PROVE  \E p, d, S : ClientStep(p, d, S)
<1>1. PICK p \in Peers, w \in Windows :
        LET c == [clients[p] EXCEPT !.state = "fin_wait"] IN
        /\ MayFin(p) /\ MayOffer(c, w)
        /\ clients' = [clients EXCEPT ![p] = Offered(c, w)]
        /\ to_server' = to_server \cup {Fin(p, c, w)}
        /\ UNCHANGED <<server, to_clients>>
  BY DEF ClientFin
<1>2. PICK c : c = [clients[p] EXCEPT !.state = "fin_wait"]
  OBVIOUS
<1>3. /\ clients[p] \in Client /\ ClientNumbers(clients[p])
      /\ clients[p].state \in {"established", "fin_wait"}
  BY <1>1 DEF ClientOK, MayFin
<1>4. /\ c \in Client /\ c.state = "fin_wait" /\ c.edge = clients[p].edge
      /\ c.rcv_nxt = clients[p].rcv_nxt /\ ClientNumbers(c)
  BY <1>2, <1>3 DEF Client, ClientStates, ClientNumbers, Early
<1>5. PICK s : s = Fin(p, c, w)
  OBVIOUS
<1>6. PICK d : d = Offered(c, w)
  OBVIOUS
<1>7. /\ MayOffer(c, w)
      /\ clients' = [clients EXCEPT ![p] = d]
      /\ to_server' = to_server \cup {s}
  BY <1>1, <1>2, <1>5, <1>6
<1>8. /\ ClientOK(d) /\ c.edge <= d.edge
      /\ d.state = "fin_wait" /\ d.rcv_nxt = c.rcv_nxt
  BY <1>4, <1>6, <1>7, OfferedTypes
<1>9. SentBy(s, p, d)
  <2>1. PICK t : t = ClientSegment(p, c, w)
    OBVIOUS
  <2>2. SentBy(t, p, d) /\ t.len = 0 /\ t.flag = "ACK" /\ t \in InSegment
    BY <1>4, <1>6, <1>7, <2>1, AckSentBy, ClientSegmentTypes DEF Early
  <2>3. PICK n : n = (Iss[p] + 1 + c.sent) % InMod
    OBVIOUS
  <2>4. n \in 0 .. InMod - 1
    <3>1. Iss[p] + 1 + c.sent \in Int /\ InMod \in Nat /\ InMod > 0
      BY <1>4, ClientAssumption, ConstantTypes DEF Client
    <3> QED
      BY <2>3, <3>1, Remainder
  <2>5. s = [t EXCEPT !.seq = n, !.flag = "FIN"]
    BY <1>5, <2>1, <2>3 DEF Fin
  <2>6. /\ s \in InSegment /\ s.peer = t.peer /\ s.ack = t.ack /\ s.len = t.len /\ s.cwnd = t.cwnd
        /\ s.flag = "FIN"
    BY <2>2, <2>4, <2>5 DEF InSegment
  <2>7. t.ack # 0
    BY <2>2 DEF SentBy, Sensible
  <2> QED
    BY <2>2, <2>6, <2>7 DEF SentBy, Sensible
<1>10. Later(clients[p], d)
  BY <1>4, <1>8 DEF Later, Early
<1>11. ClientStep(p, d, {s})
  BY <1>1, <1>7, <1>9, <1>10 DEF ClientStep
<1> QED
  BY <1>11

\* The request and the cut of a segment of the requests.
LEMMA RequestTypes ==
  ASSUME NEW p \in Peers, NEW n \in 1 .. NbSegments(p)
  PROVE  [file |-> Requests[p][RequestOf(n)], from |-> CutOf(n).from, to |-> CutOf(n).to] \in Text
<1> DEFINE R == Len(Requests[p])
           C == Len(Cuts)
           q == (n - 1) \div C
           r == (n - 1) % C
<1>1. Requests[p] \in Seq(Files) /\ Cuts \in Seq([from : 1 .. 3, to : 1 .. 3])
  BY ClientAssumption
<1>2. R \in Nat /\ C \in Nat
  BY <1>1, LenProperties
<1>3. n \in Int /\ 1 <= n /\ n <= R * C
  BY <1>2 DEF NbSegments
<1>4. C > 0
  <2>1. C = 0 => R * C = 0
    BY <1>2
  <2> QED
    BY <1>2, <1>3, <2>1
<1>5. q \in Int /\ r \in 0 .. C - 1 /\ n - 1 = (C * q) + r
  BY <1>2, <1>3, <1>4
<1> HIDE DEF R, C, q, r
<1>6. q >= 0
  <2>1. ASSUME q <= -1 PROVE FALSE
    <3>1. C * q <= -C
      BY <1>2, <1>4, <1>5, <2>1
    <3> QED
      BY <1>2, <1>3, <1>5, <3>1
  <2> QED
    BY <1>5, <2>1
<1>7. q < R
  <2>1. ASSUME q >= R PROVE FALSE
    <3>1. C * q >= C * R
      BY <1>2, <1>4, <1>5, <2>1
    <3>2. C * R = R * C
      BY <1>2
    <3>3. C * q \in Int /\ R * C \in Int
      BY <1>2, <1>5
    <3> QED
      BY <1>3, <1>5, <3>1, <3>2, <3>3
  <2> QED
    BY <1>2, <1>5, <2>1
<1>8. RequestOf(n) = q + 1 /\ CutOf(n) = Cuts[r + 1]
  BY DEF RequestOf, CutOf, q, r, C
<1>9. q + 1 \in 1 .. R /\ r + 1 \in 1 .. C
  BY <1>2, <1>5, <1>6, <1>7
<1>10. Requests[p][q + 1] \in Files
  BY <1>1, <1>9, ElementOfSeq DEF R
<1>11. Cuts[r + 1] \in [from : 1 .. 3, to : 1 .. 3]
  BY <1>1, <1>9, ElementOfSeq DEF C
<1> QED
  BY <1>8, <1>10, <1>11 DEF Text

LEMMA RequestStep ==
  ASSUME \A q \in Peers : ClientOK(clients[q]), ClientRequest
  PROVE  \E p, d, S : ClientStep(p, d, S)
<1>1. PICK p \in Peers, w \in Windows : \E n \in 1 .. NbSegments(p) :
        LET c == Requested(clients[p], n) IN
        /\ MayRequest(p, n) /\ MayOffer(c, w)
        /\ clients' = [clients EXCEPT ![p] = Offered(c, w)]
        /\ to_server' = to_server \cup {RequestSegment(p, c, n, w)}
        /\ UNCHANGED <<server, to_clients>>
  BY DEF ClientRequest
<1>2. PICK n \in 1 .. NbSegments(p) :
        LET c == Requested(clients[p], n) IN
        /\ MayRequest(p, n) /\ MayOffer(c, w)
        /\ clients' = [clients EXCEPT ![p] = Offered(c, w)]
        /\ to_server' = to_server \cup {RequestSegment(p, c, n, w)}
        /\ UNCHANGED <<server, to_clients>>
  BY <1>1
<1>3. PICK c : c = Requested(clients[p], n)
  OBVIOUS
<1>4. /\ clients[p] \in Client /\ ClientNumbers(clients[p])
      /\ clients[p].state = "established"
  BY <1>2 DEF ClientOK, MayRequest
<1>5. n \in Nat
  <2>1. NbSegments(p) \in Int
    BY ClientAssumption, LenProperties DEF NbSegments
  <2> QED
    BY <2>1
<1>6. /\ c \in Client /\ c.state = "established" /\ c.edge = clients[p].edge
      /\ c.rcv_nxt = clients[p].rcv_nxt /\ ClientNumbers(c)
  BY <1>3, <1>4, <1>5 DEF Client, ClientStates, ClientNumbers, Early, Requested
<1>7. PICK s : s = RequestSegment(p, c, n, w)
  OBVIOUS
<1>8. PICK d : d = Offered(c, w)
  OBVIOUS
<1>9. /\ MayOffer(c, w)
      /\ clients' = [clients EXCEPT ![p] = d]
      /\ to_server' = to_server \cup {s}
      /\ UNCHANGED <<server, to_clients>>
  BY <1>2, <1>3, <1>7, <1>8
<1>10. /\ ClientOK(d) /\ c.edge <= d.edge
       /\ d.state = "established" /\ d.rcv_nxt = c.rcv_nxt
  BY <1>6, <1>8, <1>9, OfferedTypes
<1>11. SentBy(s, p, d)
  <2>1. PICK t : t = ClientSegment(p, c, w)
    OBVIOUS
  <2>2. SentBy(t, p, d) /\ t.flag = "ACK" /\ t \in InSegment
    BY <1>6, <1>8, <1>9, <2>1, AckSentBy, ClientSegmentTypes DEF Early
  <2>3. PICK x : x = [file |-> Requests[p][RequestOf(n)], from |-> CutOf(n).from, to |-> CutOf(n).to]
    OBVIOUS
  <2>4. x \in Text
    BY <2>3, RequestTypes
  <2>5. PICK i : i = (Iss[p] + n) % InMod
    OBVIOUS
  <2>6. i \in 0 .. InMod - 1
    BY <1>5, <2>5, ClientAssumption, ConstantTypes, Remainder
  <2>7. s = [t EXCEPT !.seq = i, !.len = 1, !.text = x]
    BY <1>7, <2>1, <2>3, <2>5 DEF RequestSegment
  <2>8. /\ s \in InSegment /\ s.peer = t.peer /\ s.ack = t.ack /\ s.cwnd = t.cwnd /\ s.flag = "ACK"
        /\ s.len = 1
    BY <2>2, <2>4, <2>6, <2>7 DEF InSegment
  <2>9. t.ack # 0
    BY <2>2 DEF SentBy, Sensible
  <2> QED
    BY <1>10, <2>2, <2>8, <2>9 DEF SentBy, Sensible, Early
<1>12. Later(clients[p], d)
  BY <1>6, <1>10 DEF Later, Early
<1>13. ClientStep(p, d, {s})
  BY <1>9, <1>11, <1>12 DEF ClientStep
<1> QED
  BY <1>13

\* The bytes a client accepts.
LEMMA AcceptedTypes ==
  ASSUME NEW c \in Client, NEW m \in OutSegment, Continues(c, m),
         ClientNumbers(c), c.state \in {"established", "fin_wait"}
  PROVE  LET d == Accepted(c, m) IN
         d \in Client /\ ClientNumbers(d) /\ d.edge = c.edge /\ d.state = c.state
<1> DEFINE skip == c.rcv_nxt - m.seq
           n == m.len - skip
           data == [i \in 1 .. n |-> <<m.handler, m.index + skip + i - 1>>]
<1>1. /\ m.handler \in Files /\ m.seq <= c.rcv_nxt /\ c.rcv_nxt < m.seq + m.len
      /\ m.seq \in Int /\ m.len \in Nat /\ m.index \in Int /\ c.rcv_nxt \in Nat
      /\ c.got \in Seq(Files \X Int)
  BY DEF Continues, OutSegment, Client
<1>2. skip \in Int /\ n \in Nat /\ m.seq + m.len \in Nat
  BY <1>1
<1>3. data \in Seq(Files \X Int)
  <2>1. ASSUME NEW i \in 1 .. n
        PROVE  <<m.handler, m.index + skip + i - 1>> \in Files \X Int
    <3> HIDE DEF skip
    <3>1. m.index + skip + i - 1 \in Int
      BY <1>1, <1>2
    <3> QED
      BY <1>1, <3>1
  <2> QED
    BY <1>2, <2>1, IsASeq
<1>4. c.got \o data \in Seq(Files \X Int)
  BY <1>1, <1>3, ConcatProperties
<1>5. Accepted(c, m) = [c EXCEPT !.got = @ \o data, !.rcv_nxt = m.seq + m.len]
  BY DEF Accepted
<1>6. PICK g : g = c.got \o data
  OBVIOUS
<1>7. PICK k : k = m.seq + m.len
  OBVIOUS
<1>8. Accepted(c, m) = [c EXCEPT !.got = g, !.rcv_nxt = k]
  BY <1>5, <1>6, <1>7
<1>9. g \in Seq(Files \X Int) /\ k \in Nat /\ c.rcv_nxt < k
  BY <1>1, <1>2, <1>4, <1>6, <1>7
<1>10. c.rcv_nxt > BASIC_SEQNO /\ c.rcv_nxt \in Int /\ BASIC_SEQNO \in Int
  BY <1>1, ConstantTypes DEF ClientNumbers, Early
<1>11. k > BASIC_SEQNO
  BY <1>9, <1>10
<1> HIDE DEF skip, n, data
<1>12. PICK d : d = [c EXCEPT !.got = g, !.rcv_nxt = k]
  OBVIOUS
<1>13. /\ d \in Client /\ d.edge = c.edge /\ d.state = c.state /\ d.rcv_nxt = k
  BY <1>9, <1>12 DEF Client
<1> QED
  BY <1>8, <1>11, <1>12, <1>13 DEF ClientNumbers, Early

\* What a client makes of a segment of the server.
LEMMA ReceivedLater ==
  ASSUME NEW c, ClientOK(c), NEW m, Readables(m)
  PROVE  Later(c, Received(c, m)) /\ Received(c, m).edge = c.edge
<1>0. c \in Client /\ ClientNumbers(c) /\ m \in OutSegment
  BY DEF ClientOK, Readables
<1>1. PICK a : a = [c EXCEPT !.acked = AckedBy(c, m)]
  OBVIOUS
<1>2. AckedBy(c, m) \in Nat
  <2>1. PICK n : n = (m.ack - Iss[m.peer] - 1) % InMod
    OBVIOUS
  <2>2. m.ack - Iss[m.peer] - 1 \in Int
    BY <1>0, ClientAssumption, ConstantTypes DEF OutSegment
  <2>3. n \in Nat
    BY <2>1, <2>2, ConstantTypes, Remainder
  <2>4. AckedBy(c, m) = IF n > c.acked /\ n <= c.sent THEN n ELSE c.acked
    BY <2>1 DEF AckedBy
  <2> QED
    BY <1>0, <2>3, <2>4 DEF Client
<1>3. /\ a \in Client /\ a.state = c.state /\ a.rcv_nxt = c.rcv_nxt /\ a.edge = c.edge
      /\ ClientNumbers(a)
  BY <1>0, <1>1, <1>2 DEF Client, ClientNumbers
<1>4. ASSUME NEW d, d \in Client, ClientNumbers(d), d.edge = c.edge,
             c.state \notin Early => d.state \notin Early
      PROVE  Later(c, d) /\ d.edge = c.edge
  <2>1. c.edge <= d.edge
    BY <1>0, <1>4 DEF Client
  <2> QED
    BY <1>4, <2>1 DEF Later, ClientOK
<1>5. Later(c, c) /\ Later(c, a) /\ a.edge = c.edge
  BY <1>0, <1>3, <1>4
<1>6. PICK r : r = [c EXCEPT !.state = "reset"]
  OBVIOUS
<1>7. PICK e : e = [c EXCEPT !.state = "established", !.rcv_nxt = m.seq + 1]
  OBVIOUS
<1>8. PICK z : z = [a EXCEPT !.state = "time_wait", !.rcv_nxt = m.seq + 1]
  OBVIOUS
<1>9. PICK x : x = Accepted(a, m)
  OBVIOUS
<1>10. PICK d : d = Received(c, m)
  OBVIOUS
<1>11. \/ d \in {c, a}
       \/ d = r
       \/ d = e /\ m.handler = "ref_synack"
       \/ d = z /\ c.state = "fin_wait" /\ m.seq = c.rcv_nxt
       \/ d = x /\ c.state \in {"established", "fin_wait"} /\ Continues(c, m)
  BY <1>1, <1>6, <1>7, <1>8, <1>9, <1>10 DEF Received
<1>12. CASE d = r
  <2>1. r \in Client /\ r.state = "reset" /\ r.edge = c.edge
    BY <1>0, <1>6 DEF Client, ClientStates
  <2> QED
    BY <1>4, <1>10, <1>12, <2>1 DEF ClientNumbers, Early
<1>13. CASE d = e /\ m.handler = "ref_synack"
  <2>1. PICK k : k = m.seq + 1
    OBVIOUS
  <2>2. k \in Nat /\ k > BASIC_SEQNO
    BY <1>13, <2>1, ConstantTypes DEF Readables
  <2>3. e \in Client /\ e.state = "established" /\ e.edge = c.edge /\ e.rcv_nxt = k
    BY <1>0, <1>7, <2>1, <2>2 DEF Client, ClientStates
  <2> QED
    BY <1>4, <1>10, <1>13, <2>2, <2>3 DEF ClientNumbers, Early
<1>14. CASE d = z /\ c.state = "fin_wait" /\ m.seq = c.rcv_nxt
  <2>1. PICK k : k = m.seq + 1
    OBVIOUS
  <2>2. k \in Nat /\ k > BASIC_SEQNO
    <3>1. c.rcv_nxt \in Nat /\ c.rcv_nxt > BASIC_SEQNO
      BY <1>0, <1>14 DEF Client, ClientNumbers, Early
    <3> QED
      BY <1>14, <2>1, <3>1, ConstantTypes
  <2>3. z \in Client /\ z.state = "time_wait" /\ z.edge = a.edge /\ z.rcv_nxt = k
    BY <1>3, <1>8, <2>1, <2>2 DEF Client, ClientStates
  <2> QED
    BY <1>3, <1>4, <1>10, <1>14, <2>2, <2>3 DEF ClientNumbers, Early
<1>15. CASE d = x /\ c.state \in {"established", "fin_wait"} /\ Continues(c, m)
  <2>1. Continues(a, m)
    BY <1>3, <1>15 DEF Continues
  <2>2. x \in Client /\ ClientNumbers(x) /\ x.edge = a.edge /\ x.state = a.state
    BY <1>0, <1>3, <1>9, <1>15, <2>1, AcceptedTypes
  <2> QED
    BY <1>3, <1>4, <1>10, <1>15, <2>2
<1> QED
  BY <1>5, <1>10, <1>11, <1>12, <1>13, <1>14, <1>15

\* What a client answers.
LEMMA RepliesSentBy ==
  ASSUME NEW c, ClientOK(c), NEW m, Readables(m), NEW w \in Windows, MayOffer(c, w),
         NEW s \in Replies(c, m, w)
  PROVE  SentBy(s, m.peer, Offered(c, w))
<1>0. c \in Client /\ ClientNumbers(c) /\ m \in OutSegment /\ m.peer \in Peers
  BY DEF ClientOK, Readables, OutSegment
<1>1. PICK l : l = LastAck(m.peer, c, w)
  OBVIOUS
<1>2. PICK t : t = ClientSegment(m.peer, c, w)
  OBVIOUS
<1>3. PICK r : r = Rst(m)
  OBVIOUS
<1>4. PICK S : S = Replies(c, m, w)
  OBVIOUS
<1>5. \/ S = {}
      \/ S = {l} /\ c.state = "time_wait"
      \/ S = {t} /\ c.state \in {"established", "fin_wait"}
      \/ S = {r}
  BY <1>1, <1>2, <1>3, <1>4 DEF Replies
<1>6. ASSUME c.state \notin Early, c.state # "reset"
      PROVE  SentBy(t, m.peer, Offered(c, w)) /\ t \in InSegment /\ t.len = 0 /\ t.flag = "ACK"
  BY <1>0, <1>2, <1>6, AckSentBy, ClientSegmentTypes
<1>7. CASE s = t /\ c.state \in {"established", "fin_wait"}
  BY <1>6, <1>7 DEF Early
<1>8. CASE s = l /\ c.state = "time_wait"
  <2>1. PICK n : n = (Iss[m.peer] + 2 + c.sent) % InMod
    OBVIOUS
  <2>2. n \in 0 .. InMod - 1
    <3>1. Iss[m.peer] \in Int /\ c.sent \in Int
      BY <1>0, ClientAssumption, ConstantTypes DEF Client
    <3>2. Iss[m.peer] + 2 + c.sent \in Int
      BY <3>1
    <3> QED
      BY <2>1, <3>2, ConstantTypes, Remainder
  <2>3. l = [t EXCEPT !.seq = n]
    BY <1>1, <1>2, <2>1 DEF LastAck
  <2>4. SentBy(t, m.peer, Offered(c, w)) /\ t \in InSegment /\ t.len = 0 /\ t.flag = "ACK"
    BY <1>6, <1>8 DEF Early
  <2>5. /\ l \in InSegment /\ l.peer = t.peer /\ l.ack = t.ack /\ l.len = 0 /\ l.cwnd = t.cwnd
        /\ l.flag = "ACK"
    BY <2>2, <2>3, <2>4 DEF InSegment
  <2> QED
    BY <1>8, <2>4, <2>5 DEF SentBy, Sensible
<1>9. CASE s = r
  <2>1. r \in InSegment
    BY <1>0, <1>3, U16Type, ConstantTypes DEF Rst, InSegment, OutSegment, NoText, Text
  <2>2. r.peer = m.peer /\ r.ack = 0 /\ r.len = 0 /\ r.flag = "RST" /\ r.cwnd = 0
    BY <1>3 DEF Rst
  <2> QED
    BY <1>9, <2>1, <2>2 DEF SentBy, Sensible
<1> QED
  BY <1>4, <1>5, <1>7, <1>8, <1>9

LEMMA ReceiveStep ==
  ASSUME \A q \in Peers : ClientOK(clients[q]), \A m \in to_clients : Readables(m),
         ClientReceive
  PROVE  \E p, d, S : ClientStep(p, d, S)
<1>1. PICK m \in to_clients, w \in Windows :
        LET c == Received(clients[m.peer], m) IN
        /\ MayOffer(c, w)
        /\ clients' = [clients EXCEPT ![m.peer] = IF Replies(c, m, w) = {} THEN c
                                                  ELSE Offered(c, w)]
        /\ to_server' = to_server \cup Replies(c, m, w)
        /\ UNCHANGED <<server, to_clients>>
  BY DEF ClientReceive
<1>2. Readables(m) /\ m.peer \in Peers
  BY DEF Readables, OutSegment
<1>3. PICK c : c = Received(clients[m.peer], m)
  OBVIOUS
<1>4. PICK S : S = Replies(c, m, w)
  OBVIOUS
<1>5. PICK d : d = IF S = {} THEN c ELSE Offered(c, w)
  OBVIOUS
<1>6. /\ MayOffer(c, w)
      /\ clients' = [clients EXCEPT ![m.peer] = d]
      /\ to_server' = to_server \cup S
      /\ UNCHANGED <<server, to_clients>>
  BY <1>1, <1>3, <1>4, <1>5
<1>7. Later(clients[m.peer], c) /\ c.edge = clients[m.peer].edge
  BY <1>2, <1>3, ReceivedLater
<1>8. ClientOK(c) /\ c \in Client /\ ClientNumbers(c)
  BY <1>7 DEF Later, ClientOK
<1>9. Later(clients[m.peer], d)
  <2>1. CASE d = c
    BY <1>7, <2>1
  <2>2. CASE d = Offered(c, w)
    <3>1. ClientOK(d) /\ c.edge <= d.edge /\ d.state = c.state
      BY <1>6, <1>8, <2>2, OfferedTypes
    <3> QED
      BY <1>7, <3>1 DEF Later
  <2> QED
    BY <1>5, <2>1, <2>2
<1>10. ASSUME NEW s \in S PROVE SentBy(s, m.peer, d)
  BY <1>2, <1>4, <1>5, <1>6, <1>8, RepliesSentBy
<1>11. ClientStep(m.peer, d, S)
  BY <1>2, <1>6, <1>9, <1>10 DEF ClientStep
<1> QED
  BY <1>11

----------------------------------------------------------------------------
\* The server and the clients over the network.

\* What holds of the connections of the server: a client has one if it is
\* one of the list.
ServerNumbers ==
  /\ \A p \in Peers : connections[p] # NoConnection =>
       Numbers(connections[p]) /\ connections[p].tcp_state # "listen"
  /\ \A s \in to_server : s \in InSegment /\ Sensible(s)

\* What holds of the clients.
ClientsNumbers ==
  /\ clients \in [Peers -> Client] /\ \A p \in Peers : ClientOK(clients[p])
  /\ \A m \in to_clients : Readables(m)

NetInv == ServerInv /\ ServerNumbers /\ ClientsNumbers

\* A connection of the server is one of these.
LEMMA ConnectionReadable ==
  ASSUME ServerInv, ServerNumbers, NEW p \in Peers, connections[p] # NoConnection
  PROVE  connections[p] \in Connection /\ Readable(connections[p])
BY DEF ServerInv, ServerTypes, ServerNumbers, Readable

LEMMA FreshReadable ==
  ASSUME ServerTypes, NEW m \in 0 .. MssMod - 1
  PROVE  /\ FreshConnection(m) \in Connection /\ Readable(FreshConnection(m))
         /\ FreshConnection(m).output_handler = None
<1>1. PICK c : c = FreshConnection(m)
  OBVIOUS
<1>2. c \in Connection
  BY <1>1, FreshTypes
<1>3. /\ c.output_handler = None /\ c.next_outseqno = BASIC_SEQNO /\ c.inflight = 0
      /\ c.parsing_state = "out" /\ c.tcp_state = "listen"
  BY <1>1 DEF FreshConnection
<1> QED
  BY <1>1, <1>2, <1>3, HandlerKinds, SynackIsControl DEF Readable, Numbers, Begins

\* smews_receive changes the connection of one client: to what it makes of
\* the connection of that client, or of a fresh one, or to none.
Receives(s) ==
  \A p \in Peers : connections'[p] # NoConnection =>
    \/ connections'[p] = connections[p]
    \/ /\ p = s.peer
       /\ \E c \in Connection : /\ Readable(c)
                                /\ c = connections[p] \/ c.output_handler = None
                                /\ connections'[p] = Processed(c, s)
                                /\ connections'[p].tcp_state # "listen"

LEMMA ReceiveReceives ==
  ASSUME ServerInv, ServerNumbers, NEW s \in InSegment, smews_receive(s)
  PROVE  Receives(s)
<1>0. /\ s.peer \in Peers /\ ServerTypes
      /\ connections \in [Peers -> Connection \cup {NoConnection}]
  BY DEF InSegment, ServerInv, ServerTypes
<1>1. CASE connections[s.peer] = NoConnection
  <2>1. PICK m \in (IF s.mss = 0 THEN 0 .. MssMod - 1 ELSE {0}) :
          LET c == Processed(FreshConnection(m), s) IN
          IF c.tcp_state = "syn_rcvd" /\ Len(all_connections) < heap_room
          THEN /\ add_connection(s.peer, c)
               /\ UNCHANGED rst_connection
          ELSE /\ rst_connection' = [peer |-> s.peer,
                                     current_inseqno |-> c.current_inseqno,
                                     next_outseqno |-> s.ack]
               /\ UNCHANGED <<connections, all_connections>>
    BY <1>1 DEF smews_receive, ReceiveUnknown
  <2>2. PICK f : f = FreshConnection(m)
    OBVIOUS
  <2>3. PICK c : c = Processed(f, s)
    OBVIOUS
  <2>4. m \in 0 .. MssMod - 1
    BY <2>1, ConstantTypes
  <2>5. f \in Connection /\ Readable(f) /\ f.output_handler = None
    BY <1>0, <2>2, <2>4, FreshReadable
  <2>6. \/ connections' = connections
        \/ /\ connections' = [connections EXCEPT ![s.peer] = c]
           /\ c.tcp_state = "syn_rcvd"
    BY <2>1, <2>2, <2>3 DEF add_connection
  <2> QED
    BY <1>0, <2>3, <2>5, <2>6 DEF Receives
<1>2. CASE connections[s.peer] # NoConnection
  <2>1. PICK c : c = Processed(connections[s.peer], s)
    OBVIOUS
  <2>2. \/ connections' = [connections EXCEPT ![s.peer] = NoConnection]
        \/ /\ connections' = [connections EXCEPT ![s.peer] = c]
           /\ c.tcp_state # "listen"
    BY <1>2, <2>1 DEF smews_receive, ReceiveKnown, free_connection
  <2>3. connections[s.peer] \in Connection /\ Readable(connections[s.peer])
    BY <1>0, <1>2, ConnectionReadable
  <2> QED
    BY <1>0, <2>1, <2>2, <2>3 DEF Receives
<1> QED
  BY <1>1, <1>2

\* smews_send sends the segment of a connection, which it changes, or a reset.
Sends ==
  \/ /\ Outgoing \in OutSegment /\ Outgoing.handler = "ref_rst" /\ Outgoing.len = 0
     /\ connections' = connections
  \/ \E p \in Peers :
       /\ connections[p] \in Connection /\ Readable(connections[p])
       /\ connections[p].tcp_state # "listen"
       /\ able_to_send(connections[p])
       /\ Outgoing = Segment(p, connections[p])
       /\ connections' = [connections EXCEPT ![p] = Sent(p, connections[p])]

LEMMA SendSends ==
  ASSUME ServerInv, ServerNumbers, smews_send
  PROVE  Sends
<1>1. CASE SendReset
  <2>1. rst_connection \in Reset /\ connections' = connections
    BY <1>1 DEF SendReset, ServerInv, ServerTypes
  <2>2. Outgoing = ResetSegment
    BY <1>1 DEF SendReset, Outgoing
  <2>3. ResetSegment \in OutSegment /\ ResetSegment.handler = "ref_rst" /\ ResetSegment.len = 0
    BY <2>1 DEF ResetSegment, Reset, OutSegment
  <2> QED
    BY <2>1, <2>2, <2>3 DEF Sends
<1>2. CASE SendConnection
  <2>1. PICK p : p = Active
    OBVIOUS
  <2>2. p \in Peers /\ connections[p] # NoConnection /\ able_to_send(connections[p])
    BY <1>2, <2>1, ActiveFacts, ConnectionIsOne DEF SendConnection
  <2>3. connections[p] \in Connection /\ Readable(connections[p])
    BY <2>2, ConnectionReadable
  <2>4. connections[p].tcp_state # "listen"
    BY <2>2 DEF ServerNumbers
  <2>5. /\ Outgoing = Segment(p, connections[p])
        /\ connections' = [connections EXCEPT ![p] = Sent(p, connections[p])]
    BY <1>2, <2>1 DEF SendConnection, Outgoing
  <2> QED
    BY <2>2, <2>3, <2>4, <2>5 DEF Sends
<1> QED
  BY <1>1, <1>2 DEF smews_send

\* A step of a client is one of these.
LEMMA ClientSteps ==
  ASSUME ClientsNumbers, ClientSyn \/ ClientRequest \/ ClientFin \/ ClientReceive
  PROVE  \E p, d, S : ClientStep(p, d, S)
BY SynStep, RequestStep, FinStep, ReceiveStep DEF ClientsNumbers

LEMMA SameServer ==
  ASSUME ServerInv, UNCHANGED server
  PROVE  ServerInv'
BY DEF server, ServerInv, ServerTypes, ListIsConnections

LEMMA InitNet == NetInit => NetInv
<1> SUFFICES ASSUME NetInit PROVE NetInv
  OBVIOUS
<1>1. ServerInv
  BY InitServer DEF NetInit
<1>2. ServerNumbers
  BY DEF NetInit, Init, ServerNumbers
<1>3. << >> \in Seq(Files \X Int)
  BY EmptySeq
<1>4. ClientsNumbers
  BY <1>3 DEF NetInit, ClientInit, ClientsNumbers, ClientOK, Client, ClientStates, ClientNumbers, Early
<1> QED
  BY <1>1, <1>2, <1>4 DEF NetInv

LEMMA NetStep == NetInv /\ [Next]_vars => NetInv'
<1> SUFFICES ASSUME NetInv, [Next]_vars PROVE NetInv'
  OBVIOUS
<1>0. ServerInv /\ ServerTypes /\ ServerNumbers /\ ClientsNumbers
  BY DEF NetInv, ServerInv
<1>1. CASE UNCHANGED vars
  <2>1. UNCHANGED server /\ UNCHANGED <<connections, clients, to_server, to_clients>>
    BY <1>1 DEF vars, server
  <2> QED
    BY <1>0, <2>1, SameServer DEF NetInv, ServerNumbers, ClientsNumbers
<1>2. CASE ClientSyn \/ ClientRequest \/ ClientFin \/ ClientReceive
  <2>1. PICK p, d, S : ClientStep(p, d, S)
    BY <1>0, <1>2, ClientSteps
  <2>2. /\ p \in Peers /\ ClientOK(d) /\ d \in Client
        /\ clients' = [clients EXCEPT ![p] = d]
        /\ to_server' = to_server \cup S
        /\ \A s \in S : s \in InSegment /\ Sensible(s)
        /\ UNCHANGED server /\ UNCHANGED connections /\ UNCHANGED to_clients
    BY <2>1 DEF ClientStep, Later, ClientOK, SentBy, server
  <2>3. ServerNumbers'
    BY <1>0, <2>2 DEF ServerNumbers
  <2>4. ClientsNumbers'
    BY <1>0, <2>2 DEF ClientsNumbers
  <2> QED
    BY <1>0, <2>2, <2>3, <2>4, SameServer DEF NetInv
<1>3. CASE ServerReceive
  <2>1. PICK s \in to_server : smews_receive(s)
    BY <1>3 DEF ServerReceive
  <2>2. UNCHANGED <<clients, to_server, to_clients>>
    BY <1>3 DEF ServerReceive
  <2>3. s \in InSegment /\ Sensible(s)
    BY <1>0 DEF ServerNumbers
  <2>4. ServerInv'
    BY <1>0, <2>1, <2>3, ReceiveKeepsServer
  <2>5. Receives(s)
    BY <1>0, <2>1, <2>3, ReceiveReceives
  <2>6. ASSUME NEW p \in Peers, connections'[p] # NoConnection
        PROVE  Numbers(connections'[p]) /\ connections'[p].tcp_state # "listen"
    <3>1. CASE connections'[p] = connections[p]
      BY <1>0, <2>6, <3>1 DEF ServerNumbers
    <3>2. CASE \E c \in Connection : /\ Readable(c)
                                     /\ connections'[p] = Processed(c, s)
                                     /\ connections'[p].tcp_state # "listen"
      BY <2>3, <3>2, ReceiveNumbers
    <3> QED
      BY <2>5, <2>6, <3>1, <3>2 DEF Receives
  <2>7. ServerNumbers'
    BY <1>0, <2>2, <2>6 DEF ServerNumbers
  <2>8. ClientsNumbers'
    BY <1>0, <2>2 DEF ClientsNumbers
  <2> QED
    BY <2>4, <2>7, <2>8 DEF NetInv
<1>4. CASE ServerSend
  <2>1. /\ smews_send
        /\ to_clients' = to_clients \cup {Outgoing}
        /\ UNCHANGED <<clients, to_server>>
    BY <1>4 DEF ServerSend
  <2>2. ServerInv'
    BY <1>0, <2>1, SendKeepsServer
  <2>3. Sends
    BY <1>0, <2>1, SendSends
  <2>4. last_transmission_time \in 0 .. TickMod - 1 /\ 0 \in Int
    BY <1>0 DEF ServerTypes
  <2>5. /\ Readables(Outgoing)
        /\ \A p \in Peers : connections'[p] # NoConnection =>
             Numbers(connections'[p]) /\ connections'[p].tcp_state # "listen"
    <3>1. CASE /\ Outgoing \in OutSegment /\ Outgoing.handler = "ref_rst"
               /\ connections' = connections
      BY <1>0, <3>1 DEF ServerNumbers, Readables
    <3>2. ASSUME NEW p \in Peers,
                 connections[p] \in Connection, Readable(connections[p]),
                 connections[p].tcp_state # "listen",
                 able_to_send(connections[p]),
                 Outgoing = Segment(p, connections[p]),
                 connections' = [connections EXCEPT ![p] = Sent(p, connections[p])]
          PROVE  /\ Readables(Outgoing)
                 /\ \A q \in Peers : connections'[q] # NoConnection =>
                      Numbers(connections'[q]) /\ connections'[q].tcp_state # "listen"
      <4>1. PICK c : c = connections[p]
        OBVIOUS
      <4>2. c \in Connection /\ Numbers(c) /\ able_to_send(c) /\ c.tcp_state # "listen"
        BY <3>2, <4>1 DEF Readable
      <4>3. /\ Segment(p, c) \in OutSegment
            /\ Segment(p, c).handler = "ref_synack" => Segment(p, c).seq = BASIC_SEQNO
            /\ Numbers(Sent(p, c)) /\ Sent(p, c).tcp_state = c.tcp_state
        BY <2>4, <4>2, SentWithin
      <4>4. PICK d : d = Sent(p, c)
        OBVIOUS
      <4>5. connections' = [connections EXCEPT ![p] = d]
        BY <3>2, <4>1, <4>4
      <4>6. \A q \in Peers : connections'[q] = IF q = p THEN d ELSE connections[q]
        BY <1>0, <4>5 DEF ServerTypes
      <4> QED
        BY <1>0, <3>2, <4>1, <4>2, <4>3, <4>4, <4>6 DEF ServerNumbers, Readables
    <3> QED
      BY <2>3, <3>1, <3>2 DEF Sends
  <2>6. ServerNumbers'
    BY <1>0, <2>1, <2>5 DEF ServerNumbers
  <2>7. ClientsNumbers'
    BY <1>0, <2>1, <2>5 DEF ClientsNumbers
  <2> QED
    BY <2>2, <2>6, <2>7 DEF NetInv
<1>5. CASE ServerTick
  <2>1. smews_retransmit /\ UNCHANGED <<clients, to_server, to_clients>>
    BY <1>5 DEF ServerTick
  <2>2. ServerInv'
    BY <1>0, <2>1, RetransmitKeepsServer
  <2>3. PICK now : now = (last_transmission_time + 1) % TickMod
    OBVIOUS
  <2>4. now \in 0 .. TickMod - 1
    BY <1>0, <2>3, Remainder, ConstantTypes DEF ServerTypes
  <2>5. connections' = [p \in Peers |-> RolledBack(connections[p], now)]
    BY <2>1, <2>3 DEF smews_retransmit
  <2>6. ASSUME NEW p \in Peers, connections'[p] # NoConnection
        PROVE  Numbers(connections'[p]) /\ connections'[p].tcp_state # "listen"
    <3>1. PICK c : c = connections[p]
      OBVIOUS
    <3>2. c # NoConnection
      BY <2>5, <2>6, <3>1 DEF RolledBack
    <3>3. c \in Connection /\ Numbers(c) /\ c.tcp_state # "listen"
      BY <1>0, <3>1, <3>2 DEF ServerTypes, ServerNumbers
    <3>4. 0 \in Int
      OBVIOUS
    <3>5. Numbers(RolledBack(c, now)) /\ RolledBack(c, now).tcp_state = c.tcp_state
      BY <2>4, <3>3, <3>4, RolledBackWithin
    <3> QED
      BY <2>5, <3>1, <3>3, <3>5
  <2>7. ServerNumbers'
    BY <1>0, <2>1, <2>6 DEF ServerNumbers
  <2>8. ClientsNumbers'
    BY <1>0, <2>1 DEF ClientsNumbers
  <2> QED
    BY <2>2, <2>7, <2>8 DEF NetInv
<1>6. CASE Lost
  <2>1. /\ to_server' \subseteq to_server /\ to_clients' \subseteq to_clients
        /\ UNCHANGED server /\ UNCHANGED <<connections, clients>>
    BY <1>6 DEF Lost, server
  <2>2. ServerNumbers'
    BY <1>0, <2>1 DEF ServerNumbers
  <2>3. ClientsNumbers'
    BY <1>0, <2>1 DEF ClientsNumbers
  <2> QED
    BY <1>0, <2>1, <2>2, <2>3, SameServer DEF NetInv
<1> QED
  BY <1>1, <1>2, <1>3, <1>4, <1>5, <1>6 DEF Next

LEMMA NetTypesHold == NetInv => TypeOK
BY DEF NetInv, ServerInv, ServerTypes, ServerNumbers, ClientsNumbers, Readables, TypeOK

\* Over a network that loses, duplicates and reorders, every variable keeps
\* to the values of its C type: a connection never has a sequence number, a
\* state or a handler that the code does not know, whatever client sends it.
THEOREM NetTypes == Spec => []TypeOK
BY InitNet, NetStep, NetTypesHold, PTL DEF Spec

\* The server of the network is the server in any environment.
LEMMA NetServerStep == NetInv /\ [Next]_vars => [ServerNext]_server
<1> SUFFICES ASSUME NetInv, [Next]_vars PROVE [ServerNext]_server
  OBVIOUS
<1>1. CASE UNCHANGED vars
  BY <1>1 DEF vars
<1>2. CASE ServerReceive
  BY <1>2 DEF ServerReceive, ServerNext, NetInv, ServerNumbers
<1>3. CASE ServerSend
  BY <1>3 DEF ServerSend, ServerNext
<1>4. CASE ServerTick
  BY <1>4 DEF ServerTick, ServerNext
<1>5. CASE Lost \/ ClientSyn \/ ClientRequest \/ ClientFin \/ ClientReceive
  BY <1>5 DEF Lost, ClientSyn, ClientRequest, ClientFin, ClientReceive
<1> QED
  BY <1>1, <1>2, <1>3, <1>4, <1>5 DEF Next

\* What the server does with its clients over the network it may do in some
\* environment: what is proved of the server alone, its list and the turns of
\* its connections, holds over the network.
THEOREM NetIsServer == Spec => ServerSpec
<1>1. NetInit => Init
  BY DEF NetInit
<1> QED
  BY <1>1, InitNet, NetStep, NetServerStep, PTL DEF Spec, ServerSpec

\* Over the network the circular list holds each connection once, as smews_send
\* and the loops of smews_receive rely on.
THEOREM NetListIsConnections == Spec => []ListIsConnections
BY NetIsServer, ServerListIsConnections, PTL

\* Over the network each segment that smews_send sends to one client brings
\* every other one that could send closer to the head.
THEOREM NetTakesTurns == Spec => TakeTurns
BY NetIsServer, ServerTakesTurns, PTL

----------------------------------------------------------------------------
\* The windows of the clients.

\* A window is in its range.
LEMMA WindowTypesHold == \A w \in Windows : w \in Int /\ 0 <= w
BY ClientAssumption, U16Type

\* What is within a window is within a larger one.
LEMMA WithinLarger ==
  ASSUME NEW c \in Connection, NEW e \in Int, NEW f \in Int, Within(c, e), e <= f
  PROVE  Within(c, f)
<1>1. c.next_outseqno \in Int /\ c.inflight \in Int /\ c.cwnd \in Int
  BY U16Type DEF Connection
<1>2. PICK n : n = c.next_outseqno - c.inflight
  OBVIOUS
<1>3. n \in Int
  BY <1>1, <1>2
<1> SUFFICES ASSUME c.output_handler \in Files
             PROVE  /\ c.next_outseqno <= f
                    /\ n + c.cwnd <= f
                    /\ \E w \in Windows : n + w <= f
  BY <1>2 DEF Within
<1>4. c.next_outseqno <= e /\ n + c.cwnd <= e
  BY <1>2 DEF Within
<1>5. PICK w \in Windows : n + w <= e
  BY <1>2 DEF Within
<1>6. w \in Int
  BY WindowTypesHold
<1>7. n + w <= f
  BY <1>3, <1>5, <1>6
<1> QED
  BY <1>1, <1>3, <1>4, <1>7

\* A connection keeps within the window of its client, to which it answers
\* only when it has a request.
ConnectionsWithin ==
  \A p \in Peers : connections[p] # NoConnection =>
    /\ Within(connections[p], clients[p].edge)
    /\ connections[p].output_handler \in Files => clients[p].state \notin Early

\* A segment offers the window of its client, or less.
SegmentsWithin ==
  \A s \in to_server :
    /\ s.ack # 0 => s.cwnd \in Windows /\ s.ack + s.cwnd <= clients[s.peer].edge
    /\ s.flag = "RST" => s.cwnd = 0
    /\ s.len > 0 => clients[s.peer].state \notin Early

WindowInv == ConnectionsWithin /\ SegmentsWithin /\ WindowRespected

LEMMA EdgeTypes ==
  ASSUME ClientsNumbers, NEW p \in Peers
  PROVE  clients[p].edge \in Int
BY DEF ClientsNumbers, ClientOK, Client

\* The step of a client moves its window forward, if at all.
LEMMA ClientKeepsWindow ==
  ASSUME NetInv, WindowInv, NEW p, NEW d, NEW S, ClientStep(p, d, S)
  PROVE  WindowInv'
<1>0. /\ ServerTypes /\ ServerNumbers /\ ClientsNumbers
      /\ ConnectionsWithin /\ SegmentsWithin /\ WindowRespected
  BY DEF NetInv, ServerInv, WindowInv
<1>1. /\ p \in Peers
      /\ clients' = [clients EXCEPT ![p] = d] /\ to_server' = to_server \cup S
      /\ UNCHANGED connections /\ UNCHANGED to_clients
  BY DEF ClientStep, server
<1>2. /\ clients[p].edge <= d.edge /\ d.edge \in Int
      /\ clients[p].state \notin Early => d.state \notin Early
  BY DEF ClientStep, Later, ClientOK, Client
<1>3. \A q \in Peers : clients'[q] = IF q = p THEN d ELSE clients[q]
  BY <1>0, <1>1 DEF ClientsNumbers
<1>4. \A q \in Peers : /\ clients[q].edge \in Int /\ clients'[q].edge \in Int
                       /\ clients[q].edge <= clients'[q].edge
                       /\ clients[q].state \notin Early => clients'[q].state \notin Early
  BY <1>0, <1>2, <1>3, EdgeTypes
<1>5. ConnectionsWithin'
  <2>1. ASSUME NEW q \in Peers, connections[q] # NoConnection
        PROVE  /\ Within(connections[q], clients'[q].edge)
               /\ connections[q].output_handler \in Files => clients'[q].state \notin Early
    <3>1. connections[q] \in Connection
      BY <1>0, <2>1 DEF ServerTypes
    <3>2. /\ Within(connections[q], clients[q].edge)
          /\ connections[q].output_handler \in Files => clients[q].state \notin Early
      BY <1>0, <2>1 DEF ConnectionsWithin
    <3> QED
      BY <1>4, <3>1, <3>2, WithinLarger
  <2> QED
    BY <1>1, <2>1 DEF ConnectionsWithin
<1>6. SegmentsWithin'
  <2>1. ASSUME NEW s \in to_server
        PROVE  /\ s.ack # 0 => s.cwnd \in Windows /\ s.ack + s.cwnd <= clients'[s.peer].edge
               /\ s.flag = "RST" => s.cwnd = 0
               /\ s.len > 0 => clients'[s.peer].state \notin Early
    <3>1. s.peer \in Peers /\ s.ack \in Int /\ s.cwnd \in Int
      BY <1>0, U16Type DEF ServerNumbers, InSegment
    <3>2. PICK n : n = s.ack + s.cwnd
      OBVIOUS
    <3> QED
      BY <1>0, <1>4, <3>1, <3>2 DEF SegmentsWithin
  <2>2. ASSUME NEW s \in S
        PROVE  /\ s.ack # 0 => s.cwnd \in Windows /\ s.ack + s.cwnd <= clients'[s.peer].edge
               /\ s.flag = "RST" => s.cwnd = 0
               /\ s.len > 0 => clients'[s.peer].state \notin Early
    BY <1>1, <1>3 DEF ClientStep, SentBy
  <2> QED
    BY <1>1, <2>1, <2>2 DEF SegmentsWithin
<1>7. WindowRespected'
  <2>1. ASSUME NEW m \in to_clients, m.len > 0
        PROVE  m.seq + m.len <= clients'[m.peer].edge
    <3>1. m.peer \in Peers /\ m.seq \in Int /\ m.len \in Int
      BY <1>0 DEF ClientsNumbers, Readables, OutSegment
    <3>2. PICK n : n = m.seq + m.len
      OBVIOUS
    <3>3. n <= clients[m.peer].edge /\ n \in Int
      BY <1>0, <2>1, <3>1, <3>2 DEF WindowRespected
    <3> QED
      BY <1>4, <3>1, <3>2, <3>3
  <2> QED
    BY <1>1, <2>1 DEF WindowRespected
<1> QED
  BY <1>5, <1>6, <1>7 DEF WindowInv

\* A segment received leaves the connection within the window.
LEMMA ReceiveKeepsWindow ==
  ASSUME NetInv, WindowInv, SegmentLifetime, ServerReceive
  PROVE  WindowInv'
<1>0. /\ ServerInv /\ ServerTypes /\ ServerNumbers /\ ClientsNumbers
      /\ ConnectionsWithin /\ SegmentsWithin /\ WindowRespected
  BY DEF NetInv, ServerInv, WindowInv
<1>1. PICK s \in to_server : smews_receive(s)
  BY DEF ServerReceive
<1>2. UNCHANGED <<clients, to_server, to_clients>>
  BY DEF ServerReceive
<1>3. s \in InSegment /\ Sensible(s) /\ s.peer \in Peers
  BY <1>0 DEF ServerNumbers, InSegment
<1>4. Receives(s)
  BY <1>0, <1>1, <1>3, ReceiveReceives
<1>5. PICK e : e = clients[s.peer].edge
  OBVIOUS
<1>6. e \in Int
  BY <1>0, <1>3, <1>5, EdgeTypes
<1>7. Offers(s, e)
  BY <1>0, <1>5 DEF SegmentsWithin, SegmentLifetime, Offers
<1>8. s.flag = "SYN" => clients[s.peer].state \in Early \/ \A w \in Windows : s.cwnd <= w
  BY DEF SegmentLifetime, Early
<1>9. ASSUME NEW p \in Peers, connections'[p] # NoConnection
      PROVE  /\ Within(connections'[p], clients[p].edge)
             /\ connections'[p].output_handler \in Files => clients[p].state \notin Early
  <2>1. CASE connections'[p] = connections[p]
    BY <1>0, <1>9, <2>1 DEF ConnectionsWithin
  <2>2. CASE /\ p = s.peer
             /\ \E c \in Connection : /\ Readable(c)
                                      /\ c = connections[p] \/ c.output_handler = None
                                      /\ connections'[p] = Processed(c, s)
                                      /\ connections'[p].tcp_state # "listen"
    <3>1. PICK c \in Connection : /\ Readable(c)
                                  /\ c = connections[p] \/ c.output_handler = None
                                  /\ connections'[p] = Processed(c, s)
                                  /\ connections'[p].tcp_state # "listen"
      BY <2>2
    <3>2. /\ Within(c, e)
          /\ c.output_handler \in Files => clients[p].state \notin Early
      <4>1. CASE c.output_handler = None
        BY <4>1, HandlerKinds DEF Within
      <4>2. CASE c = connections[p]
        BY <1>0, <1>5, <2>2, <4>2, ConnectionIsOne DEF ConnectionsWithin
      <4> QED
        BY <3>1, <4>1, <4>2
    <3>3. s.flag = "SYN" => c.output_handler \notin Files \/ \A w \in Windows : s.cwnd <= w
      BY <1>8, <2>2, <3>2
    <3>4. PICK r : r = Processed(c, s)
      OBVIOUS
    <3>5. r.tcp_state # "listen"
      BY <3>1, <3>4
    <3>6. /\ Within(r, e)
          /\ r.output_handler \in Files => c.output_handler \in Files \/ s.len > 0
      BY <1>3, <1>6, <1>7, <3>2, <3>3, <3>4, <3>5, ReceiveWithin
    <3>7. s.len > 0 => clients[p].state \notin Early
      BY <1>0, <2>2 DEF SegmentsWithin
    <3> QED
      BY <1>5, <2>2, <3>1, <3>2, <3>4, <3>6, <3>7
  <2> QED
    BY <1>4, <1>9, <2>1, <2>2 DEF Receives
<1>10. ConnectionsWithin'
  BY <1>2, <1>9 DEF ConnectionsWithin
<1>11. SegmentsWithin' /\ WindowRespected'
  BY <1>0, <1>2 DEF SegmentsWithin, WindowRespected
<1> QED
  BY <1>10, <1>11 DEF WindowInv

\* A segment sent is within the window, and so is the connection after it.
LEMMA SendKeepsWindow ==
  ASSUME NetInv, WindowInv, ServerSend
  PROVE  WindowInv'
<1>0. /\ ServerInv /\ ServerTypes /\ ServerNumbers /\ ClientsNumbers
      /\ ConnectionsWithin /\ SegmentsWithin /\ WindowRespected
  BY DEF NetInv, ServerInv, WindowInv
<1>1. /\ smews_send
      /\ to_clients' = to_clients \cup {Outgoing}
      /\ UNCHANGED <<clients, to_server>>
  BY DEF ServerSend
<1>2. Sends
  BY <1>0, <1>1, SendSends
<1>3. last_transmission_time \in 0 .. TickMod - 1
  BY <1>0 DEF ServerTypes
<1>4. /\ Outgoing.len > 0 => Outgoing.seq + Outgoing.len <= clients[Outgoing.peer].edge
      /\ ConnectionsWithin'
  <2>1. CASE Outgoing \in OutSegment /\ Outgoing.len = 0 /\ connections' = connections
    BY <1>0, <1>1, <2>1 DEF ConnectionsWithin
  <2>2. ASSUME NEW p \in Peers,
               connections[p] \in Connection, Readable(connections[p]),
               able_to_send(connections[p]),
               Outgoing = Segment(p, connections[p]),
               connections' = [connections EXCEPT ![p] = Sent(p, connections[p])]
        PROVE  /\ Outgoing.len > 0 => Outgoing.seq + Outgoing.len <= clients[Outgoing.peer].edge
               /\ ConnectionsWithin'
    <3>1. PICK c : c = connections[p]
      OBVIOUS
    <3>2. PICK e : e = clients[p].edge
      OBVIOUS
    <3>3. e \in Int
      BY <1>0, <3>2, EdgeTypes
    <3>4. c \in Connection /\ Numbers(c) /\ able_to_send(c) /\ c # NoConnection
      BY <2>2, <3>1, ConnectionIsOne DEF Readable
    <3>5. Within(c, e) /\ (c.output_handler \in Files => clients[p].state \notin Early)
      BY <1>0, <3>1, <3>2, <3>4 DEF ConnectionsWithin
    <3>6. PICK d : d = Sent(p, c)
      OBVIOUS
    <3>7. PICK m : m = Segment(p, c)
      OBVIOUS
    <3>8. /\ m.peer = p /\ (m.len > 0 => m.seq + m.len <= e)
          /\ Within(d, e) /\ (d.output_handler \in Files => c.output_handler \in Files)
      BY <1>3, <3>3, <3>4, <3>5, <3>6, <3>7, SentWithin
    <3>9. Outgoing = m
      BY <2>2, <3>1, <3>7
    <3>10. connections' = [connections EXCEPT ![p] = d]
      BY <2>2, <3>1, <3>6
    <3>11. \A q \in Peers : connections'[q] = IF q = p THEN d ELSE connections[q]
      BY <1>0, <3>10 DEF ServerTypes
    <3>12. ConnectionsWithin'
      BY <1>0, <1>1, <3>2, <3>5, <3>8, <3>11 DEF ConnectionsWithin
    <3> QED
      BY <3>2, <3>8, <3>9, <3>12
  <2> QED
    BY <1>2, <2>1, <2>2 DEF Sends
<1>5. WindowRespected'
  BY <1>0, <1>1, <1>4 DEF WindowRespected
<1>6. SegmentsWithin'
  BY <1>0, <1>1 DEF SegmentsWithin
<1> QED
  BY <1>4, <1>5, <1>6 DEF WindowInv

LEMMA TickKeepsWindow ==
  ASSUME NetInv, WindowInv, ServerTick
  PROVE  WindowInv'
<1>0. /\ ServerTypes /\ ServerNumbers /\ ClientsNumbers
      /\ ConnectionsWithin /\ SegmentsWithin /\ WindowRespected
  BY DEF NetInv, ServerInv, WindowInv
<1>1. smews_retransmit /\ UNCHANGED <<clients, to_server, to_clients>>
  BY DEF ServerTick
<1>2. PICK now : now = (last_transmission_time + 1) % TickMod
  OBVIOUS
<1>3. now \in 0 .. TickMod - 1
  BY <1>0, <1>2, Remainder, ConstantTypes DEF ServerTypes
<1>4. connections' = [p \in Peers |-> RolledBack(connections[p], now)]
  BY <1>1, <1>2 DEF smews_retransmit
<1>5. ASSUME NEW p \in Peers, connections'[p] # NoConnection
      PROVE  /\ Within(connections'[p], clients[p].edge)
             /\ connections'[p].output_handler \in Files => clients[p].state \notin Early
  <2>1. PICK c : c = connections[p]
    OBVIOUS
  <2>2. c # NoConnection
    BY <1>4, <1>5, <2>1 DEF RolledBack
  <2>3. c \in Connection /\ Numbers(c)
    BY <1>0, <2>1, <2>2 DEF ServerTypes, ServerNumbers
  <2>4. PICK e : e = clients[p].edge
    OBVIOUS
  <2>5. e \in Int
    BY <1>0, <2>4, EdgeTypes
  <2>6. Within(c, e) /\ (c.output_handler \in Files => clients[p].state \notin Early)
    BY <1>0, <2>1, <2>2, <2>4 DEF ConnectionsWithin
  <2>7. PICK d : d = RolledBack(c, now)
    OBVIOUS
  <2>8. Within(d, e) /\ d.output_handler = c.output_handler
    BY <1>3, <2>3, <2>5, <2>6, <2>7, RolledBackWithin
  <2> QED
    BY <1>4, <2>1, <2>4, <2>6, <2>7, <2>8
<1>6. ConnectionsWithin'
  BY <1>1, <1>5 DEF ConnectionsWithin
<1>7. SegmentsWithin' /\ WindowRespected'
  BY <1>0, <1>1 DEF SegmentsWithin, WindowRespected
<1> QED
  BY <1>6, <1>7 DEF WindowInv

LEMMA WindowStep == NetInv /\ WindowInv /\ SegmentLifetime /\ [Next]_vars => WindowInv'
<1> SUFFICES ASSUME NetInv, WindowInv, SegmentLifetime, [Next]_vars PROVE WindowInv'
  OBVIOUS
<1>1. CASE UNCHANGED vars
  BY <1>1 DEF vars, server, WindowInv, ConnectionsWithin, SegmentsWithin, WindowRespected
<1>2. CASE Lost
  <2>1. /\ to_server' \subseteq to_server /\ to_clients' \subseteq to_clients
        /\ UNCHANGED <<connections, clients>>
    BY <1>2 DEF Lost, server
  <2> QED
    BY <2>1 DEF WindowInv, ConnectionsWithin, SegmentsWithin, WindowRespected
<1>3. CASE ClientSyn \/ ClientRequest \/ ClientFin \/ ClientReceive
  <2>1. PICK p, d, S : ClientStep(p, d, S)
    BY <1>3, ClientSteps DEF NetInv
  <2> QED
    BY <2>1, ClientKeepsWindow
<1> QED
  BY <1>1, <1>2, <1>3, ReceiveKeepsWindow, SendKeepsWindow, TickKeepsWindow DEF Next

LEMMA InitWindow == NetInit => WindowInv
BY DEF NetInit, Init, WindowInv, ConnectionsWithin, SegmentsWithin, WindowRespected

\* The server never sends a byte beyond the window its client has offered,
\* whatever is lost, duplicated or seen late, as long as what is seen late is
\* at most 64 KB behind, and the window of a late SYN at most as large as the
\* ones after it: the window that can_send uses is then always that of the
\* acknowledgment that the bytes in flight are counted from, or a smaller one.
THEOREM NetWindowRespected == Spec /\ []SegmentLifetime => []WindowRespected
<1>1. WindowInv => WindowRespected
  BY DEF WindowInv
<1> QED
  BY InitNet, NetStep, InitWindow, WindowStep, <1>1, PTL DEF Spec

----------------------------------------------------------------------------
\* The answers to the requests of a client.

\* What AnswerLength adds up: the lengths of the first k answers to p.
Sums(p, k, f) ==
  f = [i \in 0 .. k |-> IF i = 0 THEN 0 ELSE f[i - 1] + Length[Requests[p][i]]]

\* There is such a sum for any number of answers.
LEMMA SumsExist ==
  ASSUME NEW p, NEW k \in Nat
  PROVE  \E f : Sums(p, k, f)
<1> DEFINE T == {m \in Nat : ~ \E f : Sums(p, m, f)}
<1> SUFFICES ASSUME T # {} PROVE FALSE
  OBVIOUS
<1>1. PICK m \in T : \A j \in T : m <= j
  BY Least
<1>2. m \in Nat /\ ~ \E f : Sums(p, m, f)
  OBVIOUS
<1>3. m # 0
  <2>1. PICK f : f = [i \in 0 .. 0 |-> 0]
    OBVIOUS
  <2>2. Sums(p, 0, f)
    BY <2>1 DEF Sums
  <2> QED
    BY <1>2, <2>2
<1>4. m - 1 \in Nat /\ m - 1 \notin T
  BY <1>1, <1>2, <1>3
<1>5. PICK f : Sums(p, m - 1, f)
  BY <1>4
<1>6. PICK l : l = f[m - 1] + Length[Requests[p][m]]
  OBVIOUS
<1>7. PICK g : g = [i \in 0 .. m |-> IF i = m THEN l ELSE f[i]]
  OBVIOUS
<1> HIDE DEF T
<1>8. ASSUME NEW i \in 0 .. m
      PROVE  g[i] = IF i = 0 THEN 0 ELSE g[i - 1] + Length[Requests[p][i]]
  <2>1. CASE i = m
    <3>1. m - 1 \in 0 .. m /\ m - 1 # m /\ m \in 0 .. m
      BY <1>2, <1>3
    <3>2. g[m] = l /\ g[m - 1] = f[m - 1]
      BY <1>7, <3>1
    <3> QED
      BY <1>3, <1>6, <2>1, <3>2
  <2>2. CASE i # m
    <3>1. i \in 0 .. m - 1
      BY <1>2, <2>2
    <3>2. f[i] = IF i = 0 THEN 0 ELSE f[i - 1] + Length[Requests[p][i]]
      BY <1>5, <3>1 DEF Sums
    <3>3. i # 0 => i - 1 \in 0 .. m /\ i - 1 # m
      BY <1>2, <3>1
    <3>4. g[i] = f[i] /\ (i # 0 => g[i - 1] = f[i - 1])
      BY <1>7, <2>2, <3>3
    <3> QED
      BY <3>2, <3>4
  <2> QED
    BY <2>1, <2>2
<1>9. Sums(p, m, g)
  BY <1>7, <1>8 DEF Sums
<1> QED
  BY <1>2, <1>9

\* AnswerLength is one.
LEMMA LengthSums ==
  ASSUME NEW p, NEW k \in Nat
  PROVE  \E f : Sums(p, k, f) /\ AnswerLength(p, k) = f[k]
<1> DEFINE F == CHOOSE f : Sums(p, k, f)
<1>1. Sums(p, k, F)
  BY SumsExist
<1>2. AnswerLength(p, k) = F[k]
  BY DEF AnswerLength, Sums
<1> QED
  BY <1>1, <1>2

\* One more answer adds its length.
LEMMA LengthSteps ==
  ASSUME NEW p, NEW k \in Nat
  PROVE  /\ AnswerLength(p, 0) = 0
         /\ AnswerLength(p, k + 1) = AnswerLength(p, k) + Length[Requests[p][k + 1]]
<1>1. AnswerLength(p, 0) = 0
  <2>1. PICK f : Sums(p, 0, f) /\ AnswerLength(p, 0) = f[0]
    BY LengthSums
  <2> QED
    BY <2>1 DEF Sums
<1>2. PICK f : Sums(p, k, f) /\ AnswerLength(p, k) = f[k]
  BY LengthSums
<1>3. PICK g : Sums(p, k + 1, g) /\ AnswerLength(p, k + 1) = g[k + 1]
  <2>1. k + 1 \in Nat
    OBVIOUS
  <2> QED
    BY <2>1, LengthSums
<1>4. f[k] = g[k]
  <2> DEFINE T == {i \in 0 .. k : f[i] # g[i]}
  <2>1. ASSUME T # {} PROVE FALSE
    <3>1. T \subseteq Nat
      OBVIOUS
    <3>2. PICK m \in T : \A j \in T : m <= j
      BY <2>1, <3>1, Least
    <3>3. m \in 0 .. k /\ f[m] # g[m] /\ m \in 0 .. k + 1
      OBVIOUS
    <3>4. f[m] = (IF m = 0 THEN 0 ELSE f[m - 1] + Length[Requests[p][m]])
      BY <1>2, <3>3 DEF Sums
    <3>5. g[m] = (IF m = 0 THEN 0 ELSE g[m - 1] + Length[Requests[p][m]])
      BY <1>3, <3>3 DEF Sums
    <3>6. m # 0
      BY <3>3, <3>4, <3>5
    <3>7. m - 1 \in 0 .. k /\ m - 1 \notin T
      BY <3>2, <3>3, <3>6
    <3>8. f[m - 1] = g[m - 1]
      BY <3>7
    <3> HIDE DEF T
    <3> QED
      BY <3>3, <3>4, <3>5, <3>6, <3>8
  <2>2. k \in 0 .. k
    OBVIOUS
  <2> QED
    BY <2>1, <2>2
<1>5. g[k + 1] = g[k] + Length[Requests[p][k + 1]]
  <2>1. k + 1 \in 0 .. k + 1 /\ k + 1 # 0 /\ (k + 1) - 1 = k
    OBVIOUS
  <2>2. g[k + 1] = IF k + 1 = 0 THEN 0 ELSE g[(k + 1) - 1] + Length[Requests[p][k + 1]]
    BY <1>3, <2>1 DEF Sums
  <2> QED
    BY <2>1, <2>2
<1> QED
  BY <1>1, <1>2, <1>3, <1>4, <1>5

\* The requests of p, in the order in which it sends them.
Asked(p) == 1 .. Len(Requests[p])

\* Each request is for a file, which is not empty.
LEMMA RequestFacts ==
  ASSUME NEW p \in Peers
  PROVE  /\ Len(Requests[p]) \in Nat
         /\ \A n \in Asked(p) : /\ n \in Nat /\ n > 0 /\ Requests[p][n] \in Files
                                /\ Length[Requests[p][n]] \in Nat
                                /\ Length[Requests[p][n]] > 0
<1>1. Requests[p] \in Seq(Files)
  BY ClientAssumption
<1>2. \A n \in Asked(p) : Requests[p][n] \in Files
  BY <1>1, ElementOfSeq DEF Asked
<1>3. \A f \in Files : Length[f] \in Nat /\ Length[f] > 0
  BY SmewsAssumption
<1>4. Len(Requests[p]) \in Nat
  BY <1>1, LenProperties
<1> QED
  BY <1>2, <1>3, <1>4 DEF Asked

\* More answers are longer.
LEMMA LengthGrows ==
  ASSUME NEW p \in Peers, NEW j \in 0 .. Len(Requests[p])
  PROVE  /\ AnswerLength(p, j) \in Nat
         /\ \A k \in j .. Len(Requests[p]) : AnswerLength(p, k) \in Nat
                                             /\ AnswerLength(p, j) <= AnswerLength(p, k)
<1>0. Len(Requests[p]) \in Nat
  BY RequestFacts
<1>1. ASSUME NEW k \in Nat, k + 1 \in Asked(p), AnswerLength(p, k) \in Nat
      PROVE  /\ AnswerLength(p, k + 1) \in Nat
             /\ AnswerLength(p, k) <= AnswerLength(p, k + 1)
  <2>1. PICK l : l = Length[Requests[p][k + 1]]
    OBVIOUS
  <2>2. l \in Nat
    BY <1>1, <2>1, RequestFacts
  <2>3. AnswerLength(p, k + 1) = AnswerLength(p, k) + l
    BY <2>1, LengthSteps
  <2> QED
    BY <1>1, <2>2, <2>3
<1>2. ASSUME NEW k \in 0 .. Len(Requests[p]) PROVE AnswerLength(p, k) \in Nat
  <2> DEFINE T == {m \in 0 .. Len(Requests[p]) : AnswerLength(p, m) \notin Nat}
  <2>1. ASSUME T # {} PROVE FALSE
    <3>1. T \subseteq Nat
      BY <1>0
    <3>2. PICK m \in T : \A i \in T : m <= i
      BY <2>1, <3>1, Least
    <3>3. m \in 0 .. Len(Requests[p]) /\ AnswerLength(p, m) \notin Nat
      OBVIOUS
    <3>4. m # 0
      BY <3>3, LengthSteps
    <3>5. m - 1 \in Nat /\ (m - 1) + 1 = m /\ m \in Asked(p) /\ m - 1 \notin T
          /\ m - 1 \in 0 .. Len(Requests[p])
      BY <1>0, <3>2, <3>3, <3>4 DEF Asked
    <3>6. AnswerLength(p, m - 1) \in Nat
      BY <3>5
    <3> HIDE DEF T
    <3> QED
      BY <1>1, <3>3, <3>5, <3>6
  <2> QED
    BY <2>1
<1>3. ASSUME NEW k \in j .. Len(Requests[p])
      PROVE  AnswerLength(p, j) <= AnswerLength(p, k)
  <2> DEFINE T == {m \in j .. Len(Requests[p]) : ~ (AnswerLength(p, j) <= AnswerLength(p, m))}
  <2>1. ASSUME T # {} PROVE FALSE
    <3>1. T \subseteq Nat
      BY <1>0
    <3>2. PICK m \in T : \A i \in T : m <= i
      BY <2>1, <3>1, Least
    <3>3. m \in j .. Len(Requests[p]) /\ ~ (AnswerLength(p, j) <= AnswerLength(p, m))
      OBVIOUS
    <3>4. m # j
      BY <1>2, <3>3
    <3>5. /\ m - 1 \in Nat /\ (m - 1) + 1 = m /\ m \in Asked(p) /\ m - 1 \notin T
          /\ m - 1 \in j .. Len(Requests[p]) /\ m - 1 \in 0 .. Len(Requests[p])
          /\ m \in 0 .. Len(Requests[p])
      BY <1>0, <3>2, <3>3, <3>4 DEF Asked
    <3>6. AnswerLength(p, j) <= AnswerLength(p, m - 1)
      BY <3>5
    <3> HIDE DEF T
    <3>7. /\ AnswerLength(p, m - 1) \in Nat /\ AnswerLength(p, m) \in Nat
          /\ AnswerLength(p, j) \in Nat
          /\ AnswerLength(p, m - 1) <= AnswerLength(p, m)
      BY <1>1, <1>2, <3>5
    <3> QED
      BY <3>3, <3>6, <3>7
  <2> QED
    BY <2>1
<1>4. \A k \in j .. Len(Requests[p]) : k \in 0 .. Len(Requests[p])
  BY <1>0
<1> QED
  BY <1>2, <1>3, <1>4

\* What Answers joins: the bytes of the first k answers to p.
Joins(p, k, f) ==
  f = [i \in 0 .. k |-> IF i = 0 THEN << >> ELSE f[i - 1] \o Bytes(Requests[p][i])]

\* There is such a sequence for any number of answers.
LEMMA JoinsExist ==
  ASSUME NEW p, NEW k \in Nat
  PROVE  \E f : Joins(p, k, f)
<1> DEFINE T == {m \in Nat : ~ \E f : Joins(p, m, f)}
<1> SUFFICES ASSUME T # {} PROVE FALSE
  OBVIOUS
<1>1. PICK m \in T : \A j \in T : m <= j
  BY Least
<1>2. m \in Nat /\ ~ \E f : Joins(p, m, f)
  OBVIOUS
<1>3. m # 0
  <2>1. PICK f : f = [i \in 0 .. 0 |-> << >>]
    OBVIOUS
  <2>2. Joins(p, 0, f)
    BY <2>1 DEF Joins
  <2> QED
    BY <1>2, <2>2
<1>4. m - 1 \in Nat /\ m - 1 \notin T
  BY <1>1, <1>2, <1>3
<1>5. PICK f : Joins(p, m - 1, f)
  BY <1>4
<1>6. PICK l : l = f[m - 1] \o Bytes(Requests[p][m])
  OBVIOUS
<1>7. PICK g : g = [i \in 0 .. m |-> IF i = m THEN l ELSE f[i]]
  OBVIOUS
<1> HIDE DEF T
<1>8. ASSUME NEW i \in 0 .. m
      PROVE  g[i] = IF i = 0 THEN << >> ELSE g[i - 1] \o Bytes(Requests[p][i])
  <2>1. CASE i = m
    <3>1. m - 1 \in 0 .. m /\ m - 1 # m /\ m \in 0 .. m
      BY <1>2, <1>3
    <3>2. g[m] = l /\ g[m - 1] = f[m - 1]
      BY <1>7, <3>1
    <3> QED
      BY <1>3, <1>6, <2>1, <3>2
  <2>2. CASE i # m
    <3>1. i \in 0 .. m - 1
      BY <1>2, <2>2
    <3>2. f[i] = IF i = 0 THEN << >> ELSE f[i - 1] \o Bytes(Requests[p][i])
      BY <1>5, <3>1 DEF Joins
    <3>3. i # 0 => i - 1 \in 0 .. m /\ i - 1 # m
      BY <1>2, <3>1
    <3>4. g[i] = f[i] /\ (i # 0 => g[i - 1] = f[i - 1])
      BY <1>7, <2>2, <3>3
    <3> QED
      BY <3>2, <3>4
  <2> QED
    BY <2>1, <2>2
<1>9. Joins(p, m, g)
  BY <1>7, <1>8 DEF Joins
<1> QED
  BY <1>2, <1>9

\* Answers is the one of all the requests.
LEMMA AnswersJoin ==
  ASSUME NEW p \in Peers
  PROVE  \E f : Joins(p, Len(Requests[p]), f) /\ Answers(p) = f[Len(Requests[p])]
<1> DEFINE N == Len(Requests[p])
           F == CHOOSE f : Joins(p, N, f)
<1>1. Joins(p, N, F)
  BY RequestFacts, JoinsExist
<1>2. Answers(p) = F[N]
  BY DEF Answers, Joins
<1> QED
  BY <1>1, <1>2

\* The sequence s holds the bytes of the first k answers.
Holds(p, k, s) ==
  /\ s \in Seq(Files \X Int) /\ Len(s) = AnswerLength(p, k)
  /\ \A n \in 1 .. k : \A i \in 0 .. Length[Requests[p][n]] - 1 :
       s[AnswerLength(p, n - 1) + i + 1] = <<Requests[p][n], i>>

\* One more answer follows those before.
LEMMA HoldsMore ==
  ASSUME NEW p \in Peers, NEW k \in Nat, k + 1 \in Asked(p), NEW s, Holds(p, k, s)
  PROVE  Holds(p, k + 1, s \o Bytes(Requests[p][k + 1]))
<1> DEFINE f == Requests[p][k + 1]
           b == Bytes(f)
           l == Length[f]
           t == s \o b
<1>1. f \in Files /\ l \in Nat /\ Len(Requests[p]) \in Nat
  BY RequestFacts
<1>2. b \in Seq(Files \X Int) /\ Len(b) = l /\ \A i \in 1 .. l : b[i] = <<f, i - 1>>
  <2> HIDE DEF f
  <2>1. b = [i \in 1 .. l |-> <<f, i - 1>>]
    BY DEF Bytes
  <2>2. \A i \in 1 .. l : <<f, i - 1>> \in Files \X Int
    BY <1>1
  <2>3. b \in Seq(Files \X Int)
    BY <1>1, <2>1, <2>2, IsASeq
  <2> HIDE DEF b, l
  <2>4. DOMAIN b = 1 .. l /\ DOMAIN b = 1 .. Len(b) /\ Len(b) \in Nat
    BY <2>1, <2>3, LenProperties
  <2>5. Len(b) = l
    BY <1>1, <2>4
  <2> QED
    BY <2>1, <2>3, <2>5
<1>3. /\ s \in Seq(Files \X Int) /\ Len(s) = AnswerLength(p, k) /\ Len(s) \in Nat
      /\ \A n \in 1 .. k : \A i \in 0 .. Length[Requests[p][n]] - 1 :
           s[AnswerLength(p, n - 1) + i + 1] = <<Requests[p][n], i>>
  BY LenProperties DEF Holds
<1>4. AnswerLength(p, k + 1) = AnswerLength(p, k) + l
  BY LengthSteps
<1> HIDE DEF f, b, l
<1>5. /\ t \in Seq(Files \X Int)
      /\ Len(t) = Len(s) + Len(b)
      /\ \A i \in 1 .. Len(s) + Len(b) : t[i] = IF i <= Len(s) THEN s[i] ELSE b[i - Len(s)]
  BY <1>2, <1>3, ConcatProperties
<1>6. Len(t) = AnswerLength(p, k + 1)
  BY <1>2, <1>3, <1>4, <1>5
<1> HIDE DEF t
<1>7. ASSUME NEW n \in 1 .. k + 1, NEW i \in 0 .. Length[Requests[p][n]] - 1
      PROVE  t[AnswerLength(p, n - 1) + i + 1] = <<Requests[p][n], i>>
  <2>1. CASE n = k + 1
    <3>1. i \in 0 .. l - 1 /\ Requests[p][n] = f /\ n - 1 = k
      BY <2>1 DEF f, l
    <3>2. PICK j : j = Len(s) + i + 1
      OBVIOUS
    <3>3. /\ j \in 1 .. Len(s) + Len(b) /\ ~ (j <= Len(s)) /\ j - Len(s) = i + 1
          /\ i + 1 \in 1 .. l /\ (i + 1) - 1 = i
      <4>1. l \in Nat /\ Len(s) \in Nat /\ Len(b) = l
        BY <1>1, <1>2, <1>3
      <4>2. i \in Int /\ 0 <= i /\ i < l
        BY <3>1, <4>1
      <4> QED
        BY <3>2, <4>1, <4>2
    <3>4. t[j] = b[i + 1]
      BY <1>5, <3>3
    <3> QED
      BY <1>2, <1>3, <3>1, <3>2, <3>3, <3>4
  <2>2. CASE n # k + 1
    <3>1. n \in 1 .. k /\ n \in Asked(p) /\ n \in 0 .. Len(Requests[p])
          /\ n - 1 \in Nat /\ n - 1 \in 0 .. Len(Requests[p]) /\ (n - 1) + 1 = n
          /\ k \in n .. Len(Requests[p])
      BY <1>1, <2>2 DEF Asked
    <3>2. PICK q : q = Length[Requests[p][n]]
      OBVIOUS
    <3>3. q \in Nat /\ i \in 0 .. q - 1
      BY <3>1, <3>2, RequestFacts
    <3>4. AnswerLength(p, n) = AnswerLength(p, n - 1) + q
      BY <3>1, <3>2, LengthSteps
    <3>5. /\ AnswerLength(p, n - 1) \in Nat /\ AnswerLength(p, n) \in Nat
          /\ AnswerLength(p, k) \in Nat /\ AnswerLength(p, n) <= AnswerLength(p, k)
      BY <3>1, LengthGrows
    <3>6. PICK j : j = AnswerLength(p, n - 1) + i + 1
      OBVIOUS
    <3>7. j \in 1 .. Len(s) + Len(b) /\ j <= Len(s)
      <4>1. l \in Nat /\ Len(s) = AnswerLength(p, k) /\ Len(b) = l
        BY <1>1, <1>2, <1>3
      <4>2. i \in Int /\ 0 <= i /\ i < q
        BY <3>3
      <4> QED
        BY <3>3, <3>4, <3>5, <3>6, <4>1, <4>2
    <3>8. t[j] = s[j]
      BY <1>5, <3>7
    <3> QED
      BY <1>3, <3>1, <3>6, <3>8
  <2> QED
    BY <2>1, <2>2
<1> QED
  BY <1>5, <1>6, <1>7 DEF Holds, t, b, f

\* Each byte of each answer is where the lengths of those before put it.
LEMMA AnswersHold ==
  ASSUME NEW p \in Peers
  PROVE  Holds(p, Len(Requests[p]), Answers(p))
<1> DEFINE N == Len(Requests[p])
<1>1. N \in Nat
  BY RequestFacts
<1>2. PICK f : Joins(p, N, f) /\ Answers(p) = f[N]
  BY AnswersJoin
<1> HIDE DEF N
<1>3. f[0] = << >>
  BY <1>1, <1>2 DEF Joins
<1>4. Holds(p, 0, f[0])
  <2>1. << >> \in Seq(Files \X Int) /\ Len(<< >>) = 0
    BY EmptySeq
  <2>2. AnswerLength(p, 0) = 0
    BY LengthSteps
  <2> QED
    BY <1>3, <2>1, <2>2 DEF Holds
<1> DEFINE T == {m \in 0 .. N : ~ Holds(p, m, f[m])}
<1>5. ASSUME T # {} PROVE FALSE
  <2>1. T \subseteq Nat
    BY <1>1
  <2>2. PICK m \in T : \A i \in T : m <= i
    BY <1>5, <2>1, Least
  <2>3. m \in 0 .. N /\ ~ Holds(p, m, f[m])
    OBVIOUS
  <2>4. m # 0
    BY <1>4, <2>3
  <2>5. /\ m - 1 \in Nat /\ (m - 1) + 1 = m /\ m \in Asked(p) /\ m - 1 \notin T
        /\ m - 1 \in 0 .. N
    BY <1>1, <2>2, <2>3, <2>4 DEF Asked, N
  <2>6. Holds(p, m - 1, f[m - 1])
    BY <2>5
  <2> HIDE DEF T
  <2>7. f[m] = f[m - 1] \o Bytes(Requests[p][m])
    BY <1>2, <2>3, <2>4 DEF Joins
  <2>8. PICK j : j = m - 1
    OBVIOUS
  <2>9. j \in Nat /\ j + 1 = m /\ j + 1 \in Asked(p) /\ Holds(p, j, f[j])
    BY <2>5, <2>6, <2>8
  <2>10. Holds(p, j + 1, f[j] \o Bytes(Requests[p][j + 1]))
    BY <2>9, HoldsMore
  <2> QED
    BY <2>3, <2>7, <2>8, <2>9, <2>10
<1>6. Holds(p, N, f[N])
  BY <1>1, <1>5
<1> QED
  BY <1>2, <1>6 DEF N

\* A sequence is the beginning of another one.
Begun(s, t) == Len(s) <= Len(t) /\ \A i \in 1 .. Len(s) : s[i] = t[i]

\* It is then a subsequence from 1 on.
LEMMA BegunIsSubSeq ==
  ASSUME NEW S, NEW s \in Seq(S), NEW t \in Seq(S), Begun(s, t)
  PROVE  Len(s) <= Len(t) /\ s = SubSeq(t, 1, Len(s))
<1>1. Len(s) \in Nat /\ Len(t) \in Nat /\ Len(s) <= Len(t)
  BY LenProperties DEF Begun
<1>2. PICK u : u = SubSeq(t, 1, Len(s))
  OBVIOUS
<1>3. u \in Seq(S) /\ Len(u) = Len(s) /\ \A i \in 1 .. Len(s) : u[i] = t[i]
  <2>1. 1 \in 1 .. Len(t) + 1 /\ Len(s) \in 0 .. Len(t)
    BY <1>1
  <2>2. /\ u \in Seq(S)
        /\ Len(u) = IF 1 <= Len(s) THEN Len(s) - 1 + 1 ELSE 0
        /\ \A i \in 1 .. Len(s) - 1 + 1 : u[i] = t[1 + i - 1]
    BY <1>2, <2>1, SubSeqProperties
  <2> QED
    BY <1>1, <2>2
<1>4. \A i \in 1 .. Len(s) : s[i] = u[i]
  BY <1>3 DEF Begun
<1>5. s = u
  BY <1>3, <1>4, SeqEqual
<1> QED
  BY <1>1, <1>2, <1>5

----------------------------------------------------------------------------
\* The server and the requests.

\* A number in the range of a C type is stored as it is.
LEMMA SmallRemainder ==
  ASSUME NEW x \in Int, NEW m \in Nat, 0 <= x, x < m
  PROVE  x % m = x
OBVIOUS

\* The sequence number that the answer to the n-th request of p starts at.
Starts(p, n) == BASIC_SEQNO + 1 + AnswerLength(p, n - 1)

\* A segment with text is the n-th request of its client, which has read the
\* answers to those before.
Requesting(s) ==
  s.len > 0 => \E n \in Asked(s.peer) :
    /\ s.seq = Iss[s.peer] + n /\ s.len = 1 /\ s.ack = Starts(s.peer, n)
    /\ s.text.file = Requests[s.peer][n] /\ s.text.from = 1 /\ s.text.to # 1

\* A segment, its SYN or FIN included, ends before b.
Reaches(s, b) == /\ s.seq + s.len <= b
                 /\ s.flag \in {"SYN", "FIN"} => s.seq + s.len + 1 <= b

\* Connection c answers the n-th request of p.
AnswersRequest(p, n, c) ==
  /\ c.output_handler = Requests[p][n]
  /\ c.final_outseqno = Starts(p, n) + Length[c.output_handler]
  /\ Iss[p] + 1 + n <= c.current_inseqno

Answering(p, c) ==
  /\ c.parsing_state = "out"
  /\ c.output_handler \in Files => \E n \in Asked(p) : AnswersRequest(p, n, c)

\* Segment m carries bytes of the n-th answer to its client, and acknowledges
\* the request.
Carries(n, m) ==
  /\ m.handler = Requests[m.peer][n]
  /\ m.seq - m.index = Starts(m.peer, n)
  /\ m.index + m.len <= Length[m.handler]
  /\ Iss[m.peer] + 1 + n <= m.ack

Carrying(m) == m.handler \in Files =>
                 \E n \in Asked(m.peer) : Carries(n, m)

\* Connection d answers what c does, or no request, and has received as much.
Kept(c, d) ==
  /\ d.parsing_state = c.parsing_state
  /\ \/ d.output_handler \notin Files
     \/ d.output_handler = c.output_handler /\ d.final_outseqno = c.final_outseqno
  /\ c.current_inseqno <= d.current_inseqno

\* It then goes on to answer the same request.
LEMMA KeptAnswering ==
  ASSUME NEW p \in Peers, NEW c \in Connection, NEW d \in Connection, Kept(c, d),
         Answering(p, c)
  PROVE  Answering(p, d)
<1>1. c.current_inseqno \in Int /\ d.current_inseqno \in Int /\ Iss[p] \in Int
  BY ConstantTypes, ClientAssumption DEF Connection
<1>2. ASSUME d.output_handler \in Files
      PROVE  \E n \in Asked(p) : AnswersRequest(p, n, d)
  <2>1. /\ d.output_handler = c.output_handler /\ d.final_outseqno = c.final_outseqno
        /\ c.current_inseqno <= d.current_inseqno
    BY <1>2 DEF Kept
  <2>2. PICK n \in Asked(p) : AnswersRequest(p, n, c)
    BY <1>2, <2>1 DEF Answering
  <2>3. n \in Int
    BY RequestFacts
  <2>4. PICK x : x = Iss[p] + 1 + n
    OBVIOUS
  <2>5. x \in Int /\ x <= c.current_inseqno
    BY <1>1, <2>2, <2>3, <2>4 DEF AnswersRequest
  <2>6. x <= d.current_inseqno
    BY <1>1, <2>1, <2>5
  <2> QED
    BY <2>1, <2>2, <2>4, <2>6 DEF AnswersRequest
<1> QED
  BY <1>2 DEF Answering, Kept

\* Acknowledgments move no input number.
LEMMA AckSeqno ==
  ASSUME NEW c \in Connection, NEW s \in InSegment
  PROVE  ClearHandler(AckManagement(DuplicateAck(c, s), s)).current_inseqno = c.current_inseqno
<1>1. PICK d : d = DuplicateAck(c, s)
  OBVIOUS
<1>2. d \in Connection /\ d.current_inseqno = c.current_inseqno
  BY <1>1 DEF DuplicateAck, Connection, InSegment
<1>3. PICK a : a = AckManagement(d, s)
  OBVIOUS
<1>4. PICK i : i = (d.next_outseqno - s.ack) % U16
  OBVIOUS
<1>5. a = d \/ a = [d EXCEPT !.inflight = i]
  BY <1>3, <1>4 DEF AckManagement
<1>6. a.current_inseqno = d.current_inseqno /\ DOMAIN a = DOMAIN d
  BY <1>2, <1>5 DEF Connection
<1>7. ClearHandler(a) = a \/ ClearHandler(a) = [a EXCEPT !.output_handler = None]
  BY DEF ClearHandler
<1>8. ClearHandler(a).current_inseqno = a.current_inseqno
  BY <1>2, <1>6, <1>7 DEF Connection
<1> QED
  BY <1>1, <1>2, <1>3, <1>6, <1>8

\* What is received next is what the segment ends with, or what it was.
LEMMA MachineSeqno ==
  ASSUME NEW c \in Connection, NEW s \in InSegment, NEW b \in Int, b < InMod,
         Reaches(s, b), c.current_inseqno <= b
  PROVE  LET t == TcpStateMachine(c, s) IN
         /\ c.current_inseqno <= t.current_inseqno
         /\ s.seq + s.len <= t.current_inseqno
         /\ t.current_inseqno <= b
<1>1. /\ s.seq \in Int /\ 0 <= s.seq /\ s.len \in Int /\ 0 <= s.len
      /\ c.current_inseqno \in Int /\ InMod \in Nat
  BY ConstantTypes DEF InSegment, Connection
<1>2. PICK n : n = s.seq + s.len
  OBVIOUS
<1>3. n \in Int /\ 0 <= n /\ n <= b /\ n < InMod
  BY <1>1, <1>2 DEF Reaches
<1>4. SeqEnd(s) = n
  BY <1>1, <1>2, <1>3, SmallRemainder DEF SeqEnd
<1>5. PICK e : e = [c EXCEPT !.current_inseqno = n]
  OBVIOUS
<1>6. /\ e \in Connection /\ e.current_inseqno = n
  BY <1>1, <1>3, <1>5 DEF Connection
<1>7. CASE n >= c.current_inseqno
  <2>1. PICK t : t = Transition(e, s)
    OBVIOUS
  <2>2. TcpStateMachine(c, s) = t
    BY <1>4, <1>5, <1>7, <2>1 DEF TcpStateMachine
  <2>3. PICK i : i = (e.current_inseqno + 1) % InMod
    OBVIOUS
  <2>4. CASE s.flag \in {"SYN", "FIN"} /\ t.current_inseqno = i
    <3>1. n + 1 <= b
      BY <1>2, <2>4 DEF Reaches
    <3>2. n + 1 \in Int /\ 0 <= n + 1 /\ n + 1 < InMod
      BY <1>1, <1>3, <3>1
    <3>3. i = n + 1
      BY <1>1, <1>6, <2>3, <3>2, SmallRemainder
    <3> QED
      BY <1>1, <1>2, <1>3, <1>7, <2>2, <2>4, <3>1, <3>3
  <2>5. CASE t.current_inseqno = n
    BY <1>1, <1>2, <1>3, <1>7, <2>2, <2>5
  <2>6. \/ s.flag = "FIN" /\ t = [e EXCEPT !.tcp_state = "last_ack", !.output_handler = "ref_finack",
                                           !.current_inseqno = i]
        \/ s.flag = "SYN" /\ t = [e EXCEPT !.tcp_state = "syn_rcvd", !.output_handler = "ref_synack",
                                           !.current_inseqno = i]
        \/ t = [e EXCEPT !.tcp_state = "listen"]
        \/ t = [e EXCEPT !.tcp_state = "established"]
        \/ t = [e EXCEPT !.output_handler = "ref_synack"]
        \/ t = e
    BY <2>1, <2>3 DEF Transition
  <2>7. \/ s.flag \in {"SYN", "FIN"} /\ t.current_inseqno = i
        \/ t.current_inseqno = n
    BY <1>6, <2>6 DEF Connection
  <2> QED
    BY <2>4, <2>5, <2>7
<1>8. CASE ~ (n >= c.current_inseqno)
  <2>1. TcpStateMachine(c, s) = c
    BY <1>4, <1>8 DEF TcpStateMachine
  <2> QED
    BY <1>1, <1>2, <1>3, <1>8, <2>1
<1> QED
  BY <1>7, <1>8

\* A whole request is installed, or nothing of it.
LEMMA RequestInstalled ==
  ASSUME NEW c \in Connection, NEW s \in InSegment, NEW b \in BOOLEAN,
         c.parsing_state = "out", s.len > 0 => s.text.from = 1 /\ s.text.to # 1
  PROVE  LET h == HttpRequest(c, s, b) IN
         /\ h.current_inseqno = c.current_inseqno
         /\ h.parsing_state = "out"
         /\ \/ h.output_handler = c.output_handler /\ h.final_outseqno = c.final_outseqno
            \/ /\ s.len > 0 /\ h.output_handler = s.text.file
               /\ h.final_outseqno = s.ack + Length[h.output_handler]
<1>1. PICK h : h = HttpRequest(c, s, b)
  OBVIOUS
<1>2. CASE h = c
  BY <1>1, <1>2
<1>3. CASE h # c
  <2>1. s.len > 0 /\ h = Parse(c, s)
    BY <1>1, <1>3 DEF HttpRequest
  <2>2. PICK e : e = [c EXCEPT !.output_handler = None]
    OBVIOUS
  <2>3. PICK f : f = s.text.file
    OBVIOUS
  <2>4. h = Install(e, f, s)
    BY <2>1, <2>2, <2>3 DEF Parse, ParseCommand
  <2>5. f \in Files
    BY <2>3 DEF InSegment, Text
  <2>6. PICK l : l = s.ack + Length[f]
    OBVIOUS
  <2>7. h = [e EXCEPT !.output_handler = f, !.next_outseqno = s.ack,
                      !.final_outseqno = l, !.parsing_state = "out"]
    BY <2>4, <2>5, <2>6 DEF Install
  <2>8. /\ h.current_inseqno = e.current_inseqno /\ h.parsing_state = "out"
        /\ h.output_handler = f /\ h.final_outseqno = l
    BY <2>2, <2>7 DEF Connection
  <2>9. e.current_inseqno = c.current_inseqno
    BY <2>2 DEF Connection
  <2> QED
    BY <1>1, <2>1, <2>3, <2>6, <2>8, <2>9
<1> QED
  BY <1>2, <1>3

\* A connection goes on to answer a request of its client when it receives a
\* segment, and never receives more than its client has sent.
LEMMA ReceiveAnswers ==
  ASSUME NEW c \in Connection, NEW s \in InSegment, NEW b \in Int, b < InMod,
         Requesting(s), Reaches(s, b), c.current_inseqno <= b, Answering(s.peer, c)
  PROVE  LET r == Processed(c, s) IN
         /\ r.current_inseqno <= b
         /\ r.tcp_state # "listen" => Answering(s.peer, r)
<1>1. PICK a, t, u, h, r \in Connection : Stages(c, s, a, t, u, h, r)
  BY ProcessedStages
<1>2. s.peer \in Peers
  BY DEF InSegment
<1>3. Kept(c, a)
  <2>1. PICK d : d = DuplicateAck(c, s)
    OBVIOUS
  <2>2. PICK k : k = AckManagement(d, s)
    OBVIOUS
  <2>3. a = ClearHandler(k)
    BY <1>1, <2>1, <2>2 DEF Stages
  <2>4. /\ a.output_handler = c.output_handler \/ a.output_handler = None
        /\ a.final_outseqno = c.final_outseqno /\ a.parsing_state = c.parsing_state
    BY <2>1, <2>2, <2>3, AckNumbers
  <2>5. a.current_inseqno = c.current_inseqno /\ c.current_inseqno \in Int
    BY <2>1, <2>2, <2>3, AckSeqno, ConstantTypes DEF Connection
  <2> QED
    BY <2>4, <2>5, HandlerKinds DEF Kept
<1>4. a.current_inseqno = c.current_inseqno
  BY <1>1, AckSeqno DEF Stages
<1>5. /\ a.current_inseqno <= t.current_inseqno
      /\ s.seq + s.len <= t.current_inseqno
      /\ t.current_inseqno <= b
  BY <1>1, <1>4, MachineSeqno DEF Stages
<1>6. Moved(a, t, s)
  BY <1>1, MachineNumbers DEF Stages
<1>7. /\ u.current_inseqno = t.current_inseqno
      /\ u.final_outseqno = t.final_outseqno
      /\ u.parsing_state = t.parsing_state
      /\ u.tcp_state = t.tcp_state /\ u.output_handler = t.output_handler
  <2>1. u = WindowAndMss(t, s)
    BY <1>1 DEF Stages
  <2>2. PICK m : m = (IF s.mss > MAX_MSS THEN MAX_MSS ELSE s.mss) % MssMod
    OBVIOUS
  <2>3. u = [t EXCEPT !.cwnd = s.cwnd, !.tcp_mss = IF s.mss = 0 THEN @ ELSE m]
    BY <2>1, <2>2 DEF WindowAndMss
  <2> QED
    BY <2>3 DEF Connection
<1>8. u.parsing_state = "out"
  BY <1>3, <1>6, <1>7 DEF Moved, Same, Kept, Answering
<1>9. PICK n : n = NewTcpData(a, s)
  OBVIOUS
<1>10. n \in BOOLEAN
  BY <1>9 DEF NewTcpData
<1>11. h = HttpRequest(u, s, n)
  BY <1>1, <1>9 DEF Stages
<1>12. s.len > 0 => s.text.from = 1 /\ s.text.to # 1
  BY DEF Requesting
<1>13. /\ h.current_inseqno = u.current_inseqno
       /\ h.parsing_state = "out"
       /\ \/ h.output_handler = u.output_handler /\ h.final_outseqno = u.final_outseqno
          \/ /\ s.len > 0 /\ h.output_handler = s.text.file
             /\ h.final_outseqno = s.ack + Length[h.output_handler]
  BY <1>8, <1>10, <1>11, <1>12, RequestInstalled
<1>14. h.tcp_state = u.tcp_state
  BY <1>10, <1>11, RequestNumbers DEF Installed
<1>15. \/ r = h
       \/ /\ r.output_handler = "ref_ack" /\ r.current_inseqno = h.current_inseqno
          /\ r.parsing_state = h.parsing_state /\ r.tcp_state = h.tcp_state
  BY <1>1 DEF Stages, Acknowledge, Connection
<1>16. r.current_inseqno = t.current_inseqno /\ r.tcp_state = t.tcp_state
  BY <1>7, <1>13, <1>14, <1>15
<1>17. ASSUME t.tcp_state # "listen" PROVE Answering(s.peer, r)
  <2>1. Kept(a, u)
    <3>1. u.output_handler = a.output_handler \/ u.output_handler \notin Files
      BY <1>6, <1>7, <1>17, SynackIsControl DEF Moved
    <3>2. u.final_outseqno = a.final_outseqno /\ u.parsing_state = a.parsing_state
      BY <1>6, <1>7 DEF Moved, Same
    <3> QED
      BY <1>5, <1>7, <3>1, <3>2 DEF Kept
  <2>2. Answering(s.peer, a)
    BY <1>2, <1>3, KeptAnswering
  <2>3. Answering(s.peer, u)
    BY <1>2, <2>1, <2>2, KeptAnswering
  <2>4. Answering(s.peer, h)
    <3>1. CASE h.output_handler = u.output_handler /\ h.final_outseqno = u.final_outseqno
      <4>1. Kept(u, h)
        BY <1>8, <1>13, <3>1, ConstantTypes DEF Kept, Connection
      <4> QED
        BY <1>2, <2>3, <4>1, KeptAnswering
    <3>2. CASE /\ s.len > 0 /\ h.output_handler = s.text.file
               /\ h.final_outseqno = s.ack + Length[h.output_handler]
      <4>1. PICK k \in Asked(s.peer) :
              /\ s.seq = Iss[s.peer] + k /\ s.len = 1 /\ s.ack = Starts(s.peer, k)
              /\ s.text.file = Requests[s.peer][k]
        BY <3>2 DEF Requesting
      <4>2. k \in Int /\ Iss[s.peer] \in Int
        BY <1>2, ConstantTypes, ClientAssumption, RequestFacts
      <4>3. s.seq + s.len = Iss[s.peer] + 1 + k
        BY <4>1, <4>2
      <4>4. AnswersRequest(s.peer, k, h)
        BY <1>5, <1>7, <1>13, <3>2, <4>1, <4>3 DEF AnswersRequest
      <4> QED
        BY <1>13, <4>4 DEF Answering
    <3> QED
      BY <1>13, <3>1, <3>2
  <2>5. Kept(h, r)
    BY <1>15, SynackIsControl, ConstantTypes DEF Kept, Connection
  <2> QED
    BY <1>2, <2>4, <2>5, KeptAnswering
<1>18. r = Processed(c, s)
  BY <1>1 DEF Stages
<1> QED
  BY <1>5, <1>16, <1>17, <1>18

\* What a connection sends is of the answer to its request.
LEMMA SegmentCarries ==
  ASSUME NEW p \in Peers, NEW c \in Connection, Numbers(c), Answering(p, c)
  PROVE  LET m == Segment(p, c)
             d == Sent(p, c) IN
         /\ m.peer = p /\ m.ack = c.current_inseqno /\ Carrying(m)
         /\ Kept(c, d) /\ d.current_inseqno = c.current_inseqno
<1> DEFINE rest == c.final_outseqno - c.next_outseqno
           max_out == MaxOutSize(c.tcp_mss)
           len == IF c.output_handler \notin Files THEN 0
                  ELSE IF rest > max_out THEN max_out ELSE rest
           index == IF c.output_handler \in Files THEN Length[c.output_handler] - rest ELSE 0
           out == IF c.output_handler = "ref_synack" THEN 1 ELSE len
           flying == (c.inflight + len) % U16
<1>1. /\ c.next_outseqno \in Int /\ c.final_outseqno \in Int
      /\ c.current_inseqno \in Int /\ c.tcp_mss \in Nat
  BY ConstantTypes DEF Connection
<1>2. max_out \in Int
  <2>1. c.tcp_mss % Chunk \in Int
    BY <1>1, ConstantTypes, Remainder
  <2> QED
    BY <1>1, <2>1 DEF MaxOutSize
<1>3. rest \in Int
  BY <1>1
<1> HIDE DEF max_out
<1>4. c.output_handler \in Files => len \in Int /\ len <= rest
  BY <1>2, <1>3
<1>5. PICK m : m = Segment(p, c)
  OBVIOUS
<1>6. Segment(p, c) = [peer |-> p, seq |-> c.next_outseqno, ack |-> c.current_inseqno,
                       handler |-> c.output_handler, index |-> index, len |-> len]
  BY DEF Segment, max_out
<1> HIDE DEF len, index
<1>7. ASSUME c.output_handler \in Files PROVE \E n \in Asked(p) : Carries(n, m)
  <2>1. PICK n \in Asked(p) : AnswersRequest(p, n, c)
    BY <1>7 DEF Answering
  <2>2. PICK l : l = Length[c.output_handler]
    OBVIOUS
  <2>3. PICK x : x = Starts(p, n)
    OBVIOUS
  <2>4. l \in Int /\ c.final_outseqno = x + l /\ x \in Int
    <3>1. l \in Int
      BY <1>7, <2>2, ConstantTypes
    <3>2. AnswerLength(p, n - 1) \in Nat
      <4>1. n - 1 \in 0 .. Len(Requests[p])
        BY RequestFacts DEF Asked
      <4> QED
        BY <4>1, LengthGrows
    <3> QED
      BY <2>1, <2>2, <2>3, <3>1, <3>2, ConstantTypes DEF Starts, AnswersRequest
  <2>5. index = l - rest /\ len \in Int /\ len <= rest
    BY <1>4, <1>7, <2>2 DEF index
  <2>6. c.next_outseqno - index = x /\ index + len <= l
    BY <1>1, <1>3, <2>4, <2>5
  <2> QED
    BY <1>5, <1>6, <2>1, <2>2, <2>3, <2>6 DEF Carries, AnswersRequest
<1>8. Carrying(m) /\ m.peer = p /\ m.ack = c.current_inseqno
  BY <1>5, <1>6, <1>7 DEF Carrying
<1>9. PICK d : d = Sent(p, c)
  OBVIOUS
<1>10. d = [c EXCEPT !.transmission_time = last_transmission_time,
                     !.next_outseqno = @ + out,
                     !.inflight = flying,
                     !.output_handler = IF @ \in Control THEN None ELSE @]
  BY <1>6, <1>9 DEF Sent
<1> HIDE DEF rest, out, flying
<1>11. /\ d.output_handler = IF c.output_handler \in Control THEN None ELSE c.output_handler
       /\ d.final_outseqno = c.final_outseqno
       /\ d.parsing_state = c.parsing_state
       /\ d.current_inseqno = c.current_inseqno
  BY <1>10 DEF Connection
<1> QED
  BY <1>1, <1>5, <1>8, <1>9, <1>11, HandlerKinds DEF Kept

\* What is sent again is of the same answer.
LEMMA RolledBackKept ==
  ASSUME NEW c \in Connection, NEW now
  PROVE  LET d == RolledBack(c, now) IN
         Kept(c, d) /\ d.current_inseqno = c.current_inseqno
<1>1. PICK d : d = RolledBack(c, now)
  OBVIOUS
<1>2. PICK n : n = c.next_outseqno - c.inflight
  OBVIOUS
<1>3. d = c \/ d = [c EXCEPT !.next_outseqno = n, !.inflight = 0]
  BY <1>1, <1>2 DEF RolledBack
<1>4. /\ d.output_handler = c.output_handler /\ d.final_outseqno = c.final_outseqno
      /\ d.parsing_state = c.parsing_state /\ d.current_inseqno = c.current_inseqno
  BY <1>3 DEF Connection
<1> QED
  BY <1>1, <1>4, ConstantTypes DEF Kept, Connection

----------------------------------------------------------------------------
\* The clients, the server and the network.

\* The hypotheses of the proof.  A request is one segment: a first part that
\* ends with the command and is received again is parsed as the URL, and the
\* answer is that of a file that is not found (input.c, line 664).
WholeRequests == Len(Cuts) = 1 /\ Cuts[1].from = 1 /\ Cuts[1].to # 1

\* The numbers of a client do not wrap during its connection: input.c compares
\* them without modular arithmetic (line 589), does not acknowledge a request
\* that ends after the wrap, and answers it again when it comes again.
NumbersFit == \A p \in Peers : Iss[p] + 2 + Len(Requests[p]) < InMod

\* Where the stream that client c at p has sent ends.
Reach(p, c) ==
  Iss[p] + 1 + c.sent + (IF c.state \in Early \cup {"established"} THEN 0 ELSE 1)

\* Client c at p has read the beginning of the answers to its requests, and
\* knows that the server has those it has read an answer to.
Reading(p, c) ==
  /\ c.sent <= Len(Requests[p])
  /\ c.state \in Early => c.got = << >>
  /\ c.state \in {"established", "fin_wait"} => c.rcv_nxt = BASIC_SEQNO + 1 + Len(c.got)
  /\ c.state = "established" => \A n \in Asked(p) :
       AnswerLength(p, n - 1) < Len(c.got) => n <= c.acked
  /\ Begun(c.got, Answers(p))

\* What the clients have sent.
SegmentsAsk == \A s \in to_server :
  Requesting(s) /\ Reaches(s, Reach(s.peer, clients[s.peer]))

\* What the server has received, and is answering.
ConnectionsAnswer ==
  /\ \A p \in Peers : connections[p] # NoConnection =>
       /\ Answering(p, connections[p])
       /\ connections[p].current_inseqno <= Reach(p, clients[p])
  /\ rst_connection # None =>
       rst_connection.current_inseqno <= Reach(rst_connection.peer, clients[rst_connection.peer])

\* What the server has sent.
SegmentsCarry == \A m \in to_clients :
  Carrying(m) /\ m.ack <= Reach(m.peer, clients[m.peer])

ClientsRead == \A p \in Peers : Reading(p, clients[p])

\* What is true of the segments, the connections and the clients.
StreamInv == SegmentsAsk /\ ConnectionsAnswer /\ SegmentsCarry /\ ClientsRead

\* The stream of a client ends before the numbers wrap.
LEMMA ReachFits ==
  ASSUME NumbersFit, NEW p \in Peers, NEW c \in Client, c.sent <= Len(Requests[p])
  PROVE  Reach(p, c) \in Int /\ 0 < Reach(p, c) /\ Reach(p, c) < InMod
<1>1. PICK i : i = Iss[p]
  OBVIOUS
<1>2. PICK r : r = Len(Requests[p])
  OBVIOUS
<1>3. PICK n : n = c.sent
  OBVIOUS
<1>4. i \in Nat /\ r \in Nat /\ n \in Nat /\ n <= r /\ InMod \in Nat
  BY <1>1, <1>2, <1>3, ClientAssumption, ConstantTypes, RequestFacts DEF Client
<1>5. i + 2 + r < InMod
  BY <1>1, <1>2 DEF NumbersFit
<1>6. Reach(p, c) = i + 1 + n + 0 \/ Reach(p, c) = i + 1 + n + 1
  BY <1>1, <1>3 DEF Reach
<1> QED
  BY <1>4, <1>5, <1>6

\* The server receives a segment: smews_receive.
LEMMA ReceiveKeepsStream ==
  ASSUME NumbersFit, NetInv, StreamInv, ServerReceive
  PROVE  StreamInv'
<1>0. /\ ServerInv /\ ServerTypes /\ ServerNumbers /\ ClientsNumbers
      /\ SegmentsAsk /\ ConnectionsAnswer /\ SegmentsCarry /\ ClientsRead
  BY DEF NetInv, ServerInv, StreamInv
<1>1. PICK s \in to_server : smews_receive(s)
  BY DEF ServerReceive
<1>2. UNCHANGED <<clients, to_server, to_clients>>
  BY DEF ServerReceive
<1>3. s \in InSegment /\ s.peer \in Peers
  BY <1>0 DEF ServerNumbers, InSegment
<1>4. PICK p : p = s.peer
  OBVIOUS
<1>5. PICK b : b = Reach(p, clients[p])
  OBVIOUS
<1>6. b \in Int /\ 0 < b /\ b < InMod
  <2>1. clients[p] \in Client /\ clients[p].sent <= Len(Requests[p])
    BY <1>0, <1>3, <1>4 DEF ClientsNumbers, ClientOK, ClientsRead, Reading
  <2> QED
    BY <1>3, <1>4, <1>5, <2>1, ReachFits
<1>7. Requesting(s) /\ Reaches(s, b)
  BY <1>0, <1>4, <1>5 DEF SegmentsAsk
<1>8. ASSUME NEW c \in Connection, c.current_inseqno <= b, Answering(p, c)
      PROVE  LET r == Processed(c, s) IN
             /\ r.current_inseqno <= b
             /\ r.tcp_state # "listen" => Answering(p, r)
  BY <1>3, <1>4, <1>6, <1>7, <1>8, ReceiveAnswers
<1>9. \A q \in Peers : connections[q] # NoConnection =>
        /\ Answering(q, connections[q])
        /\ connections[q].current_inseqno <= Reach(q, clients[q])
  BY <1>0 DEF ConnectionsAnswer
<1>10. ConnectionsAnswer'
  <2>1. CASE connections[p] = NoConnection
    <3>1. PICK m \in (IF s.mss = 0 THEN 0 .. MssMod - 1 ELSE {0}) :
            LET c == Processed(FreshConnection(m), s) IN
            IF c.tcp_state = "syn_rcvd" /\ Len(all_connections) < heap_room
            THEN /\ add_connection(s.peer, c)
                 /\ UNCHANGED rst_connection
            ELSE /\ rst_connection' = [peer |-> s.peer,
                                       current_inseqno |-> c.current_inseqno,
                                       next_outseqno |-> s.ack]
                 /\ UNCHANGED <<connections, all_connections>>
      BY <1>1, <1>4, <2>1 DEF smews_receive, ReceiveUnknown
    <3>2. PICK f : f = FreshConnection(m)
      OBVIOUS
    <3>3. PICK c : c = Processed(f, s)
      OBVIOUS
    <3>4. m \in 0 .. MssMod - 1
      BY <3>1, ConstantTypes
    <3>5. f \in Connection
      BY <1>0, <3>2, <3>4, FreshReadable
    <3>6. f.current_inseqno <= b /\ Answering(p, f)
      <4>1. f.current_inseqno = 0 /\ f.output_handler = None /\ f.parsing_state = "out"
        BY <3>2 DEF FreshConnection
      <4> QED
        BY <1>6, <4>1, HandlerKinds DEF Answering
    <3>7. c.current_inseqno <= b /\ (c.tcp_state # "listen" => Answering(p, c))
      BY <1>8, <3>3, <3>5, <3>6
    <3>8. \/ /\ connections' = [connections EXCEPT ![p] = c] /\ c.tcp_state = "syn_rcvd"
             /\ rst_connection' = rst_connection
          \/ /\ connections' = connections
             /\ rst_connection'.peer = p /\ rst_connection'.current_inseqno = c.current_inseqno
      BY <1>4, <3>1, <3>2, <3>3 DEF add_connection
    <3>9. CASE /\ connections' = [connections EXCEPT ![p] = c] /\ c.tcp_state = "syn_rcvd"
               /\ rst_connection' = rst_connection
      <4>1. \A q \in Peers : connections'[q] = IF q = p THEN c ELSE connections[q]
        BY <1>0, <3>9 DEF ServerTypes
      <4>2. \A q \in Peers : connections'[q] # NoConnection =>
              /\ Answering(q, connections'[q])
              /\ connections'[q].current_inseqno <= Reach(q, clients[q])
        BY <1>5, <1>9, <3>7, <3>9, <4>1
      <4> QED
        BY <1>0, <1>2, <3>9, <4>2 DEF ConnectionsAnswer
    <3>10. CASE /\ connections' = connections
                /\ rst_connection'.peer = p /\ rst_connection'.current_inseqno = c.current_inseqno
      BY <1>2, <1>5, <1>9, <3>7, <3>10 DEF ConnectionsAnswer
    <3> QED
      BY <3>8, <3>9, <3>10
  <2>2. CASE connections[p] # NoConnection
    <3>1. PICK c : c = Processed(connections[p], s)
      OBVIOUS
    <3>2. /\ \/ connections' = [connections EXCEPT ![p] = NoConnection]
             \/ connections' = [connections EXCEPT ![p] = c] /\ c.tcp_state # "listen"
          /\ rst_connection' = rst_connection
      BY <1>1, <1>4, <2>2, <3>1 DEF smews_receive, ReceiveKnown, free_connection
    <3>3. connections[p] \in Connection
      BY <1>0, <1>3, <1>4, <2>2, ConnectionReadable
    <3>4. c.current_inseqno <= b /\ (c.tcp_state # "listen" => Answering(p, c))
      BY <1>3, <1>4, <1>5, <1>8, <1>9, <2>2, <3>1, <3>3
    <3>5. \/ \A q \in Peers : connections'[q] = IF q = p THEN NoConnection ELSE connections[q]
          \/ /\ \A q \in Peers : connections'[q] = IF q = p THEN c ELSE connections[q]
             /\ c.tcp_state # "listen"
      BY <1>0, <3>2 DEF ServerTypes
    <3>6. \A q \in Peers : connections'[q] # NoConnection =>
            /\ Answering(q, connections'[q])
            /\ connections'[q].current_inseqno <= Reach(q, clients[q])
      BY <1>5, <1>9, <3>4, <3>5
    <3> QED
      BY <1>0, <1>2, <3>2, <3>6 DEF ConnectionsAnswer
  <2> QED
    BY <2>1, <2>2
<1>11. SegmentsAsk' /\ SegmentsCarry' /\ ClientsRead'
  BY <1>0, <1>2 DEF SegmentsAsk, SegmentsCarry, ClientsRead
<1> QED
  BY <1>10, <1>11 DEF StreamInv

\* The server sends a segment: smews_send.
LEMMA SendKeepsStream ==
  ASSUME NetInv, StreamInv, ServerSend
  PROVE  StreamInv'
<1>0. /\ ServerInv /\ ServerTypes /\ ServerNumbers
      /\ SegmentsAsk /\ ConnectionsAnswer /\ SegmentsCarry /\ ClientsRead
  BY DEF NetInv, ServerInv, StreamInv
<1>1. /\ SendReset \/ SendConnection
      /\ to_clients' = to_clients \cup {Outgoing}
      /\ UNCHANGED <<clients, to_server>>
  BY DEF ServerSend, smews_send
<1>2. \A q \in Peers : connections[q] # NoConnection =>
        /\ Answering(q, connections[q])
        /\ connections[q].current_inseqno <= Reach(q, clients[q])
  BY <1>0 DEF ConnectionsAnswer
<1>3. /\ Carrying(Outgoing) /\ Outgoing.ack <= Reach(Outgoing.peer, clients[Outgoing.peer])
      /\ ConnectionsAnswer'
  <2>1. CASE SendReset
    <3>1. /\ rst_connection # None /\ rst_connection' = None /\ connections' = connections
      BY <2>1 DEF SendReset
    <3>2. Outgoing = ResetSegment
      BY <3>1 DEF Outgoing
    <3>3. /\ Outgoing.handler = "ref_rst" /\ Outgoing.peer = rst_connection.peer
          /\ Outgoing.ack = rst_connection.current_inseqno
      BY <3>2 DEF ResetSegment
    <3> QED
      BY <1>0, <1>1, <3>1, <3>3, SmewsAssumption DEF ConnectionsAnswer, Carrying
  <2>2. CASE SendConnection
    <3>1. PICK p : p = Active
      OBVIOUS
    <3>2. p \in Peers /\ connections[p] # NoConnection
      BY <1>0, <2>2, <3>1, ActiveFacts, ConnectionIsOne DEF SendConnection
    <3>3. PICK c : c = connections[p]
      OBVIOUS
    <3>4. c \in Connection /\ Numbers(c)
      BY <1>0, <3>2, <3>3, ConnectionReadable DEF Readable
    <3>5. Answering(p, c) /\ c.current_inseqno <= Reach(p, clients[p])
      BY <1>2, <3>2, <3>3
    <3>6. PICK m : m = Segment(p, c)
      OBVIOUS
    <3>7. PICK d : d = Sent(p, c)
      OBVIOUS
    <3>8. /\ Outgoing = m /\ rst_connection' = rst_connection
          /\ connections' = [connections EXCEPT ![p] = d]
      BY <2>2, <3>1, <3>3, <3>6, <3>7 DEF SendConnection, Outgoing
    <3>9. /\ m.peer = p /\ m.ack = c.current_inseqno /\ Carrying(m)
          /\ Kept(c, d) /\ d.current_inseqno = c.current_inseqno
      BY <3>2, <3>4, <3>5, <3>6, <3>7, SegmentCarries
    <3>10. d \in Connection
      BY <1>0, <3>2, <3>4, <3>7, SentTypes DEF ServerTypes
    <3>11. Answering(p, d)
      BY <3>2, <3>4, <3>5, <3>9, <3>10, KeptAnswering
    <3>12. \A q \in Peers : connections'[q] = IF q = p THEN d ELSE connections[q]
      BY <1>0, <3>8 DEF ServerTypes
    <3>13. \A q \in Peers : connections'[q] # NoConnection =>
             /\ Answering(q, connections'[q])
             /\ connections'[q].current_inseqno <= Reach(q, clients[q])
      BY <1>2, <3>5, <3>9, <3>11, <3>12
    <3> QED
      BY <1>0, <1>1, <3>5, <3>8, <3>9, <3>13 DEF ConnectionsAnswer
  <2> QED
    BY <1>1, <2>1, <2>2
<1>4. SegmentsAsk' /\ SegmentsCarry' /\ ClientsRead'
  BY <1>0, <1>1, <1>3 DEF SegmentsAsk, SegmentsCarry, ClientsRead
<1> QED
  BY <1>3, <1>4 DEF StreamInv

\* The server sends again what is not acknowledged: smews_retransmit.
LEMMA TickKeepsStream ==
  ASSUME NetInv, StreamInv, ServerTick
  PROVE  StreamInv'
<1>0. /\ ServerTypes
      /\ SegmentsAsk /\ ConnectionsAnswer /\ SegmentsCarry /\ ClientsRead
  BY DEF NetInv, ServerInv, StreamInv
<1>1. smews_retransmit /\ UNCHANGED <<clients, to_server, to_clients>>
  BY DEF ServerTick
<1>2. PICK now : now = (last_transmission_time + 1) % TickMod
  OBVIOUS
<1>3. /\ connections' = [p \in Peers |-> RolledBack(connections[p], now)]
      /\ rst_connection' = rst_connection
  BY <1>1, <1>2 DEF smews_retransmit
<1>4. ASSUME NEW p \in Peers, connections'[p] # NoConnection
      PROVE  /\ Answering(p, connections'[p])
             /\ connections'[p].current_inseqno <= Reach(p, clients[p])
  <2>1. PICK c : c = connections[p]
    OBVIOUS
  <2>2. c # NoConnection
    BY <1>3, <1>4, <2>1 DEF RolledBack
  <2>3. c \in Connection
    BY <1>0, <2>1, <2>2 DEF ServerTypes
  <2>4. Answering(p, c) /\ c.current_inseqno <= Reach(p, clients[p])
    BY <1>0, <2>1, <2>2 DEF ConnectionsAnswer
  <2>5. PICK d : d = RolledBack(c, now)
    OBVIOUS
  <2>6. connections'[p] = d
    BY <1>3, <2>1, <2>5
  <2>7. Kept(c, d) /\ d.current_inseqno = c.current_inseqno
    BY <2>3, <2>5, RolledBackKept
  <2>8. d \in Connection
    BY <2>2, <2>3, <2>5, RolledBackTypes, <1>0, <1>2, Remainder, ConstantTypes DEF ServerTypes
  <2> QED
    BY <2>3, <2>4, <2>6, <2>7, <2>8, KeptAnswering
<1>5. ConnectionsAnswer'
  BY <1>0, <1>1, <1>3, <1>4 DEF ConnectionsAnswer
<1>6. SegmentsAsk' /\ SegmentsCarry' /\ ClientsRead'
  BY <1>0, <1>1 DEF SegmentsAsk, SegmentsCarry, ClientsRead
<1> QED
  BY <1>5, <1>6 DEF StreamInv

\* A step of client p, which becomes d and sends the segments of S: it reads
\* on, and has sent what the segments end with.
StreamStep(p, d, S) ==
  /\ p \in Peers /\ d \in Client
  /\ Reading(p, d)
  /\ Reach(p, clients[p]) <= Reach(p, d)
  /\ \A s \in S : s.peer = p /\ Requesting(s) /\ Reaches(s, Reach(p, d))
  /\ clients' = [clients EXCEPT ![p] = d]
  /\ to_server' = to_server \cup S
  /\ UNCHANGED <<server, to_clients>>

\* What a client has sent ends at a number.
LEMMA ReachTypes ==
  ASSUME NEW p \in Peers, NEW c \in Client
  PROVE  Reach(p, c) \in Int
<1>1. Iss[p] \in Int /\ c.sent \in Int
  BY ClientAssumption, ConstantTypes DEF Client
<1>2. Reach(p, c) = Iss[p] + 1 + c.sent + 0 \/ Reach(p, c) = Iss[p] + 1 + c.sent + 1
  BY DEF Reach
<1> QED
  BY <1>1, <1>2

\* Such a step keeps the invariant.
LEMMA ClientKeepsStream ==
  ASSUME NetInv, StreamInv, NEW p, NEW d, NEW S, StreamStep(p, d, S)
  PROVE  StreamInv'
<1>0. /\ ServerTypes /\ ServerNumbers /\ ClientsNumbers
      /\ SegmentsAsk /\ ConnectionsAnswer /\ SegmentsCarry /\ ClientsRead
  BY DEF NetInv, ServerInv, StreamInv
<1>1. /\ p \in Peers /\ clients' = [clients EXCEPT ![p] = d] /\ to_server' = to_server \cup S
      /\ UNCHANGED <<connections, rst_connection, to_clients>>
  BY DEF StreamStep, server
<1>2. \A q \in Peers : clients'[q] = IF q = p THEN d ELSE clients[q]
  BY <1>0, <1>1 DEF ClientsNumbers
<1>3. ASSUME NEW q \in Peers
      PROVE  /\ Reach(q, clients[q]) \in Int /\ Reach(q, clients'[q]) \in Int
             /\ Reach(q, clients[q]) <= Reach(q, clients'[q])
  <2>1. clients[q] \in Client /\ clients'[q] \in Client
    BY <1>0, <1>2 DEF ClientsNumbers, StreamStep
  <2>2. Reach(q, clients[q]) \in Int /\ Reach(q, clients'[q]) \in Int
    BY <2>1, ReachTypes
  <2>3. q = p => Reach(q, clients[q]) <= Reach(q, clients'[q])
    BY <1>2 DEF StreamStep
  <2>4. q # p => clients'[q] = clients[q]
    BY <1>2
  <2> QED
    BY <2>2, <2>3, <2>4
<1>4. SegmentsAsk'
  <2>1. ASSUME NEW s \in to_server PROVE Requesting(s) /\ Reaches(s, Reach(s.peer, clients'[s.peer]))
    <3>1. s.peer \in Peers /\ s.seq \in Int /\ s.len \in Int
      BY <1>0, ConstantTypes DEF ServerNumbers, InSegment
    <3>2. Requesting(s) /\ Reaches(s, Reach(s.peer, clients[s.peer]))
      BY <1>0 DEF SegmentsAsk
    <3>3. PICK a, b : a = Reach(s.peer, clients[s.peer]) /\ b = Reach(s.peer, clients'[s.peer])
      OBVIOUS
    <3>4. a \in Int /\ b \in Int /\ a <= b
      BY <1>3, <3>1, <3>3
    <3>5. Reaches(s, b)
      BY <3>1, <3>2, <3>3, <3>4 DEF Reaches
    <3> QED
      BY <3>2, <3>3, <3>5
  <2>2. ASSUME NEW s \in S PROVE Requesting(s) /\ Reaches(s, Reach(s.peer, clients'[s.peer]))
    BY <1>1, <1>2 DEF StreamStep
  <2> QED
    BY <1>1, <2>1, <2>2 DEF SegmentsAsk
<1>5. ASSUME NEW q \in Peers, NEW n \in Int, n <= Reach(q, clients[q])
      PROVE  n <= Reach(q, clients'[q])
  BY <1>3, <1>5
<1>6. ConnectionsAnswer'
  <2>1. ASSUME NEW q \in Peers, connections[q] # NoConnection
        PROVE  /\ Answering(q, connections[q])
               /\ connections[q].current_inseqno <= Reach(q, clients'[q])
    <3>1. connections[q].current_inseqno \in Int
      BY <1>0, <2>1, ConstantTypes DEF ServerTypes, Connection
    <3> QED
      BY <1>0, <1>5, <2>1, <3>1 DEF ConnectionsAnswer
  <2>2. ASSUME rst_connection # None
        PROVE  rst_connection.current_inseqno <= Reach(rst_connection.peer, clients'[rst_connection.peer])
    <3>1. rst_connection.peer \in Peers /\ rst_connection.current_inseqno \in Int
      BY <1>0, <2>2, ConstantTypes DEF ServerTypes, Reset
    <3> QED
      BY <1>0, <1>5, <2>2, <3>1 DEF ConnectionsAnswer
  <2> QED
    BY <1>1, <2>1, <2>2 DEF ConnectionsAnswer
<1>7. SegmentsCarry'
  <2>1. ASSUME NEW m \in to_clients
        PROVE  Carrying(m) /\ m.ack <= Reach(m.peer, clients'[m.peer])
    <3>1. m.peer \in Peers /\ m.ack \in Int
      BY <1>0, ConstantTypes DEF ClientsNumbers, Readables, OutSegment
    <3> QED
      BY <1>0, <1>5, <3>1 DEF SegmentsCarry
  <2> QED
    BY <1>1, <2>1 DEF SegmentsCarry
<1>8. ClientsRead'
  BY <1>0, <1>2 DEF ClientsRead, StreamStep
<1> QED
  BY <1>4, <1>6, <1>7, <1>8 DEF StreamInv

\* A client that keeps what it has sent and read, as one that offers a window
\* does.
LEMMA SameReading ==
  ASSUME NEW p \in Peers, NEW c, NEW d, Reading(p, c),
         d.sent = c.sent, d.got = c.got, d.rcv_nxt = c.rcv_nxt, d.acked = c.acked,
         d.state = c.state
  PROVE  Reading(p, d) /\ Reach(p, d) = Reach(p, c)
BY DEF Reading, Reach

\* Offering a window changes nothing else.
LEMMA OfferedSame ==
  ASSUME NEW c \in Client, NEW w
  PROVE  LET d == Offered(c, w) IN
         /\ d.sent = c.sent /\ d.got = c.got /\ d.rcv_nxt = c.rcv_nxt /\ d.acked = c.acked
         /\ d.state = c.state
<1>1. PICK e : e = c.rcv_nxt + w
  OBVIOUS
<1>2. Offered(c, w) = [c EXCEPT !.edge = e]
  BY <1>1 DEF Offered
<1> QED
  BY <1>2 DEF Client

\* A client opens its connection.
LEMMA SynStream ==
  ASSUME NumbersFit, NetInv, StreamInv, ClientSyn
  PROVE  \E p, d, S : StreamStep(p, d, S)
<1>0. ClientsNumbers /\ ClientsRead
  BY DEF NetInv, StreamInv
<1>1. PICK p \in Peers, w \in Windows :
        /\ MaySyn(p)
        /\ clients' = [clients EXCEPT ![p].state = "syn_sent"]
        /\ to_server' = to_server \cup {Syn(p, clients[p], w)}
        /\ UNCHANGED <<server, to_clients>>
  BY DEF ClientSyn
<1>2. PICK c : c = clients[p]
  OBVIOUS
<1>3. c \in Client /\ Reading(p, c) /\ c.state \in Early
  BY <1>0, <1>1, <1>2 DEF ClientsNumbers, ClientsRead, MaySyn, Early
<1>4. PICK d : d = [c EXCEPT !.state = "syn_sent"]
  OBVIOUS
<1>5. /\ d \in Client /\ d.state = "syn_sent" /\ d.sent = c.sent /\ d.got = c.got
  BY <1>3, <1>4 DEF Client, ClientStates
<1>6. Reading(p, d) /\ Reach(p, d) = Reach(p, c)
  BY <1>3, <1>5 DEF Reading, Reach, Early
<1>7. Reach(p, d) = Iss[p] + 1 + d.sent + 0 /\ Iss[p] \in Int /\ d.sent \in Nat
  BY <1>5, ClientAssumption, ConstantTypes DEF Reach, Early, Client
<1>8. PICK t : t = ClientSegment(p, c, w)
  OBVIOUS
<1>9. PICK s : s = Syn(p, c, w)
  OBVIOUS
<1>10. s = [t EXCEPT !.seq = Iss[p], !.flag = "SYN", !.mss = Mss]
  BY <1>8, <1>9 DEF Syn
<1>11. t \in InSegment /\ t.len = 0 /\ t.peer = p
  BY <1>3, <1>8, ClientSegmentTypes
<1>12. s.seq = Iss[p] /\ s.len = 0 /\ s.peer = p
  BY <1>10, <1>11 DEF InSegment
<1>13. Requesting(s) /\ Reaches(s, Reach(p, d))
  <2>1. Requesting(s)
    BY <1>12 DEF Requesting
  <2>2. PICK r : r = Reach(p, d)
    OBVIOUS
  <2>3. Reaches(s, r)
    BY <1>7, <1>12, <2>2 DEF Reaches
  <2> QED
    BY <2>1, <2>2, <2>3
<1>14. /\ clients' = [clients EXCEPT ![p] = d] /\ to_server' = to_server \cup {s}
       /\ UNCHANGED <<server, to_clients>>
  BY <1>1, <1>2, <1>4, <1>9
<1>15. Reach(p, clients[p]) <= Reach(p, d)
  BY <1>2, <1>6, <1>7
<1>16. StreamStep(p, d, {s})
  BY <1>5, <1>6, <1>12, <1>13, <1>14, <1>15 DEF StreamStep
<1> QED
  BY <1>16

\* A client closes its connection.
LEMMA FinStream ==
  ASSUME NumbersFit, NetInv, StreamInv, ClientFin
  PROVE  \E p, d, S : StreamStep(p, d, S)
<1>0. ClientsNumbers /\ ClientsRead
  BY DEF NetInv, StreamInv
<1>1. PICK p \in Peers, w \in Windows :
        LET c == [clients[p] EXCEPT !.state = "fin_wait"] IN
        /\ MayFin(p) /\ MayOffer(c, w)
        /\ clients' = [clients EXCEPT ![p] = Offered(c, w)]
        /\ to_server' = to_server \cup {Fin(p, c, w)}
        /\ UNCHANGED <<server, to_clients>>
  BY DEF ClientFin
<1>2. PICK b : b = clients[p]
  OBVIOUS
<1>3. PICK c : c = [b EXCEPT !.state = "fin_wait"]
  OBVIOUS
<1>4. /\ b \in Client /\ ClientNumbers(b) /\ Reading(p, b) /\ b.state \in {"established", "fin_wait"}
  BY <1>0, <1>1, <1>2 DEF ClientsNumbers, ClientOK, ClientsRead, MayFin
<1>5. /\ c \in Client /\ c.state = "fin_wait" /\ c.sent = b.sent /\ c.got = b.got
      /\ c.rcv_nxt = b.rcv_nxt /\ ClientNumbers(c)
  BY <1>3, <1>4 DEF Client, ClientStates, ClientNumbers, Early
<1>6. PICK s : s = Fin(p, c, w)
  OBVIOUS
<1>7. PICK d : d = Offered(c, w)
  OBVIOUS
<1>8. /\ MayOffer(c, w)
      /\ clients' = [clients EXCEPT ![p] = d] /\ to_server' = to_server \cup {s}
      /\ UNCHANGED <<server, to_clients>>
  BY <1>1, <1>2, <1>3, <1>6, <1>7
<1>9. d \in Client
  BY <1>5, <1>7, <1>8, OfferedTypes DEF ClientOK
<1>10. Reading(p, c)
  BY <1>4, <1>5 DEF Reading, Early
<1>11. /\ d.sent = c.sent /\ d.got = c.got /\ d.rcv_nxt = c.rcv_nxt /\ d.acked = c.acked
       /\ d.state = c.state
  BY <1>5, <1>7, OfferedSame
<1>12. Reading(p, d) /\ Reach(p, d) = Reach(p, c)
  BY <1>10, <1>11, SameReading
<1>13. PICK i : i = Iss[p]
  OBVIOUS
<1>14. PICK n : n = b.sent
  OBVIOUS
<1>15. i \in Nat /\ n \in Nat /\ InMod \in Nat
  BY <1>4, <1>13, <1>14, ClientAssumption, ConstantTypes DEF Client
<1>16. /\ Reach(p, d) = i + 1 + n + 1
       /\ Reach(p, b) = i + 1 + n + 0 \/ Reach(p, b) = i + 1 + n + 1
  <2>1. "fin_wait" \notin Early \cup {"established"}
    BY DEF Early
  <2>2. Reach(p, c) = i + 1 + n + 1
    BY <1>5, <1>13, <1>14, <2>1 DEF Reach
  <2> QED
    BY <1>12, <1>13, <1>14, <2>2 DEF Reach
<1>17. i + 1 + n + 1 < InMod
  BY <1>4, <1>5, <1>9, <1>11, <1>12, <1>16, ReachFits DEF Reading
<1>18. s.seq = i + 1 + n /\ s.len = 0 /\ s.peer = p
  <2>1. PICK t : t = ClientSegment(p, c, w)
    OBVIOUS
  <2>2. t \in InSegment /\ t.peer = p /\ t.len = 0
    BY <1>5, <2>1, ClientSegmentTypes
  <2>3. PICK k : k = (Iss[p] + 1 + c.sent) % InMod
    OBVIOUS
  <2>4. s = [t EXCEPT !.seq = k, !.flag = "FIN"]
    BY <1>6, <2>1, <2>3 DEF Fin
  <2>5. k = i + 1 + n
    <3>1. i + 1 + n \in Int /\ 0 <= i + 1 + n /\ i + 1 + n < InMod
      BY <1>15, <1>17
    <3>2. k = (i + 1 + n) % InMod
      BY <1>5, <1>13, <1>14, <2>3
    <3> QED
      BY <1>15, <3>1, <3>2, SmallRemainder
  <2> QED
    BY <2>2, <2>4, <2>5 DEF InSegment
<1>19. Requesting(s) /\ Reaches(s, Reach(p, d))
  <2>1. Requesting(s)
    BY <1>18 DEF Requesting
  <2>2. PICK r : r = Reach(p, d)
    OBVIOUS
  <2>3. Reaches(s, r)
    BY <1>15, <1>16, <1>18, <2>2 DEF Reaches
  <2> QED
    BY <2>1, <2>2, <2>3
<1>20. Reach(p, clients[p]) <= Reach(p, d)
  BY <1>2, <1>15, <1>16
<1>21. StreamStep(p, d, {s})
  BY <1>8, <1>9, <1>12, <1>18, <1>19, <1>20 DEF StreamStep
<1> QED
  BY <1>21

\* Requests of one segment are numbered as their segments.
LEMMA DividedByOne ==
  ASSUME NEW x \in Int
  PROVE  x \div 1 = x /\ x % 1 = 0
OBVIOUS

\* When each request is one segment, segment n is request n.
LEMMA WholeSegments ==
  ASSUME WholeRequests, NEW p \in Peers
  PROVE  /\ NbSegments(p) = Len(Requests[p])
         /\ \A n \in Asked(p) : RequestOf(n) = n /\ CutOf(n) = Cuts[1]
<1>1. Len(Cuts) = 1 /\ Len(Requests[p]) \in Nat
  BY RequestFacts DEF WholeRequests
<1>2. NbSegments(p) = Len(Requests[p])
  BY <1>1 DEF NbSegments
<1>3. ASSUME NEW n \in Asked(p) PROVE RequestOf(n) = n /\ CutOf(n) = Cuts[1]
  <2>1. n \in Int /\ n - 1 \in Int
    BY RequestFacts
  <2>2. (n - 1) \div 1 = n - 1 /\ (n - 1) % 1 = 0
    BY <2>1, DividedByOne
  <2>3. RequestOf(n) = ((n - 1) \div 1) + 1 /\ CutOf(n) = Cuts[((n - 1) % 1) + 1]
    BY <1>1 DEF RequestOf, CutOf
  <2> QED
    BY <2>1, <2>2, <2>3
<1> QED
  BY <1>2, <1>3

\* A client sends a request, for the first time or again: it has read the
\* answers to those before, and no more, as reading the next one would have
\* acknowledged the request.
LEMMA RequestStream ==
  ASSUME WholeRequests, NumbersFit, NetInv, StreamInv, ClientRequest
  PROVE  \E p, d, S : StreamStep(p, d, S)
<1>0. ClientsNumbers /\ ClientsRead
  BY DEF NetInv, StreamInv
<1>1. PICK p \in Peers, w \in Windows : \E n \in 1 .. NbSegments(p) :
        LET c == Requested(clients[p], n) IN
        /\ MayRequest(p, n) /\ MayOffer(c, w)
        /\ clients' = [clients EXCEPT ![p] = Offered(c, w)]
        /\ to_server' = to_server \cup {RequestSegment(p, c, n, w)}
        /\ UNCHANGED <<server, to_clients>>
  BY DEF ClientRequest
<1>2. PICK n \in 1 .. NbSegments(p) :
        LET c == Requested(clients[p], n) IN
        /\ MayRequest(p, n) /\ MayOffer(c, w)
        /\ clients' = [clients EXCEPT ![p] = Offered(c, w)]
        /\ to_server' = to_server \cup {RequestSegment(p, c, n, w)}
        /\ UNCHANGED <<server, to_clients>>
  BY <1>1
<1>3. n \in Asked(p) /\ RequestOf(n) = n /\ CutOf(n) = Cuts[1]
  BY WholeSegments DEF Asked
<1>4. PICK b : b = clients[p]
  OBVIOUS
<1>5. /\ b \in Client /\ ClientNumbers(b) /\ Reading(p, b) /\ b.state = "established"
      /\ n \in b.acked + 1 .. b.sent + 1
      /\ Len(b.got) >= AnswerLength(p, n - 1)
  BY <1>0, <1>2, <1>3, <1>4 DEF ClientsNumbers, ClientOK, ClientsRead, MayRequest
<1>6. PICK m : m = IF n > b.sent THEN n ELSE b.sent
  OBVIOUS
<1>7. PICK c : c = [b EXCEPT !.sent = m]
  OBVIOUS
<1>8. /\ n \in Nat /\ n <= Len(Requests[p]) /\ b.sent \in Nat /\ b.acked \in Nat
      /\ b.sent <= Len(Requests[p]) /\ Len(Requests[p]) \in Nat
  BY <1>3, <1>5, RequestFacts DEF Asked, Client, Reading
<1>9. m \in Nat /\ n <= m /\ b.sent <= m /\ m <= Len(Requests[p]) /\ b.acked < n
  BY <1>5, <1>6, <1>8
<1>10. /\ c \in Client /\ c.state = "established" /\ c.sent = m /\ c.got = b.got
       /\ c.rcv_nxt = b.rcv_nxt /\ c.acked = b.acked /\ ClientNumbers(c)
  BY <1>5, <1>7, <1>9 DEF Client, ClientNumbers, Early
<1>11. PICK s : s = RequestSegment(p, c, n, w)
  OBVIOUS
<1>12. PICK d : d = Offered(c, w)
  OBVIOUS
<1>13. /\ MayOffer(c, w)
       /\ clients' = [clients EXCEPT ![p] = d] /\ to_server' = to_server \cup {s}
       /\ UNCHANGED <<server, to_clients>>
  BY <1>2, <1>4, <1>6, <1>7, <1>11, <1>12 DEF Requested
<1>14. d \in Client
  BY <1>10, <1>12, <1>13, OfferedTypes DEF ClientOK
<1>15. Reading(p, c)
  BY <1>5, <1>9, <1>10 DEF Reading, Early
<1>16. /\ d.sent = c.sent /\ d.got = c.got /\ d.rcv_nxt = c.rcv_nxt /\ d.acked = c.acked
       /\ d.state = c.state
  BY <1>10, <1>12, OfferedSame
<1>17. Reading(p, d) /\ Reach(p, d) = Reach(p, c)
  BY <1>15, <1>16, SameReading
<1>18. PICK i : i = Iss[p]
  OBVIOUS
<1>19. i \in Nat /\ InMod \in Nat
  BY <1>18, ClientAssumption, ConstantTypes
<1>20. Reach(p, d) = i + 1 + m /\ Reach(p, b) = i + 1 + b.sent
  <2>1. "established" \in Early \cup {"established"}
    OBVIOUS
  <2>2. Reach(p, c) = i + 1 + m + 0 /\ Reach(p, b) = i + 1 + b.sent + 0
    BY <1>5, <1>10, <1>18, <2>1 DEF Reach
  <2> QED
    BY <1>8, <1>9, <1>17, <1>19, <2>2
<1>21. i + 1 + m < InMod
  BY <1>9, <1>14, <1>16, <1>10, <1>20, ReachFits
<1>22. Len(b.got) = AnswerLength(p, n - 1)
  <2>1. ~ (AnswerLength(p, n - 1) < Len(b.got))
    <3>1. AnswerLength(p, n - 1) < Len(b.got) => n <= b.acked
      BY <1>3, <1>5 DEF Reading
    <3> QED
      BY <1>8, <1>9, <3>1
  <2>2. Len(b.got) \in Nat
    BY <1>5, LenProperties DEF Client
  <2>3. AnswerLength(p, n - 1) \in Nat
    <3>1. n - 1 \in 0 .. Len(Requests[p])
      BY <1>3, RequestFacts DEF Asked
    <3> QED
      BY <3>1, LengthGrows
  <2> QED
    BY <1>5, <2>1, <2>2, <2>3
<1>23. c.rcv_nxt = Starts(p, n)
  BY <1>5, <1>10, <1>22 DEF Reading, Starts
<1>24. /\ s.seq = i + n /\ s.len = 1 /\ s.peer = p /\ s.ack = Starts(p, n) /\ s.flag = "ACK"
       /\ s.text.file = Requests[p][n] /\ s.text.from = 1 /\ s.text.to # 1
  <2>1. PICK t : t = ClientSegment(p, c, w)
    OBVIOUS
  <2>2. t \in InSegment /\ t.peer = p /\ t.ack = Starts(p, n) /\ t.flag = "ACK"
    BY <1>10, <1>23, <2>1, ClientSegmentTypes
  <2>3. PICK x : x = [file |-> Requests[p][n], from |-> Cuts[1].from, to |-> Cuts[1].to]
    OBVIOUS
  <2>4. x.file = Requests[p][n] /\ x.from = 1 /\ x.to # 1
    BY <2>3 DEF WholeRequests
  <2>5. PICK k : k = (i + n) % InMod
    OBVIOUS
  <2>6. s = [t EXCEPT !.seq = k, !.len = 1, !.text = x]
    BY <1>3, <1>11, <1>18, <2>1, <2>3, <2>5 DEF RequestSegment
  <2>7. k = i + n
    <3>1. i + n \in Int /\ 0 <= i + n /\ i + n < InMod
      BY <1>8, <1>9, <1>19, <1>21
    <3> QED
      BY <1>19, <2>5, <3>1, SmallRemainder
  <2> QED
    BY <2>2, <2>4, <2>6, <2>7 DEF InSegment
<1>25. Requesting(s) /\ Reaches(s, Reach(p, d))
  <2>1. Requesting(s)
    BY <1>3, <1>18, <1>24 DEF Requesting
  <2>2. PICK r : r = Reach(p, d)
    OBVIOUS
  <2>3. s.seq + s.len <= r
    BY <1>8, <1>9, <1>19, <1>20, <1>24, <2>2
  <2>4. Reaches(s, r)
    BY <1>24, <2>3 DEF Reaches
  <2> QED
    BY <2>1, <2>2, <2>4
<1>26. Reach(p, clients[p]) <= Reach(p, d)
  BY <1>4, <1>8, <1>9, <1>19, <1>20
<1>27. StreamStep(p, d, {s})
  BY <1>13, <1>14, <1>17, <1>24, <1>25, <1>26 DEF StreamStep
<1> QED
  BY <1>27

\* What a client reads of a segment is where the answer has it.
LEMMA AcceptedReads ==
  ASSUME NEW p \in Peers, NEW c \in Client, NEW m \in OutSegment, m.peer = p,
         Begun(c.got, Answers(p)), c.rcv_nxt = BASIC_SEQNO + 1 + Len(c.got),
         Continues(c, m), NEW n \in Asked(p), Carries(n, m)
  PROVE  LET d == Accepted(c, m) IN
         /\ d.rcv_nxt = BASIC_SEQNO + 1 + Len(d.got)
         /\ Begun(d.got, Answers(p))
         /\ Len(d.got) <= AnswerLength(p, n)
         /\ d.sent = c.sent /\ d.acked = c.acked /\ d.state = c.state
         /\ d.got \in Seq(Files \X Int)
<1> DEFINE skip == c.rcv_nxt - m.seq
           k == m.len - skip
           data == [i \in 1 .. k |-> <<m.handler, m.index + skip + i - 1>>]
<1>1. PICK f : f = m.handler
  OBVIOUS
<1>2. PICK l : l = Length[f]
  OBVIOUS
<1>3. PICK a : a = AnswerLength(p, n - 1)
  OBVIOUS
<1>4. PICK g : g = Len(c.got)
  OBVIOUS
<1>5. PICK b : b = BASIC_SEQNO + 1
  OBVIOUS
<1>6. /\ f \in Files /\ 0 <= m.index /\ m.seq <= c.rcv_nxt /\ c.rcv_nxt < m.seq + m.len
      /\ f = Requests[p][n]
  <2>1. m.index \in Int
    BY DEF OutSegment
  <2>2. /\ m.handler \in Files /\ ~ (m.index < 0)
        /\ m.seq <= c.rcv_nxt /\ c.rcv_nxt < m.seq + m.len
    BY DEF Continues, Damaged
  <2>3. m.handler = Requests[p][n]
    BY DEF Carries
  <2> QED
    BY <1>1, <2>1, <2>2, <2>3
<1>7. /\ m.seq \in Int /\ m.len \in Int /\ m.index \in Int /\ b \in Int
      /\ c.got \in Seq(Files \X Int) /\ g \in Nat /\ c.rcv_nxt = b + g
      /\ l \in Nat
  <2>1. c.got \in Seq(Files \X Int)
    BY DEF Client
  <2> QED
    BY <1>2, <1>4, <1>5, <1>6, <2>1, ConstantTypes, SmewsAssumption, LenProperties DEF OutSegment
<1>8. /\ a \in Nat /\ AnswerLength(p, n) = a + l
      /\ AnswerLength(p, n) <= AnswerLength(p, Len(Requests[p]))
      /\ AnswerLength(p, Len(Requests[p])) \in Nat
  <2>1. n - 1 \in Nat /\ (n - 1) + 1 = n /\ n - 1 \in 0 .. Len(Requests[p])
        /\ n \in 0 .. Len(Requests[p]) /\ Len(Requests[p]) \in n .. Len(Requests[p])
    BY RequestFacts DEF Asked
  <2> QED
    BY <1>2, <1>3, <1>6, <2>1, LengthSteps, LengthGrows
<1>9. m.seq - m.index = b + a /\ m.index + m.len <= l
  BY <1>1, <1>2, <1>3, <1>5 DEF Carries, Starts
<1>10. /\ skip \in Int /\ k \in Nat /\ m.index + skip = g - a /\ 0 <= g - a
       /\ g + k = a + m.index + m.len /\ g + k <= a + l
       /\ m.seq + m.len = b + (g + k)
  <2>1. PICK x, s, z : x = m.index /\ s = m.seq /\ z = m.len
    OBVIOUS
  <2>2. /\ x \in Int /\ s \in Int /\ z \in Int /\ b \in Int /\ g \in Nat /\ l \in Nat /\ a \in Nat
        /\ 0 <= x /\ s <= b + g /\ b + g < s + z /\ s - x = b + a /\ x + z <= l
    BY <1>6, <1>7, <1>8, <1>9, <2>1
  <2>3. skip = b + g - s /\ k = z - skip
    BY <1>7, <2>1
  <2> HIDE DEF skip, k
  <2>4. /\ skip \in Int /\ k \in Nat /\ x + skip = g - a /\ 0 <= g - a
        /\ g + k = a + x + z /\ g + k <= a + l /\ s + z = b + (g + k)
    BY <2>2, <2>3
  <2> QED
    BY <2>1, <2>4
<1>11. data = [i \in 1 .. k |-> <<f, m.index + skip + i - 1>>]
  BY <1>1
<1>12. Accepted(c, m) = [c EXCEPT !.got = @ \o data, !.rcv_nxt = m.seq + m.len]
  BY DEF Accepted
<1> HIDE DEF skip, k
<1>13. ASSUME NEW i \in 1 .. k PROVE data[i] = <<f, g - a + i - 1>>
  BY <1>10, <1>11
<1>14. data \in Seq(Files \X Int) /\ Len(data) = k
  <2>1. \A i \in 1 .. k : <<f, m.index + skip + i - 1>> \in Files \X Int
    <3> TAKE i \in 1 .. k
    <3>1. m.index + skip + i - 1 \in Int
      BY <1>7, <1>10
    <3> QED
      BY <1>6, <3>1
  <2>2. data \in Seq(Files \X Int)
    BY <1>10, <1>11, <2>1, IsASeq
  <2>3. DOMAIN data = 1 .. k
    BY <1>11
  <2> HIDE DEF data
  <2>4. DOMAIN data = 1 .. Len(data) /\ Len(data) \in Nat
    BY <2>2, LenProperties
  <2> QED
    BY <1>10, <2>2, <2>3, <2>4
<1> HIDE DEF data
<1>15. PICK t : t = c.got \o data
  OBVIOUS
<1>16. /\ t \in Seq(Files \X Int) /\ Len(t) = g + k
       /\ \A i \in 1 .. g + k : t[i] = IF i <= g THEN c.got[i] ELSE data[i - g]
  <2>1. PICK s, u : s = c.got /\ u = data
    OBVIOUS
  <2>2. s \in Seq(Files \X Int) /\ u \in Seq(Files \X Int)
    BY <1>7, <1>14, <2>1
  <2>3. /\ s \o u \in Seq(Files \X Int) /\ Len(s \o u) = Len(s) + Len(u)
        /\ \A i \in 1 .. Len(s) + Len(u) :
             (s \o u)[i] = IF i <= Len(s) THEN s[i] ELSE u[i - Len(s)]
    BY <2>2, ConcatProperties
  <2> QED
    BY <1>4, <1>14, <1>15, <2>1, <2>3
<1>17. PICK r : r = m.seq + m.len
  OBVIOUS
<1>18. PICK d : d = Accepted(c, m)
  OBVIOUS
<1>19. d = [c EXCEPT !.got = t, !.rcv_nxt = r]
  BY <1>12, <1>15, <1>17, <1>18
<1>20. /\ d.got = t /\ d.rcv_nxt = r /\ d.sent = c.sent /\ d.acked = c.acked
       /\ d.state = c.state
  BY <1>19 DEF Client
<1>21. r = BASIC_SEQNO + 1 + Len(t)
  BY <1>5, <1>10, <1>16, <1>17
<1>22. Len(t) <= AnswerLength(p, n)
  BY <1>8, <1>10, <1>16
<1>23. Begun(t, Answers(p))
  <2>1. Holds(p, Len(Requests[p]), Answers(p))
    BY AnswersHold
  <2>2. Len(t) <= Len(Answers(p))
    <3>1. Len(t) \in Nat
      BY <1>16, LenProperties
    <3> QED
      BY <1>7, <1>8, <1>22, <2>1, <3>1 DEF Holds
  <2>3. ASSUME NEW i \in 1 .. Len(t) PROVE t[i] = Answers(p)[i]
    <3>1. i \in 1 .. g + k
      BY <1>16
    <3>2. CASE i <= g
      <4>1. i \in 1 .. Len(c.got) /\ t[i] = c.got[i]
        BY <1>4, <1>7, <1>10, <1>16, <3>1, <3>2
      <4> QED
        BY <4>1 DEF Begun
    <3>3. CASE ~ (i <= g)
      <4>1. PICK j : j = i - g
        OBVIOUS
      <4>2. PICK q : q = g - a + j - 1
        OBVIOUS
      <4>3. j \in 1 .. k /\ q \in 0 .. l - 1 /\ a + q + 1 = i
        BY <1>7, <1>8, <1>10, <3>1, <3>3, <4>1, <4>2
      <4>4. t[i] = <<f, q>>
        BY <1>13, <1>16, <3>1, <3>3, <4>1, <4>2, <4>3
      <4>5. n \in 1 .. Len(Requests[p])
        BY DEF Asked
      <4>6. Answers(p)[AnswerLength(p, n - 1) + q + 1] = <<Requests[p][n], q>>
        BY <1>2, <1>6, <2>1, <4>3, <4>5 DEF Holds
      <4> QED
        BY <1>3, <1>6, <4>3, <4>4, <4>6
    <3> QED
      BY <3>2, <3>3
  <2> QED
    BY <2>2, <2>3 DEF Begun
<1> QED
  BY <1>16, <1>18, <1>20, <1>21, <1>22, <1>23

\* A client knows that the server has a request when it reads the answer.
LEMMA AnswerAcknowledges ==
  ASSUME NumbersFit, NEW p \in Peers, NEW c \in Client, c.sent <= Len(Requests[p]),
         c.state = "established", NEW m \in OutSegment, m.peer = p,
         m.ack <= Reach(p, c), NEW n \in Nat, Iss[p] + 1 + n <= m.ack
  PROVE  n <= AckedBy(c, m)
<1>1. PICK i : i = Iss[p]
  OBVIOUS
<1>2. PICK y : y = m.ack - i - 1
  OBVIOUS
<1>3. i \in Nat /\ c.sent \in Nat /\ c.acked \in Nat /\ m.ack \in Int /\ InMod \in Nat
  BY <1>1, ClientAssumption, ConstantTypes DEF Client, OutSegment
<1>4. Reach(p, c) = i + 1 + c.sent + 0
  BY <1>1 DEF Reach
<1>5. i + 1 + c.sent + 0 < InMod
  BY <1>4, ReachFits
<1>6. y \in Int /\ n <= y /\ y <= c.sent /\ 0 <= y /\ y < InMod
  <2>1. PICK s, v : s = c.sent /\ v = m.ack
    OBVIOUS
  <2>2. /\ i \in Nat /\ s \in Nat /\ v \in Int /\ InMod \in Nat
        /\ i + 1 + n <= v /\ v <= i + 1 + s + 0 /\ i + 1 + s + 0 < InMod /\ y = v - i - 1
    BY <1>1, <1>2, <1>3, <1>4, <1>5, <2>1
  <2>3. y \in Int /\ n <= y /\ y <= s /\ 0 <= y /\ y < InMod
    BY <2>2
  <2> QED
    BY <2>1, <2>3
<1>7. y % InMod = y
  BY <1>3, <1>6, SmallRemainder
<1>8. AckedBy(c, m) = IF y > c.acked /\ y <= c.sent THEN y ELSE c.acked
  BY <1>1, <1>2, <1>7 DEF AckedBy
<1> QED
  BY <1>3, <1>6, <1>8

\* A client reads on when it receives a segment.
LEMMA ReceivedReads ==
  ASSUME NumbersFit, NEW p \in Peers, NEW c, ClientOK(c), Reading(p, c),
         NEW m, Readables(m), m.peer = p, Carrying(m), m.ack <= Reach(p, c)
  PROVE  LET d == Received(c, m) IN Reading(p, d) /\ Reach(p, c) <= Reach(p, d)
<1>0. c \in Client /\ ClientNumbers(c) /\ m \in OutSegment
  BY DEF ClientOK, Readables
<1>1. /\ c.sent <= Len(Requests[p]) /\ c.sent \in Int /\ c.acked \in Int /\ Iss[p] \in Int
      /\ Reach(p, c) \in Int /\ c.got \in Seq(Files \X Int)
  BY <1>0, ReachTypes, ClientAssumption, ConstantTypes DEF Reading, Client
<1>2. PICK k : k = AckedBy(c, m)
  OBVIOUS
<1>3. k \in Nat /\ c.acked <= k
  <2>1. PICK n : n = (m.ack - Iss[m.peer] - 1) % InMod
    OBVIOUS
  <2>2. m.ack - Iss[m.peer] - 1 \in Int
    BY <1>0, <1>1, ConstantTypes DEF OutSegment
  <2>3. n \in Nat
    BY <2>1, <2>2, ConstantTypes, Remainder
  <2>4. k = IF n > c.acked /\ n <= c.sent THEN n ELSE c.acked
    BY <1>2, <2>1 DEF AckedBy
  <2>5. c.acked \in Nat
    BY <1>0 DEF Client
  <2> QED
    BY <2>3, <2>4, <2>5
<1>4. PICK a : a = [c EXCEPT !.acked = k]
  OBVIOUS
<1>5. /\ a \in Client /\ a.state = c.state /\ a.rcv_nxt = c.rcv_nxt /\ a.got = c.got
      /\ a.sent = c.sent /\ a.acked = k
  BY <1>0, <1>3, <1>4 DEF Client
<1>6. Reading(p, a) /\ Reach(p, a) = Reach(p, c)
  <2>1. c.state = "established" => \A n \in Asked(p) :
          AnswerLength(p, n - 1) < Len(c.got) => n <= k
    <3>1. \A n \in Asked(p) : n \in Int
      BY RequestFacts
    <3> QED
      BY <1>1, <1>3, <3>1 DEF Reading
  <2> QED
    BY <1>5, <2>1 DEF Reading, Reach
<1>7. PICK r : r = [c EXCEPT !.state = "reset"]
  OBVIOUS
<1>8. PICK e : e = [c EXCEPT !.state = "established", !.rcv_nxt = m.seq + 1]
  OBVIOUS
<1>9. PICK z : z = [a EXCEPT !.state = "time_wait", !.rcv_nxt = m.seq + 1]
  OBVIOUS
<1>10. PICK x : x = Accepted(a, m)
  OBVIOUS
<1>11. PICK d : d = Received(c, m)
  OBVIOUS
<1>12. \/ d \in {c, a}
       \/ d = r
       \/ d = e /\ m.handler = "ref_synack" /\ c.state = "syn_sent"
       \/ d = z /\ c.state = "fin_wait"
       \/ d = x /\ c.state \in {"established", "fin_wait"} /\ Continues(c, m)
  BY <1>2, <1>4, <1>7, <1>8, <1>9, <1>10, <1>11 DEF Received
<1>13. ASSUME NEW f, f.sent = c.sent
       PROVE  \/ Reach(p, f) = Iss[p] + 1 + c.sent + 0
              \/ Reach(p, f) = Iss[p] + 1 + c.sent + 1
  BY <1>13 DEF Reach
<1>14. CASE d \in {c, a}
  BY <1>1, <1>6, <1>11, <1>14
<1>15. CASE d = r
  <2>1. r.state = "reset" /\ r.sent = c.sent /\ r.got = c.got
    BY <1>0, <1>7 DEF Client
  <2>2. Reading(p, r)
    BY <2>1 DEF Reading, Early
  <2>3. Reach(p, r) = Iss[p] + 1 + c.sent + 1
    <3>1. "reset" \notin Early \cup {"established"}
      BY DEF Early
    <3> QED
      BY <2>1, <3>1 DEF Reach
  <2>4. Reach(p, c) <= Reach(p, r)
    BY <1>1, <1>13, <2>3
  <2> QED
    BY <1>11, <1>15, <2>2, <2>4
<1>16. CASE d = e /\ m.handler = "ref_synack" /\ c.state = "syn_sent"
  <2>1. /\ e.state = "established" /\ e.sent = c.sent /\ e.got = c.got
        /\ e.rcv_nxt = m.seq + 1 /\ e.acked = c.acked
    BY <1>0, <1>8 DEF Client
  <2>2. c.got = << >> /\ m.seq = BASIC_SEQNO
    BY <1>16 DEF Reading, Early, Readables
  <2>3. Len(e.got) = 0
    BY <2>1, <2>2, EmptySeq
  <2>4. e.rcv_nxt = BASIC_SEQNO + 1 + Len(e.got)
    BY <2>1, <2>2, <2>3, ConstantTypes
  <2>5. \A n \in Asked(p) : ~ (AnswerLength(p, n - 1) < Len(e.got))
    <3> TAKE n \in Asked(p)
    <3>1. n - 1 \in 0 .. Len(Requests[p])
      BY RequestFacts DEF Asked
    <3>2. AnswerLength(p, n - 1) \in Nat
      BY <3>1, LengthGrows
    <3> QED
      BY <2>3, <3>2
  <2>6. Reading(p, e)
    BY <2>1, <2>4, <2>5 DEF Reading, Early
  <2>7. Reach(p, e) = Reach(p, c)
    BY <1>16, <2>1 DEF Reach, Early
  <2> QED
    BY <1>1, <1>11, <1>16, <2>6, <2>7
<1>17. CASE d = z /\ c.state = "fin_wait"
  <2>1. z.state = "time_wait" /\ z.sent = c.sent /\ z.got = c.got
    BY <1>5, <1>9 DEF Client
  <2>2. Reading(p, z)
    BY <2>1 DEF Reading, Early
  <2>3. Reach(p, z) = Reach(p, c)
    BY <1>17, <2>1 DEF Reach, Early
  <2> QED
    BY <1>1, <1>11, <1>17, <2>2, <2>3
<1>18. CASE d = x /\ c.state \in {"established", "fin_wait"} /\ Continues(c, m)
  <2>1. PICK n \in Asked(p) : Carries(n, m)
    BY <1>18 DEF Carrying, Continues
  <2>2. Continues(a, m)
    BY <1>5, <1>18 DEF Continues
  <2>3. Begun(a.got, Answers(p)) /\ a.rcv_nxt = BASIC_SEQNO + 1 + Len(a.got)
    BY <1>5, <1>6, <1>18 DEF Reading
  <2>4. /\ x.rcv_nxt = BASIC_SEQNO + 1 + Len(x.got)
        /\ Begun(x.got, Answers(p))
        /\ Len(x.got) <= AnswerLength(p, n)
        /\ x.sent = c.sent /\ x.acked = k /\ x.state = c.state
        /\ x.got \in Seq(Files \X Int)
    BY <1>0, <1>5, <1>10, <2>1, <2>2, <2>3, AcceptedReads
  <2>5. ASSUME c.state = "established", NEW j \in Asked(p),
               AnswerLength(p, j - 1) < Len(x.got)
        PROVE  j <= k
    <3>1. n \in Nat /\ j \in Nat /\ n \in 0 .. Len(Requests[p])
          /\ j - 1 \in 0 .. Len(Requests[p])
      BY RequestFacts DEF Asked
    <3>2. Iss[p] + 1 + n <= m.ack
      BY <2>1 DEF Carries
    <3>3. n <= k
      BY <1>0, <1>1, <1>2, <2>5, <3>1, <3>2, AnswerAcknowledges
    <3>4. j <= n
      <4>1. ASSUME j - 1 >= n PROVE FALSE
        <5>1. j - 1 \in n .. Len(Requests[p])
          BY <3>1, <4>1
        <5>2. /\ AnswerLength(p, n) \in Nat /\ AnswerLength(p, j - 1) \in Nat
              /\ AnswerLength(p, n) <= AnswerLength(p, j - 1)
          BY <3>1, <5>1, LengthGrows
        <5>3. Len(x.got) \in Nat
          BY <2>4, LenProperties
        <5> QED
          BY <2>4, <2>5, <5>2, <5>3
      <4> QED
        BY <3>1, <4>1
    <3> QED
      BY <1>3, <3>1, <3>3, <3>4
  <2>6. c.state \notin Early
    BY <1>18 DEF Early
  <2>7. Reading(p, x)
    BY <1>1, <2>4, <2>5, <2>6 DEF Reading
  <2>8. Reach(p, x) = Reach(p, c)
    BY <2>4 DEF Reach
  <2> QED
    BY <1>1, <1>11, <1>18, <2>7, <2>8
<1> QED
  BY <1>11, <1>12, <1>14, <1>15, <1>16, <1>17, <1>18

\* What a client answers ends within what it has sent.
LEMMA RepliesReach ==
  ASSUME NumbersFit, NEW p \in Peers, NEW c \in Client, c.sent <= Len(Requests[p]),
         NEW m \in OutSegment, m.peer = p, m.ack <= Reach(p, c),
         NEW w \in Windows, NEW s \in Replies(c, m, w)
  PROVE  s.peer = p /\ Requesting(s) /\ Reaches(s, Reach(p, c))
<1>1. PICK b : b = Reach(p, c)
  OBVIOUS
<1>2. b \in Int /\ 0 < b /\ b < InMod
  BY <1>1, ReachFits
<1>3. PICK i, n : i = Iss[p] /\ n = c.sent
  OBVIOUS
<1>4. i \in Nat /\ n \in Nat /\ InMod \in Nat
  BY <1>3, ClientAssumption, ConstantTypes DEF Client
<1>5. PICK t : t = ClientSegment(p, c, w)
  OBVIOUS
<1>6. t \in InSegment /\ t.peer = p /\ t.len = 0 /\ t.flag = "ACK" /\ t.seq = SndNxt(p, c)
  BY <1>5, ClientSegmentTypes DEF ClientSegment
<1>7. PICK l : l = LastAck(p, c, w)
  OBVIOUS
<1>8. PICK r : r = Rst(m)
  OBVIOUS
<1>9. PICK S : S = Replies(c, m, w)
  OBVIOUS
<1>10. \/ S = {}
       \/ S = {l} /\ c.state = "time_wait"
       \/ S = {t} /\ c.state \in {"established", "fin_wait"}
       \/ S = {r}
  BY <1>5, <1>7, <1>8, <1>9 DEF Replies
<1>11. ASSUME NEW u, u.peer = p, u.len = 0, u.flag \notin {"SYN", "FIN"},
              u.seq \in Int, u.seq <= b
       PROVE  u.peer = p /\ Requesting(u) /\ Reaches(u, b)
  BY <1>2, <1>11 DEF Requesting, Reaches
<1>12. CASE s = t /\ c.state \in {"established", "fin_wait"}
  <2>1. /\ c.state = "established" => b = i + 1 + n + 0
        /\ c.state = "fin_wait" => b = i + 1 + n + 1
    BY <1>1, <1>3 DEF Reach, Early
  <2>2. /\ c.state = "established" => SndNxt(p, c) = (i + 1 + n + 0) % InMod
        /\ c.state = "fin_wait" => SndNxt(p, c) = (i + 1 + n + 1) % InMod
    BY <1>3 DEF SndNxt
  <2>3. SndNxt(p, c) = b % InMod
    BY <1>12, <2>1, <2>2
  <2>4. t.seq = b
    BY <1>2, <1>4, <1>6, <2>3, SmallRemainder
  <2> QED
    BY <1>1, <1>2, <1>6, <1>11, <1>12, <2>4
<1>13. CASE s = l /\ c.state = "time_wait"
  <2>1. b = i + 1 + n + 1
    BY <1>1, <1>3, <1>13 DEF Reach, Early
  <2>2. PICK q : q = (i + 2 + n) % InMod
    OBVIOUS
  <2>3. q = b
    <3>1. i + 2 + n = b
      BY <1>4, <2>1
    <3> QED
      BY <1>2, <1>4, <2>2, <3>1, SmallRemainder
  <2>4. l = [t EXCEPT !.seq = q]
    BY <1>3, <1>5, <1>7, <2>2 DEF LastAck
  <2>5. l.peer = p /\ l.len = 0 /\ l.flag = "ACK" /\ l.seq = q
    BY <1>6, <2>4 DEF InSegment
  <2> QED
    BY <1>1, <1>2, <1>11, <1>13, <2>3, <2>5
<1>14. CASE s = r
  <2>1. r.peer = p /\ r.len = 0 /\ r.flag = "RST" /\ r.seq = m.ack
    BY <1>8 DEF Rst
  <2>2. m.ack \in Int
    BY ConstantTypes DEF OutSegment
  <2> QED
    BY <1>1, <1>11, <1>14, <2>1, <2>2
<1> QED
  BY <1>9, <1>10, <1>12, <1>13, <1>14

\* A client receives a segment.
LEMMA ReceiveStream ==
  ASSUME NumbersFit, NetInv, StreamInv, ClientReceive
  PROVE  \E p, d, S : StreamStep(p, d, S)
<1>0. ClientsNumbers /\ ClientsRead /\ SegmentsCarry
  BY DEF NetInv, StreamInv
<1>1. PICK m \in to_clients, w \in Windows :
        LET c == Received(clients[m.peer], m) IN
        /\ MayOffer(c, w)
        /\ clients' = [clients EXCEPT ![m.peer] = IF Replies(c, m, w) = {} THEN c
                                                  ELSE Offered(c, w)]
        /\ to_server' = to_server \cup Replies(c, m, w)
        /\ UNCHANGED <<server, to_clients>>
  BY DEF ClientReceive
<1>2. PICK p : p = m.peer
  OBVIOUS
<1>3. Readables(m) /\ m \in OutSegment /\ p \in Peers
  BY <1>0, <1>2 DEF ClientsNumbers, Readables, OutSegment
<1>4. PICK b : b = clients[p]
  OBVIOUS
<1>5. ClientOK(b) /\ b \in Client /\ Reading(p, b)
  BY <1>0, <1>3, <1>4 DEF ClientsNumbers, ClientsRead
<1>6. Carrying(m) /\ m.ack <= Reach(p, b)
  BY <1>0, <1>2, <1>4 DEF SegmentsCarry
<1>7. PICK c : c = Received(b, m)
  OBVIOUS
<1>8. Reading(p, c) /\ Reach(p, b) <= Reach(p, c)
  BY <1>2, <1>3, <1>5, <1>6, <1>7, ReceivedReads
<1>9. c \in Client /\ ClientNumbers(c)
  BY <1>3, <1>5, <1>7, ReceivedLater DEF Later, ClientOK
<1>10. PICK S : S = Replies(c, m, w)
  OBVIOUS
<1>11. PICK d : d = IF S = {} THEN c ELSE Offered(c, w)
  OBVIOUS
<1>12. /\ MayOffer(c, w)
       /\ clients' = [clients EXCEPT ![p] = d] /\ to_server' = to_server \cup S
       /\ UNCHANGED <<server, to_clients>>
  BY <1>1, <1>2, <1>4, <1>7, <1>10, <1>11
<1>13. d \in Client /\ Reading(p, d) /\ Reach(p, d) = Reach(p, c)
  <2>1. CASE d = c
    BY <1>8, <1>9, <2>1
  <2>2. CASE d = Offered(c, w)
    <3>1. d \in Client
      BY <1>9, <1>12, <2>2, OfferedTypes DEF ClientOK
    <3>2. /\ d.sent = c.sent /\ d.got = c.got /\ d.rcv_nxt = c.rcv_nxt /\ d.acked = c.acked
          /\ d.state = c.state
      BY <1>9, <2>2, OfferedSame
    <3> QED
      BY <1>3, <1>8, <3>1, <3>2, SameReading
  <2> QED
    BY <1>11, <2>1, <2>2
<1>14. m.ack <= Reach(p, c)
  <2>1. Reach(p, b) \in Int /\ Reach(p, c) \in Int /\ m.ack \in Int
    BY <1>3, <1>5, <1>9, ReachTypes, ConstantTypes DEF OutSegment
  <2> QED
    BY <1>6, <1>8, <2>1
<1>15. \A s \in S : s.peer = p /\ Requesting(s) /\ Reaches(s, Reach(p, d))
  <2>1. c.sent <= Len(Requests[p])
    BY <1>8 DEF Reading
  <2> QED
    BY <1>2, <1>3, <1>9, <1>10, <1>13, <1>14, <2>1, RepliesReach
<1>16. Reach(p, clients[p]) <= Reach(p, d)
  BY <1>4, <1>8, <1>13
<1>17. StreamStep(p, d, S)
  BY <1>3, <1>12, <1>13, <1>15, <1>16 DEF StreamStep
<1> QED
  BY <1>17

----------------------------------------------------------------------------

\* No client has read anything yet.
LEMMA InitStream == NetInit => StreamInv
<1> SUFFICES ASSUME NetInit PROVE StreamInv
  OBVIOUS
<1>1. /\ \A p \in Peers : connections[p] = NoConnection
      /\ rst_connection = None /\ to_server = {} /\ to_clients = {}
  BY DEF NetInit, Init
<1>2. ASSUME NEW p \in Peers PROVE Reading(p, clients[p])
  <2>1. clients[p].state = "closed" /\ clients[p].sent = 0 /\ clients[p].got = << >>
    BY DEF NetInit, ClientInit
  <2>2. Len(<< >>) = 0 /\ Len(Answers(p)) \in Nat /\ Len(Requests[p]) \in Nat
    BY AnswersHold, RequestFacts, EmptySeq, LenProperties DEF Holds
  <2>3. Begun(<< >>, Answers(p))
    BY <2>2 DEF Begun
  <2> QED
    BY <2>1, <2>2, <2>3 DEF Reading
<1> QED
  BY <1>1, <1>2 DEF StreamInv, SegmentsAsk, ConnectionsAnswer, SegmentsCarry, ClientsRead

\* Each step of the clients, the server and the network keeps the invariant.
LEMMA StreamSteps ==
  ASSUME WholeRequests, NumbersFit
  PROVE  NetInv /\ StreamInv /\ [Next]_vars => StreamInv'
<1> SUFFICES ASSUME NetInv, StreamInv, [Next]_vars PROVE StreamInv'
  OBVIOUS
<1>1. CASE UNCHANGED vars
  <2>1. UNCHANGED <<connections, rst_connection, clients, to_server, to_clients>>
    BY <1>1 DEF vars, server
  <2> QED
    BY <2>1 DEF StreamInv, SegmentsAsk, ConnectionsAnswer, SegmentsCarry, ClientsRead
<1>2. CASE ClientSyn \/ ClientRequest \/ ClientFin \/ ClientReceive
  <2>1. PICK p, d, S : StreamStep(p, d, S)
    BY <1>2, SynStream, RequestStream, FinStream, ReceiveStream
  <2> QED
    BY <2>1, ClientKeepsStream
<1>3. CASE ServerReceive
  BY <1>3, ReceiveKeepsStream
<1>4. CASE ServerSend
  BY <1>4, SendKeepsStream
<1>5. CASE ServerTick
  BY <1>5, TickKeepsStream
<1>6. CASE Lost
  <2>1. /\ to_server' \subseteq to_server /\ to_clients' \subseteq to_clients
        /\ UNCHANGED <<connections, rst_connection, clients>>
    BY <1>6 DEF Lost, server
  <2> QED
    BY <2>1 DEF StreamInv, SegmentsAsk, ConnectionsAnswer, SegmentsCarry, ClientsRead
<1> QED
  BY <1>1, <1>2, <1>3, <1>4, <1>5, <1>6 DEF Next

\* Which says of each client that it has read the beginning of its answers.
LEMMA StreamHolds == NetInv /\ StreamInv => StreamIsAnswers
<1> SUFFICES ASSUME NetInv, StreamInv, NEW p \in Peers
    PROVE  /\ Len(clients[p].got) <= Len(Answers(p))
           /\ clients[p].got = SubSeq(Answers(p), 1, Len(clients[p].got))
  BY DEF StreamIsAnswers
<1>1. clients[p].got \in Seq(Files \X Int) /\ Answers(p) \in Seq(Files \X Int)
  BY AnswersHold DEF NetInv, ClientsNumbers, Client, Holds
<1>2. Begun(clients[p].got, Answers(p))
  BY DEF StreamInv, ClientsRead, Reading
<1> QED
  BY <1>1, <1>2, BegunIsSubSeq

\* Over a network that loses, duplicates and reorders, with any number of
\* clients, files of any length, any windows and retransmissions, what a client
\* has read is the beginning of the answers to its requests: smews_send never
\* puts in a segment, first or sent again, a byte of another answer or of
\* another position than the one its sequence number says.
THEOREM NetStreamIsAnswers ==
  ASSUME WholeRequests, NumbersFit
  PROVE  Spec => []StreamIsAnswers
<1>1. NetInv /\ StreamInv /\ [Next]_vars => StreamInv'
  BY StreamSteps
<1> QED
  BY <1>1, InitNet, NetStep, InitStream, StreamHolds, PTL DEF Spec
=============================================================================

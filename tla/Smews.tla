------------------------------- MODULE Smews -------------------------------
(***************************************************************************)
(* The TCP server of smews: core/input.c (smews_receive), core/output.c    *)
(* (smews_send), core/connections.c and core/smews.c (smews_retransmit),   *)
(* for TCP traffic and the static resources (the files and the control     *)
(* segments) of a default build.  The main loop runs one function at a     *)
(* time, so each call is one action.                                       *)
(*                                                                         *)
(* Output sequence numbers are integers: they start at BASIC_SEQNO         *)
(* (0x42b7a491) and reach 2^32 only after 3 GB on one connection.  Input   *)
(* sequence numbers are the client's, and wrap.                            *)
(***************************************************************************)
EXTENDS Integers, Sequences, FiniteSets

CONSTANTS Peers,       \* the (address, port) pairs of the clients
          Files,       \* the handlers of the static resources
          NotFound,    \* http_404_handler, one of them
          Length,      \* GET_FILE(handler).length, HTTP header included
          Chunk,       \* CHUNCKS_SIZE, the block of a precomputed checksum
          BASIC_SEQNO,
          InMod,       \* input sequence numbers are modulo this (2^32)
          MAX_MSS,
          MssMod,      \* tcp_mss is a field of 12 bits
          HeapConns,   \* how many struct connection the heap may hold
          TickMod,     \* last_transmission_time is an unsigned char
          Rto,         \* ticks without an answer before a retransmission
          None         \* NULL

U16 == 65536

VARIABLES connections,     \* the connections of the list, by peer
          all_connections, \* the circular list, from its current head
          rst_connection,  \* the reset to send, or None
          last_transmission_time,
          heap_room        \* how many connections the heap has room for

server == <<connections, all_connections, rst_connection, last_transmission_time, heap_room>>

Control == {"ref_synack", "ref_ack", "ref_finack"}
Handlers == Files \cup Control \cup {None}

Connection == [tcp_state         : {"listen", "syn_rcvd", "established", "last_ack"},
               output_handler    : Handlers,
               next_outseqno     : Int,
               final_outseqno    : Int,
               current_inseqno   : 0 .. InMod - 1,
               inflight          : 0 .. U16 - 1,
               cwnd              : 0 .. U16 - 1,
               tcp_mss           : 0 .. MssMod - 1,
               parsing_state     : {"out", "url"},
               transmission_time : 0 .. TickMod - 1]

NoConnection == [tcp_state |-> "free"]

Reset == [peer : Peers, current_inseqno : 0 .. InMod - 1, next_outseqno : Int]

ASSUME SmewsAssumption ==
  /\ NotFound \in Files /\ Files \cap (Control \cup {"ref_rst"}) = {}
  /\ None \notin Files \cup Control \cup Reset
  /\ Length \in [Files -> Nat \ {0}]
  /\ Chunk \in Nat \ {0}
  /\ BASIC_SEQNO \in Nat \ {0}
  /\ InMod \in Nat \ {0}
  /\ MAX_MSS \in Nat
  /\ MssMod \in Nat \ {0}
  /\ HeapConns \subseteq Nat
  /\ TickMod \in Nat \ {0}
  /\ Rto \in Nat

(***************************************************************************)
(* A segment from a client.  Its text is a range of the three parts of a   *)
(* request: 1 the command, 2 the URL and the space after it, 3 the rest of *)
(* the headers.  mss is 0 in a segment without that option.                *)
(***************************************************************************)
Text == [file : Files, from : 1 .. 3, to : 1 .. 3]

InSegment == [peer : Peers, seq : 0 .. InMod - 1, ack : Nat, len : Nat,
              flag : {"SYN", "ACK", "FIN", "RST"},
              cwnd : 0 .. U16 - 1, mss : Nat, text : Text]

(***************************************************************************)
(* A segment to a client: a control segment, or len bytes of a file from   *)
(* its byte index on, with the sum of the blocks from index \div Chunk on. *)
(***************************************************************************)
OutSegment == [peer : Peers, seq : Int, ack : 0 .. InMod - 1,
               handler : Handlers \cup {"ref_rst"}, index : Int, len : Nat]

----------------------------------------------------------------------------
\* core/connections.c

something_to_send(c) ==
  /\ c.output_handler # None
  /\ \/ c.output_handler \in Control
     \/ c.tcp_state = "established" /\ c.next_outseqno # c.final_outseqno

Position(p) == CHOOSE i \in 1 .. Len(all_connections) : all_connections[i] = p
Before(p) == SubSeq(all_connections, 1, Position(p) - 1)
Following(p) == SubSeq(all_connections, Position(p) + 1, Len(all_connections))

\* The new connection is the last one: just before the head.
add_connection(p, c) ==
  /\ connections' = [connections EXCEPT ![p] = c]
  /\ all_connections' = Append(all_connections, p)

\* Mutant: the list is left alone.
free_connection_listed(p) ==
  /\ connections' = [connections EXCEPT ![p] = NoConnection]
  /\ all_connections' = all_connections

\* The head moves to the connection after the freed one.
free_connection(p) ==
  /\ connections' = [connections EXCEPT ![p] = NoConnection]
  /\ all_connections' = Following(p) \o Before(p)

----------------------------------------------------------------------------
\* core/input.c: what smews_receive makes of its copy c of the connection,
\* in the order of the code, for a segment s.

\* A client without a connection starts from these values.  final_outseqno
\* is not initialised and not read before a request sets it; tcp_mss is not
\* initialised and any value, m, if the SYN has no such option.
FreshConnection(m) ==
  [tcp_state         |-> "listen",
   output_handler    |-> None,
   next_outseqno     |-> BASIC_SEQNO,
   final_outseqno    |-> 0,
   current_inseqno   |-> 0,
   inflight          |-> 0,
   cwnd              |-> 0,
   tcp_mss           |-> m,
   parsing_state     |-> "out",
   transmission_time |-> last_transmission_time]

DuplicateAck(c, s) ==
  IF c.next_outseqno - c.inflight = s.ack
  THEN [c EXCEPT !.next_outseqno = s.ack]
  ELSE c

AckManagement(c, s) ==
  IF s.ack # 0 /\ s.ack <= c.next_outseqno
  THEN [c EXCEPT !.inflight = (c.next_outseqno - s.ack) % U16]
  ELSE c

ClearHandler(c) ==
  IF c.output_handler # None /\ c.inflight = 0 /\ ~ something_to_send(c)
  THEN [c EXCEPT !.output_handler = None]
  ELSE c

SeqEnd(s) == (s.seq + s.len) % InMod
NewTcpData(c, s) == SeqEnd(s) > c.current_inseqno

\* Mutant: the acknowledgment of the FIN is ignored.
TransitionNoLastAck(c, s) ==
  CASE c.tcp_state = "established" /\ s.flag = "FIN" ->
         [c EXCEPT !.tcp_state = "last_ack", !.output_handler = "ref_finack",
                   !.current_inseqno = (@ + 1) % InMod]
    [] c.tcp_state = "listen" /\ s.flag = "SYN" ->
         [c EXCEPT !.tcp_state = "syn_rcvd", !.output_handler = "ref_synack",
                   !.current_inseqno = (@ + 1) % InMod]
    [] c.tcp_state = "syn_rcvd" /\ c.inflight = 0 ->
         [c EXCEPT !.tcp_state = "established"]
    [] OTHER -> c

Transition(c, s) ==
  CASE c.tcp_state = "established" /\ s.flag = "FIN" ->
         [c EXCEPT !.tcp_state = "last_ack", !.output_handler = "ref_finack",
                   !.current_inseqno = (@ + 1) % InMod]
    [] c.tcp_state = "established" /\ s.flag = "RST" ->
         [c EXCEPT !.tcp_state = "listen"]
    [] c.tcp_state = "listen" /\ s.flag = "SYN" ->
         [c EXCEPT !.tcp_state = "syn_rcvd", !.output_handler = "ref_synack",
                   !.current_inseqno = (@ + 1) % InMod]
    [] c.tcp_state = "syn_rcvd" /\ c.inflight = 0 ->
         [c EXCEPT !.tcp_state = "established"]
    [] c.tcp_state = "syn_rcvd" /\ c.inflight # 0 ->
         [c EXCEPT !.output_handler = "ref_synack"]
    [] c.tcp_state = "last_ack" ->
         [c EXCEPT !.tcp_state = "listen"]
    [] OTHER -> c

TcpStateMachine(c, s) ==
  IF SeqEnd(s) >= c.current_inseqno
  THEN Transition([c EXCEPT !.current_inseqno = SeqEnd(s)], s)
  ELSE c

WindowAndMss(c, s) ==
  [c EXCEPT !.cwnd = s.cwnd,
            !.tcp_mss = IF s.mss = 0 THEN @
                        ELSE (IF s.mss > MAX_MSS THEN MAX_MSS ELSE s.mss) % MssMod]

\* The handler answers from the sequence number the client expects.
Install(c, handler, s) ==
  [c EXCEPT !.output_handler = handler,
            !.next_outseqno = s.ack,
            !.final_outseqno = IF handler \in Files THEN s.ack + Length[handler]
                                                    ELSE s.ack - 1,
            !.parsing_state = "out"]

\* The text after a command that ended with the previous segment.  A handler
\* that is set while the request is read stays, unless the text is not the
\* next part of the request.
ParseUrl(c, s) ==
  CASE s.text.from # 2                             -> Install(c, NotFound, s)
    [] s.text.from = 2 /\ c.output_handler = None  -> Install(c, s.text.file, s)
    [] s.text.from = 2 /\ c.output_handler # None  -> Install(c, c.output_handler, s)

\* The text of a new request, which takes the place of the current handler.
\* A text that does not start with a command is dropped, and so is what
\* follows the URL.
ParseCommand(c, s) ==
  CASE s.text.from # 1                  -> c
    [] s.text.from = 1 /\ s.text.to = 1 -> [c EXCEPT !.parsing_state = "url"]
    [] s.text.from = 1 /\ s.text.to # 1 -> Install(c, s.text.file, s)

Parse(c, s) ==
  IF c.parsing_state = "out" THEN ParseCommand([c EXCEPT !.output_handler = None], s)
                             ELSE ParseUrl(c, s)

HttpRequest(c, s, new_tcp_data) ==
  IF /\ s.len > 0
     /\ c.tcp_state = "established"
     /\ new_tcp_data \/ c.output_handler = None
  THEN Parse(c, s) ELSE c

Acknowledge(c, s) ==
  IF c.output_handler = None /\ c.tcp_state = "established" /\ s.len > 0
  THEN [c EXCEPT !.output_handler = "ref_ack"]
  ELSE c

Processed(c, s) ==
  LET acked   == ClearHandler(AckManagement(DuplicateAck(c, s), s))
      updated == WindowAndMss(TcpStateMachine(acked, s), s) IN
  Acknowledge(HttpRequest(updated, s, NewTcpData(acked, s)), s)

----------------------------------------------------------------------------
\* The actions.

Init ==
  /\ connections = [p \in Peers |-> NoConnection]
  /\ all_connections = << >>
  /\ rst_connection = None
  /\ last_transmission_time = 1 % TickMod
  /\ heap_room \in HeapConns

\* A segment of a client without a connection opens one, if it is a SYN and
\* the heap has room, or is answered by a reset.
ReceiveUnknown(s) ==
  \E m \in (IF s.mss = 0 THEN 0 .. MssMod - 1 ELSE {0}) :
    LET c == Processed(FreshConnection(m), s) IN
    IF c.tcp_state = "syn_rcvd" /\ Len(all_connections) < heap_room
    THEN /\ add_connection(s.peer, c)
         /\ UNCHANGED rst_connection
    ELSE /\ rst_connection' = [peer |-> s.peer,
                               current_inseqno |-> c.current_inseqno,
                               next_outseqno |-> s.ack]
         /\ UNCHANGED <<connections, all_connections>>

\* A connection that is back in the listen state is freed.
ReceiveKnown(s) ==
  LET c == Processed(connections[s.peer], s) IN
  /\ IF c.tcp_state = "listen"
     THEN free_connection(s.peer)
     ELSE /\ connections' = [connections EXCEPT ![s.peer] = c]
          /\ UNCHANGED all_connections
  /\ UNCHANGED rst_connection

smews_receive(s) ==
  /\ IF connections[s.peer] = NoConnection THEN ReceiveUnknown(s) ELSE ReceiveKnown(s)
  /\ UNCHANGED <<last_transmission_time, heap_room>>

----------------------------------------------------------------------------
\* core/output.c

MaxOutSize(mss) == mss - (mss % Chunk)

\* Mutant: what is in flight is forgotten.
able_to_send_alone(c) == something_to_send(c) /\ c.tcp_mss <= c.cwnd

able_to_send(c) == something_to_send(c) /\ c.inflight + c.tcp_mss <= c.cwnd

\* Mutant: the last segment is as long as the others.
SegmentFull(p, c) ==
  LET file == c.output_handler \in Files IN
  [peer |-> p, seq |-> c.next_outseqno, ack |-> c.current_inseqno,
   handler |-> c.output_handler,
   index |-> IF file THEN Length[c.output_handler] - (c.final_outseqno - c.next_outseqno) ELSE 0,
   len |-> IF file THEN MaxOutSize(c.tcp_mss) ELSE 0]

\* The segment of connection c, to peer p.
Segment(p, c) ==
  LET remaining == c.final_outseqno - c.next_outseqno
      max_out   == MaxOutSize(c.tcp_mss)
      file      == c.output_handler \in Files IN
  [peer |-> p, seq |-> c.next_outseqno, ack |-> c.current_inseqno,
   handler |-> c.output_handler,
   index |-> IF file THEN Length[c.output_handler] - remaining ELSE 0,
   len |-> IF ~ file THEN 0 ELSE IF remaining > max_out THEN max_out ELSE remaining]

\* smews_send_packet, and what smews_send does after it to the connection.
Sent(p, c) ==
  LET len == Segment(p, c).len IN
  [c EXCEPT !.transmission_time = last_transmission_time,
            !.next_outseqno = @ + (IF c.output_handler = "ref_synack" THEN 1 ELSE len),
            !.inflight = (@ + len) % U16,
            !.output_handler = IF @ \in Control THEN None ELSE @]

ResetSegment ==
  [peer |-> rst_connection.peer, seq |-> rst_connection.next_outseqno,
   ack |-> rst_connection.current_inseqno, handler |-> "ref_rst",
   index |-> 0, len |-> 0]

\* The first connection from the head that can send, if any.
Candidates == {i \in 1 .. Len(all_connections) :
                 able_to_send(connections[all_connections[i]])}
Active == all_connections[CHOOSE i \in Candidates : \A j \in Candidates : i <= j]

\* What smews_send puts on the wire.
Outgoing == IF rst_connection # None THEN ResetSegment
            ELSE Segment(Active, connections[Active])

SendReset ==
  /\ rst_connection # None
  /\ rst_connection' = None
  /\ UNCHANGED <<connections, all_connections>>

\* Mutant: the head of the list stays.
SendConnectionFirst ==
  /\ rst_connection = None
  /\ Candidates # {}
  /\ connections' = [connections EXCEPT ![Active] = Sent(Active, connections[Active])]
  /\ UNCHANGED <<all_connections, rst_connection>>

\* The head of the list moves after the connection that sends.
SendConnection ==
  /\ rst_connection = None
  /\ Candidates # {}
  /\ connections' = [connections EXCEPT ![Active] = Sent(Active, connections[Active])]
  /\ all_connections' = Following(Active) \o Append(Before(Active), Active)
  /\ UNCHANGED rst_connection

smews_send ==
  /\ SendReset \/ SendConnection
  /\ UNCHANGED <<last_transmission_time, heap_room>>

----------------------------------------------------------------------------
\* core/smews.c, the callback of the one second timer.  The difference of
\* the two bytes is an int.

\* Mutant: the bytes in flight are forgotten and not sent again.
RolledBackForgotten(c, now) ==
  IF /\ c # NoConnection
     /\ c.output_handler # None
     /\ now - c.transmission_time > Rto
     /\ c.inflight > 0
  THEN [c EXCEPT !.inflight = 0]
  ELSE c

RolledBack(c, now) ==
  IF /\ c # NoConnection
     /\ c.output_handler # None
     /\ now - c.transmission_time > Rto
     /\ c.inflight > 0
  THEN [c EXCEPT !.next_outseqno = @ - c.inflight, !.inflight = 0]
  ELSE c

smews_retransmit ==
  LET now == (last_transmission_time + 1) % TickMod IN
  /\ last_transmission_time' = now
  /\ connections' = [p \in Peers |-> RolledBack(connections[p], now)]
  /\ UNCHANGED <<all_connections, rst_connection, heap_room>>
----------------------------------------------------------------------------
\* The server alone, in any environment: whatever segments it receives.
ServerNext == \/ \E s \in InSegment : smews_receive(s)
              \/ smews_send
              \/ smews_retransmit

ServerSpec == Init /\ [][ServerNext]_server

\* The circular list holds each connection once, and nothing else.
ListIsConnections ==
  /\ \A i, j \in 1 .. Len(all_connections) :
       all_connections[i] = all_connections[j] => i = j
  /\ \A p \in Peers : connections[p] # NoConnection
       <=> \E i \in 1 .. Len(all_connections) : all_connections[i] = p

\* Connections take turns: each segment the server sends to another client
\* brings a connection that could have sent closer to the head of the list.
TakeTurns == [][SendConnection => \A p \in Peers :
                  (/\ connections[p] # NoConnection
                   /\ able_to_send(connections[p])
                   /\ p # Active)
                  => Position(p)' < Position(p)]_server
=============================================================================

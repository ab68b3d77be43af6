------------------------------ MODULE SmewsNet ------------------------------
(***************************************************************************)
(* The server and its clients over a network that loses, duplicates and    *)
(* reorders: a segment on the network is received any number of times, in  *)
(* any order, until it is lost.  The network holds at most Capacity        *)
(* segments in each direction.                                             *)
(***************************************************************************)
EXTENDS Client

CONSTANT Capacity

ASSUME CapacityAssumption == Capacity \in Nat

VARIABLES to_server, to_clients

vars == <<server, clients, to_server, to_clients>>

NetInit == Init /\ ClientInit /\ to_server = {} /\ to_clients = {}

HasRoom(network) == Cardinality(network) <= Capacity

\* DEV_GET delivers one of the segments sent to the server.
ServerReceive ==
  /\ \E s \in to_server : smews_receive(s)
  /\ UNCHANGED <<clients, to_server, to_clients>>

ServerSend ==
  /\ smews_send
  /\ to_clients' = to_clients \cup {Outgoing}
  /\ HasRoom(to_clients')
  /\ UNCHANGED <<clients, to_server>>

Lost ==
  /\ \/ \E s \in to_server : to_server' = to_server \ {s} /\ UNCHANGED to_clients
     \/ \E m \in to_clients : to_clients' = to_clients \ {m} /\ UNCHANGED to_server
  /\ UNCHANGED <<server, clients>>

ServerTick ==
  /\ smews_retransmit
  /\ UNCHANGED <<clients, to_server, to_clients>>

ClientSyn ==
  /\ \E p \in Peers, w \in Windows :
       /\ MaySyn(p)
       /\ clients' = [clients EXCEPT ![p].state = "syn_sent"]
       /\ to_server' = to_server \cup {Syn(p, clients[p], w)}
       /\ HasRoom(to_server')
  /\ UNCHANGED <<server, to_clients>>

ClientRequest ==
  /\ \E p \in Peers, w \in Windows : \E n \in 1 .. NbSegments(p) :
       LET c == Requested(clients[p], n) IN
       /\ MayRequest(p, n) /\ MayOffer(c, w)
       /\ clients' = [clients EXCEPT ![p] = Offered(c, w)]
       /\ to_server' = to_server \cup {RequestSegment(p, c, n, w)}
       /\ HasRoom(to_server')
  /\ UNCHANGED <<server, to_clients>>

ClientFin ==
  /\ \E p \in Peers, w \in Windows :
       LET c == [clients[p] EXCEPT !.state = "fin_wait"] IN
       /\ MayFin(p) /\ MayOffer(c, w)
       /\ clients' = [clients EXCEPT ![p] = Offered(c, w)]
       /\ to_server' = to_server \cup {Fin(p, c, w)}
       /\ HasRoom(to_server')
  /\ UNCHANGED <<server, to_clients>>

ClientReceive ==
  /\ \E m \in to_clients, w \in Windows :
       LET c == Received(clients[m.peer], m) IN
       /\ MayOffer(c, w)
       /\ clients' = [clients EXCEPT ![m.peer] = IF Replies(c, m, w) = {} THEN c
                                                 ELSE Offered(c, w)]
       /\ to_server' = to_server \cup Replies(c, m, w)
       /\ HasRoom(to_server')
  /\ UNCHANGED <<server, to_clients>>

Next == \/ ServerReceive \/ ServerSend \/ ServerTick \/ Lost
        \/ ClientSyn \/ ClientRequest \/ ClientFin \/ ClientReceive

Spec == NetInit /\ [][Next]_vars

----------------------------------------------------------------------------
TypeOK ==
  /\ connections \in [Peers -> Connection \cup {NoConnection}]
  /\ all_connections \in Seq(Peers)
  /\ rst_connection \in Reset \cup {None}
  /\ last_transmission_time \in 0 .. TickMod - 1
  /\ heap_room \in HeapConns
  /\ clients \in [Peers -> Client]
  /\ to_server \subseteq InSegment
  /\ to_clients \subseteq OutSegment

\* What a client has read is the beginning of the answers to its requests:
\* no loss, duplication or reordering, no timeout and no segment received
\* twice by the server makes it read a wrong byte.
StreamIsAnswers == \A p \in Peers :
  LET got == clients[p].got IN
  Len(got) <= Len(Answers(p)) /\ got = SubSeq(Answers(p), 1, Len(got))

\* The server never sends a byte beyond the window the client has offered,
\* whatever acknowledgments it has missed, seen twice or seen late.
WindowRespected == \A m \in to_clients :
  m.len > 0 => m.seq + m.len <= clients[m.peer].edge

\* How late a segment of a client may be received: when the client has
\* offered a window that ends less than 64 KB, the range of inflight, after
\* what the segment acknowledges, and a SYN before the connection is open,
\* unless no window offered since is smaller.
SegmentLifetime == \A s \in to_server :
  /\ s.ack # 0 => clients[s.peer].edge - s.ack < U16
  /\ s.flag = "SYN" => \/ clients[s.peer].state = "syn_sent"
                      \/ \A w \in Windows : s.cwnd <= w

\* The user guide says that the checksums of files are computed beforehand on
\* blocks and that outgoing segments are made of whole blocks: the data of a
\* segment starts at one.
ChunkAligned == \A m \in to_clients : m.len > 0 => m.index % Chunk = 0
=============================================================================

----------------------------- MODULE SmewsLive -----------------------------
(***************************************************************************)
(* The server and its clients over links that keep the order and lose at   *)
(* most MaxLosses segments, of the kinds in Lossy.  What must eventually   *)
(* happen is stated here.                                                  *)
(*                                                                         *)
(* Timeouts are longer than a round trip: a tick of the one second timer   *)
(* and a retransmission of a client happen only when nothing is left to    *)
(* deliver or to send.                                                     *)
(***************************************************************************)
EXTENDS Client

CONSTANTS Lossy, MaxLosses,
          LossTicks \* last_transmission_time when segments may be lost

Kinds == {"SYN", "SYN-ACK", "request", "ACK", "data", "FIN", "FIN-ACK", "last ACK", "RST"}

ASSUME LiveAssumption ==
  /\ Lossy \subseteq Kinds
  /\ MaxLosses \in Nat
  /\ LossTicks \subseteq 0 .. TickMod - 1

VARIABLES to_server,  \* the segments on their way from each client,
          to_client,  \* and to each client
          losses

links == <<to_server, to_client, losses>>
vars == <<server, clients, links>>

LiveInit ==
  /\ Init
  /\ ClientInit
  /\ to_server = [p \in Peers |-> << >>]
  /\ to_client = [p \in Peers |-> << >>]
  /\ losses = 0

InKind(s) == IF s.flag # "ACK" THEN s.flag
             ELSE IF s.len > 0 THEN "request"
             ELSE IF clients[s.peer].state = "time_wait" THEN "last ACK" ELSE "ACK"
OutKind(m) == CASE m.handler = "ref_synack" -> "SYN-ACK"
                [] m.handler = "ref_finack" -> "FIN-ACK"
                [] m.handler = "ref_rst"    -> "RST"
                [] m.handler = "ref_ack"    -> "ACK"
                [] m.handler \in Files      -> "data"

\* A client has something new to send.
Fresh(p) == \/ clients[p].state = "closed"
            \/ MayRequest(p, clients[p].sent + 1)
            \/ clients[p].state = "established" /\ Complete(p)

Quiet == /\ \A p \in Peers : to_server[p] = << >> /\ to_client[p] = << >> /\ ~ Fresh(p)
         /\ rst_connection = None
         /\ Candidates = {}

\* Client p becomes c and sends the segment s.
Emit(p, c, s) ==
  /\ clients' = [clients EXCEPT ![p] = c]
  /\ to_server' = [to_server EXCEPT ![p] = Append(@, s)]
  /\ UNCHANGED <<server, to_client, losses>>

----------------------------------------------------------------------------
ServerReceive ==
  /\ \E p \in Peers :
       /\ to_server[p] # << >>
       /\ smews_receive(Head(to_server[p]))
       /\ to_server' = [to_server EXCEPT ![p] = Tail(@)]
  /\ UNCHANGED <<clients, to_client, losses>>

ServerSend ==
  /\ smews_send
  /\ to_client' = [to_client EXCEPT ![Outgoing.peer] = Append(@, Outgoing)]
  /\ UNCHANGED <<clients, to_server, losses>>

ServerTick ==
  /\ Quiet
  /\ smews_retransmit
  /\ UNCHANGED <<clients, links>>

ClientSyn == \E p \in Peers, w \in Windows :
  /\ MaySyn(p)
  /\ clients[p].state = "closed" \/ Quiet
  /\ Emit(p, [clients[p] EXCEPT !.state = "syn_sent"], Syn(p, clients[p], w))

ClientRequest == \E p \in Peers, w \in Windows : \E n \in 1 .. NbSegments(p) :
  LET c == Requested(clients[p], n) IN
  /\ MayRequest(p, n) /\ MayOffer(c, w)
  /\ n > clients[p].sent \/ Quiet
  /\ Emit(p, Offered(c, w), RequestSegment(p, c, n, w))

ClientFin == \E p \in Peers, w \in Windows :
  LET c == [clients[p] EXCEPT !.state = "fin_wait"] IN
  /\ MayFin(p) /\ MayOffer(c, w)
  /\ clients[p].state = "established" \/ Quiet
  /\ Emit(p, Offered(c, w), Fin(p, c, w))

ClientReceive(p) ==
  /\ to_client[p] # << >>
  /\ \E w \in Windows :
       LET m == Head(to_client[p])
           c == Received(clients[p], m) IN
       /\ MayOffer(c, w)
       /\ clients' = [clients EXCEPT ![p] = IF Replies(c, m, w) = {} THEN c ELSE Offered(c, w)]
       /\ \/ Replies(c, m, w) = {} /\ UNCHANGED to_server
          \/ \E s \in Replies(c, m, w) : to_server' = [to_server EXCEPT ![p] = Append(@, s)]
  /\ to_client' = [to_client EXCEPT ![p] = Tail(@)]
  /\ UNCHANGED <<server, losses>>

MayLose == losses < MaxLosses /\ last_transmission_time \in LossTicks

LoseFromClient == \E p \in Peers :
  /\ MayLose
  /\ to_server[p] # << >>
  /\ InKind(Head(to_server[p])) \in Lossy
  /\ to_server' = [to_server EXCEPT ![p] = Tail(@)]
  /\ losses' = losses + 1
  /\ UNCHANGED <<server, clients, to_client>>

LoseFromServer == \E p \in Peers :
  /\ MayLose
  /\ to_client[p] # << >>
  /\ OutKind(Head(to_client[p])) \in Lossy
  /\ to_client' = [to_client EXCEPT ![p] = Tail(@)]
  /\ losses' = losses + 1
  /\ UNCHANGED <<server, clients, to_server>>

Next == \/ ServerReceive \/ ServerSend \/ ServerTick
        \/ ClientSyn \/ ClientRequest \/ ClientFin
        \/ \E p \in Peers : ClientReceive(p)
        \/ LoseFromClient \/ LoseFromServer

(***************************************************************************)
(* smews_main_loop_step runs for ever: it receives while there is a        *)
(* segment to read, sends when it can and runs the timers each time.  The  *)
(* clients answer, and retransmit what is not acknowledged.                *)
(***************************************************************************)
Fairness ==
  /\ WF_vars(ServerReceive) /\ WF_vars(ServerSend) /\ WF_vars(ServerTick)
  /\ WF_vars(ClientSyn) /\ WF_vars(ClientRequest) /\ WF_vars(ClientFin)
  /\ \A p \in Peers : WF_vars(ClientReceive(p))

LiveSpec == LiveInit /\ [][Next]_vars /\ Fairness

----------------------------------------------------------------------------
Done(p) == clients[p].state \in {"time_wait", "reset"} /\ clients[p].got = Answers(p)

\* Every client reads the whole answer to each of its requests, and its
\* connection ends, although segments are lost: what is lost is sent again.
AllServed == \A p \in Peers : <>[]Done(p)

\* Every connection of the server is eventually freed, so that the heap is
\* not exhausted by clients that have left.
AllFreed == <>[](all_connections = << >>)

Refused(p) == clients[p].state = "reset" /\ clients[p].got = << >>

\* Every client is served, or refused because the heap is full: it learns so
\* by a reset, although the server remembers one reset only, and never waits
\* for ever.
AllSettled ==
  LET refused == {p \in Peers : Refused(p)} IN
  <>[](/\ \A p \in Peers : Done(p) \/ p \in refused
       /\ refused # {} => heap_room + Cardinality(refused) <= Cardinality(Peers))
=============================================================================

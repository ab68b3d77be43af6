---------------------------- MODULE Connections ----------------------------
(***************************************************************************)
(* core/connections.c: the doubly linked circular list of connections, the *)
(* functions of core/input.c and core/output.c that change it, and the     *)
(* handlers of applications that run inside them.                          *)
(*                                                                         *)
(* smews_receive works on a copy of a connection, with its two pointers,   *)
(* and writes it back at the end.  A handler may call                      *)
(* request_packet_out_call, which adds a connection, in the contexts of    *)
(* Callers: "main" (a timer), "packet_in" (doPacketIn), "send" (doGet and  *)
(* doPacketOut) or "receive" (doPostIn).                                   *)
(***************************************************************************)
EXTENDS Integers, Sequences, FiniteSets

CONSTANTS Cells,   \* the places of a struct connection in the heap
          NULL,
          Callers

Contexts == {"main", "receive", "packet_in", "send", "reset"}

ASSUME ConnectionsAssumption ==
  /\ NULL \notin Cells
  /\ Callers \subseteq Contexts \ {"reset"}

VARIABLES all_connections, \* the head of the list
          next, prev,      \* the pointers of each cell
          kind,            \* "http" and "gpip" connections are in the list
          context,         \* what smews_main_loop_step is doing,
          connection,      \* with which connection,
          tmp_connection,  \* the pointers of the copy smews_receive has,
          destination      \* and the connection smews_send_packet has got

vars == <<all_connections, next, prev, kind, context, connection, tmp_connection, destination>>

Pointers == Cells \cup {NULL}
Listed == {c \in Cells : kind[c] # "free"}

Init ==
  /\ all_connections = NULL
  /\ next = [c \in Cells |-> NULL]
  /\ prev = [c \in Cells |-> NULL]
  /\ kind = [c \in Cells |-> "free"]
  /\ context = "main"
  /\ connection = NULL
  /\ tmp_connection = [next |-> NULL, prev |-> NULL]
  /\ destination = NULL

\* Mutant: the last connection is not told.
add_connection_unlinked(c, k) ==
  /\ kind' = [kind EXCEPT ![c] = k]
  /\ IF all_connections = NULL
     THEN /\ next' = [next EXCEPT ![c] = c]
          /\ prev' = [prev EXCEPT ![c] = c]
          /\ all_connections' = c
     ELSE /\ prev' = [prev EXCEPT ![c] = prev[all_connections], ![all_connections] = c]
          /\ next' = [next EXCEPT ![c] = all_connections]
          /\ UNCHANGED all_connections

\* mem_alloc has found room for c.  The new connection is the last one.
add_connection(c, k) ==
  /\ kind' = [kind EXCEPT ![c] = k]
  /\ IF all_connections = NULL
     THEN /\ next' = [next EXCEPT ![c] = c]
          /\ prev' = [prev EXCEPT ![c] = c]
          /\ all_connections' = c
     ELSE /\ prev' = [prev EXCEPT ![c] = prev[all_connections], ![all_connections] = c]
          /\ next' = [next EXCEPT ![prev[all_connections]] = c, ![c] = all_connections]
          /\ UNCHANGED all_connections

\* Mutant: the head moves only if it is the connection freed.
free_connection_head(c) ==
  /\ kind' = [kind EXCEPT ![c] = "free"]
  /\ next' = [next EXCEPT ![prev[c]] = next[c]]
  /\ prev' = [prev EXCEPT ![next[c]] = prev[c]]
  /\ all_connections' = IF next[c] = c THEN NULL
                        ELSE IF c = all_connections THEN next[c] ELSE all_connections

\* The pointers of a freed cell are left as they are.
free_connection(c) ==
  /\ kind' = [kind EXCEPT ![c] = "free"]
  /\ next' = [next EXCEPT ![prev[c]] = next[c]]
  /\ prev' = [prev EXCEPT ![next[c]] = prev[c]]
  /\ all_connections' = IF next[c] = c THEN NULL ELSE next[c]

----------------------------------------------------------------------------
\* smews_receive.

\* A SYN of a new client.
ReceiveNew(c) ==
  /\ context = "main"
  /\ kind[c] = "free"
  /\ add_connection(c, "http")
  /\ UNCHANGED <<context, connection, tmp_connection, destination>>

\* A segment of a client with a connection, which is copied.
ReceiveKnown(c) ==
  /\ context = "main"
  /\ kind[c] = "http"
  /\ context' = "receive"
  /\ connection' = c
  /\ tmp_connection' = [next |-> next[c], prev |-> prev[c]]
  /\ UNCHANGED <<all_connections, next, prev, kind, destination>>

\* The segment is valid and the copy written back.
ReceiveUpdate ==
  /\ context = "receive"
  /\ next' = [next EXCEPT ![connection] = tmp_connection.next]
  /\ prev' = [prev EXCEPT ![connection] = tmp_connection.prev]
  /\ context' = "main"
  /\ UNCHANGED <<all_connections, kind, connection, tmp_connection, destination>>

\* The checksum is wrong: the copy is dropped.
ReceiveDrop ==
  /\ context = "receive"
  /\ context' = "main"
  /\ UNCHANGED <<all_connections, next, prev, kind, connection, tmp_connection, destination>>

\* The connection is back in the listen state.
ReceiveFree ==
  /\ context = "receive"
  /\ free_connection(connection)
  /\ context' = "main"
  /\ UNCHANGED <<connection, tmp_connection, destination>>

\* A packet of another protocol: the connection made for it lives until
\* doPacketIn returns 0, or until the answer is sent.
ReceivePacket(c) ==
  /\ context = "main"
  /\ kind[c] = "free"
  /\ add_connection(c, "gpip")
  /\ context' = "packet_in"
  /\ connection' = c
  /\ UNCHANGED <<tmp_connection, destination>>

PacketInKeep ==
  /\ context = "packet_in"
  /\ context' = "main"
  /\ UNCHANGED <<all_connections, next, prev, kind, connection, tmp_connection, destination>>

PacketInFree ==
  /\ context = "packet_in"
  /\ free_connection(connection)
  /\ context' = "main"
  /\ UNCHANGED <<connection, tmp_connection, destination>>

----------------------------------------------------------------------------
\* FOR_EACH_CONN, from the head on.
FOR_EACH_CONN ==
  LET visited[i \in 1 .. Cardinality(Listed)] ==
        IF i = 1 THEN all_connections ELSE next[visited[i - 1]]
  IN [i \in 1 .. Cardinality(Listed) |-> visited[i]]

\* When the loop comes to c.
Place(c) == CHOOSE i \in DOMAIN FOR_EACH_CONN : FOR_EACH_CONN[i] = c

\* smews_send.  Which connection is able to send is the matter of Smews.

SendReset ==
  /\ context = "main"
  /\ context' = "reset"
  /\ UNCHANGED <<all_connections, next, prev, kind, connection, tmp_connection, destination>>

ResetDone ==
  /\ context = "reset"
  /\ context' = "main"
  /\ UNCHANGED <<all_connections, next, prev, kind, connection, tmp_connection, destination>>

\* The turn is made before the handler runs.
SendStart(c) ==
  /\ context = "main"
  /\ kind[c] # "free"
  /\ all_connections' = next[c]
  /\ context' = "send"
  /\ connection' = c
  /\ UNCHANGED <<next, prev, kind, tmp_connection, destination>>

\* The segment goes to the connection that has its turn.
SendPacket ==
  /\ context = "send"
  /\ destination = NULL
  /\ destination' = connection
  /\ UNCHANGED <<all_connections, next, prev, kind, context, connection, tmp_connection>>

\* The segment of a comet generator goes, in one loop from the head on, to
\* each connection that waits for it: which ones do is left open.
SendComet(d) ==
  /\ context = "send"
  /\ kind[connection] = "http" /\ kind[d] = "http"
  /\ destination # NULL => Place(destination) < Place(d)
  /\ destination' = d
  /\ UNCHANGED <<all_connections, next, prev, kind, context, connection, tmp_connection>>

\* The segments are on the wire, or there was none to send.
SendDone ==
  /\ context = "send"
  /\ IF kind[connection] = "gpip"
     THEN free_connection(connection)
     ELSE UNCHANGED <<all_connections, next, prev, kind>>
  /\ context' = "main"
  /\ destination' = NULL
  /\ UNCHANGED <<connection, tmp_connection>>

\* The handler has returned when the first segment is sent.
request_packet_out_call(c) ==
  /\ context \in Callers
  /\ destination = NULL
  /\ kind[c] = "free"
  /\ add_connection(c, "gpip")
  /\ UNCHANGED <<context, connection, tmp_connection, destination>>

Next ==
  \/ \E c \in Cells : \/ ReceiveNew(c) \/ ReceiveKnown(c) \/ ReceivePacket(c)
                      \/ SendStart(c) \/ SendComet(c) \/ request_packet_out_call(c)
  \/ ReceiveUpdate \/ ReceiveDrop \/ ReceiveFree
  \/ PacketInKeep \/ PacketInFree
  \/ SendReset \/ ResetDone \/ SendPacket \/ SendDone

Spec == Init /\ [][Next]_vars

----------------------------------------------------------------------------
TypeOK ==
  /\ all_connections \in Pointers
  /\ next \in [Cells -> Pointers]
  /\ prev \in [Cells -> Pointers]
  /\ kind \in [Cells -> {"free", "http", "gpip"}]
  /\ context \in Contexts
  /\ connection \in Pointers
  /\ tmp_connection \in [next : Pointers, prev : Pointers]
  /\ destination \in Pointers

\* No part of the connections is closed under next: they are one circle.
OneCircle == \A S \in SUBSET Listed :
  (S # {} /\ \A c \in S : next[c] \in S) => S = Listed

\* The list is sound: the two pointers of the connections undo each other
\* and lead to connections only, never to a freed cell, every connection is
\* reached from the head, and the head is one of them, unless there is none.
RingOK ==
  /\ OneCircle
  /\ IF Listed = {} THEN all_connections = NULL ELSE all_connections \in Listed
  /\ \A c \in Listed : /\ next[c] \in Listed /\ prev[next[c]] = c
                       /\ prev[c] \in Listed /\ next[prev[c]] = c

ContextOK ==
  /\ context = "receive" => tmp_connection = [next |-> next[connection], prev |-> prev[connection]]
  /\ context \in {"receive", "packet_in", "send"} => connection \in Listed

\* The pointers smews_receive has copied are still those of the connection
\* when it writes them back, and the connection that a function works with
\* stays in the list: with RingOK, an inductive invariant.
Inv == TypeOK /\ RingOK /\ ContextOK

\* get_current_remote_ip, with which the ethernet drivers find the address of
\* the frame they send, takes the connection before the head for the one
\* that sends.
get_current_remote_ip == IF all_connections = NULL THEN NULL ELSE prev[all_connections]

\* What the comment of get_current_remote_ip says: a segment goes to the
\* connection before the head.  A comet generator and a handler that adds a
\* connection while smews_send runs refute it.
CurrentIsSender == destination # NULL => get_current_remote_ip = destination

----------------------------------------------------------------------------
List == INSTANCE ConnectionList WITH list <- FOR_EACH_CONN

\* The pointers implement the list of ConnectionList: a loop over the
\* connections visits each of them once, in the order of their turns.
ImplementsList == List!ListSpec
=============================================================================

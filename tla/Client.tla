------------------------------- MODULE Client -------------------------------
(***************************************************************************)
(* The HTTP clients of the server: TCP peers that open a connection, send  *)
(* their requests one after the other (a request only once the answer to   *)
(* the previous one is complete), and close it.  They are external to the  *)
(* repository: this is what core/input.c and core/output.c expect of them. *)
(*                                                                         *)
(* A client sends each part of a request in a segment of length 1, accepts *)
(* only the bytes that continue its stream, and never withdraws the window *)
(* it has offered.                                                         *)
(***************************************************************************)
EXTENDS Smews

CONSTANTS Iss,      \* the initial sequence number of each client
          Requests, \* the files each client asks for, in order
          Cuts,     \* how a request is cut into segments: ranges of parts
          Windows,  \* the windows a client may advertise
          Mss       \* the MSS option of the SYN

ASSUME ClientAssumption ==
  /\ Iss \in [Peers -> 0 .. InMod - 1]
  /\ Requests \in [Peers -> Seq(Files)]
  /\ Cuts \in Seq([from : 1 .. 3, to : 1 .. 3])
  /\ Windows \subseteq 0 .. U16 - 1
  /\ Mss \in Nat

VARIABLE clients

ClientStates == {"closed", "syn_sent", "established", "fin_wait", "time_wait", "reset"}

Client == [state   : ClientStates,
           sent    : Nat,              \* segments of requests sent so far,
           acked   : Nat,              \* and acknowledged
           rcv_nxt : Nat,              \* the next byte expected,
           edge    : Nat,              \* the end of the window offered,
           got     : Seq(Files \X Int)] \* the bytes accepted

ClientInit ==
  clients = [p \in Peers |-> [state |-> "closed", sent |-> 0, acked |-> 0,
                              rcv_nxt |-> 0, edge |-> 0, got |-> << >>]]

----------------------------------------------------------------------------
\* The requests and their answers.

NbSegments(p) == Len(Requests[p]) * Len(Cuts)
RequestOf(n) == (n - 1) \div Len(Cuts) + 1
CutOf(n) == Cuts[((n - 1) % Len(Cuts)) + 1]

\* The bytes of the answers to the first k requests of p.
AnswerLength(p, k) ==
  LET sum[i \in 0 .. k] == IF i = 0 THEN 0 ELSE sum[i - 1] + Length[Requests[p][i]]
  IN sum[k]

Bytes(f) == [i \in 1 .. Length[f] |-> <<f, i - 1>>]

Answers(p) ==
  LET all[k \in 0 .. Len(Requests[p])] ==
        IF k = 0 THEN << >> ELSE all[k - 1] \o Bytes(Requests[p][k])
  IN all[Len(Requests[p])]

Complete(p) == Len(clients[p].got) >= AnswerLength(p, Len(Requests[p]))

----------------------------------------------------------------------------
\* The segments a client c at p sends, advertising window w.

NoText == [file |-> NotFound, from |-> 3, to |-> 3]

\* After the SYN, the segments sent and the FIN.
SndNxt(p, c) == (Iss[p] + 1 + c.sent + (IF c.state = "fin_wait" THEN 1 ELSE 0)) % InMod

ClientSegment(p, c, w) ==
  [peer |-> p, seq |-> SndNxt(p, c), ack |-> c.rcv_nxt, len |-> 0,
   flag |-> "ACK", cwnd |-> w, mss |-> 0, text |-> NoText]

Syn(p, c, w) == [ClientSegment(p, c, w) EXCEPT !.seq = Iss[p], !.flag = "SYN", !.mss = Mss]

RequestSegment(p, c, n, w) ==
  [ClientSegment(p, c, w) EXCEPT
     !.seq = (Iss[p] + n) % InMod, !.len = 1,
     !.text = [file |-> Requests[p][RequestOf(n)], from |-> CutOf(n).from, to |-> CutOf(n).to]]

Fin(p, c, w) ==
  [ClientSegment(p, c, w) EXCEPT !.seq = (Iss[p] + 1 + c.sent) % InMod, !.flag = "FIN"]

\* The acknowledgment of the server's FIN comes after the client's FIN.
LastAck(p, c, w) ==
  [ClientSegment(p, c, w) EXCEPT !.seq = (Iss[p] + 2 + c.sent) % InMod]

Rst(m) == [peer |-> m.peer, seq |-> m.ack, ack |-> 0, len |-> 0,
           flag |-> "RST", cwnd |-> 0, mss |-> 0, text |-> NoText]

\* Window w may be advertised: the end of the window does not move back.
MayOffer(c, w) == c.rcv_nxt + w >= c.edge
Offered(c, w) == [c EXCEPT !.edge = c.rcv_nxt + w]

----------------------------------------------------------------------------
\* What a client sends of its own: the operators give its next state.

MaySyn(p) == clients[p].state \in {"closed", "syn_sent"}

\* Segment n of the requests is new, or a retransmission.
MayRequest(p, n) ==
  LET c == clients[p] IN
  /\ c.state = "established"
  /\ n \in c.acked + 1 .. c.sent + 1
  /\ n <= NbSegments(p)
  /\ Len(c.got) >= AnswerLength(p, RequestOf(n) - 1)

MayFin(p) ==
  \/ clients[p].state = "established" /\ Complete(p)
  \/ clients[p].state = "fin_wait"

Requested(c, n) == [c EXCEPT !.sent = IF n > @ THEN n ELSE @]

----------------------------------------------------------------------------
\* What a client c makes of a segment m of the server.

\* The segments of requests that m acknowledges.
AckedBy(c, m) ==
  LET n == (m.ack - Iss[m.peer] - 1) % InMod IN
  IF n > c.acked /\ n <= c.sent THEN n ELSE c.acked

\* The checksum of a file segment is the sum of whole blocks of the file: it
\* is wrong, and the segment is dropped, if the data starts elsewhere.
Damaged(m) == m.handler \in Files /\ (m.index < 0 \/ m.index % Chunk # 0)

\* The bytes of m that continue the stream.
Continues(c, m) == /\ m.handler \in Files
                   /\ ~ Damaged(m)
                   /\ m.seq <= c.rcv_nxt
                   /\ c.rcv_nxt < m.seq + m.len

Accepted(c, m) ==
  LET skip == c.rcv_nxt - m.seq
      data == [i \in 1 .. m.len - skip |-> <<m.handler, m.index + skip + i - 1>>] IN
  [c EXCEPT !.got = @ \o data, !.rcv_nxt = m.seq + m.len]

Received(c, m) ==
  LET acked == [c EXCEPT !.acked = AckedBy(c, m)] IN
  CASE Damaged(m) -> c
    [] m.handler = "ref_rst" -> [c EXCEPT !.state = "reset"]
    [] m.handler = "ref_synack" /\ c.state = "syn_sent" ->
         [c EXCEPT !.state = "established", !.rcv_nxt = m.seq + 1]
    [] m.handler = "ref_finack" /\ c.state = "fin_wait" /\ m.seq = c.rcv_nxt ->
         [acked EXCEPT !.state = "time_wait", !.rcv_nxt = m.seq + 1]
    [] c.state \in {"established", "fin_wait"} /\ Continues(c, m) -> Accepted(acked, m)
    [] c.state \in {"established", "fin_wait"} /\ ~ Continues(c, m) /\ ~ Damaged(m) -> acked
    [] OTHER -> c

\* The segments c, once it has received m, answers with: none to a bare
\* acknowledgment, to a damaged segment or to a reset, a reset if it has no
\* connection.
Replies(c, m, w) ==
  CASE m.handler = "ref_rst" -> {}
    [] m.handler = "ref_ack" /\ c.state \in {"established", "fin_wait"} -> {}
    [] Damaged(m) -> {}
    [] c.state = "time_wait" -> {LastAck(m.peer, c, w)}
    [] c.state \in {"established", "fin_wait"} -> {ClientSegment(m.peer, c, w)}
    [] OTHER -> {Rst(m)}
=============================================================================

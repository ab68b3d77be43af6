------------------------------ MODULE Services ------------------------------
(***************************************************************************)
(* The dynamic contents of smews: the generator branch of smews_send       *)
(* (core/output.c), the coroutines and their shared stack (coroutines.c),  *)
(* the information on segments in flight (service.c), comet channels       *)
(* (generators.c) and what smews_receive and free_connection do to them.   *)
(*                                                                         *)
(* The connections are established.  A generator outputs the bytes 0, 1,   *)
(* ... of its content; a segment is a range of them behind an HTTP header. *)
(* The operators from servers to servers are the successive parts of the C *)
(* functions.  mem_alloc may refuse any request; how much is allocated is  *)
(* counted by kind of block.                                               *)
(***************************************************************************)
EXTENDS Integers, Sequences, FiniteSets, FiniteSetsExt

CONSTANTS Conns,            \* the connections, by client
          Handlers,         \* the generators
          Size,             \* the length of their contents
          Persistent,       \* those with prop_persistent
          Comet,            \* handler_comet: alert and stream
          Stream,           \* handler_stream
          WithArgs,         \* those that are asked with arguments
          Scenarios,        \* what may happen, and who asks for what
          MaxTrouble,       \* losses and refusals in a behaviour
          MaxAsked,         \* requests of a client
          MaxPushes,
          MaxWire,          \* segments on their way to a client, and acknowledgments back
          HeaderSize,       \* _service_headers_size
          OUTPUT_BUFFER_SIZE,
          Mss, Cwnd,
          None              \* NULL

\* What may happen besides requests and answers: a segment or an
\* acknowledgment is lost; one of a persistent answer is; its first segment
\* is; the timer expires early; mem_alloc refuses; a client asks again; a
\* connection is reset, or a channel triggered, before the answer is complete.
Events == {"loss", "persistent loss", "first loss", "early timer", "refusal", "again",
           "reset", "early push"}

Headers == {"none", "standard", "chunks"}
Kinds == {"service", "infos", "buffer", "context", "stack", "args"}

ASSUME ServicesAssumption ==
  /\ Persistent \cup Stream \cup Comet \cup WithArgs \subseteq Handlers
  /\ Stream \subseteq Comet
  /\ Size \in [Handlers -> Nat]
  /\ Scenarios \subseteq [events : SUBSET Events, asks : [Conns -> SUBSET Handlers]]
  /\ HeaderSize \in [Headers -> Nat \ {0}]
  /\ OUTPUT_BUFFER_SIZE \in Nat \ {0} /\ Mss \in Nat /\ Cwnd \in Nat
  /\ Mss > HeaderSize["chunks"] /\ Mss > HeaderSize["none"]
  /\ None \notin Handlers

VARIABLES server,    \* see ServerType
          wire,      \* the segments on their way to each client
          acks,      \* the acknowledgments on their way back
          client,    \* what each client expects, has and has asked for
          scenario,  \* one of Scenarios
          trouble,   \* how many losses and refusals there were
          pushes,
          fault      \* what the C code must never do, once it has done it

vars == <<server, wire, acks, client, scenario, trouble, pushes, fault>>

\* A saved stack holds the place where its coroutine stopped; a borrowed one
\* is the block of an in-flight context.
Stack == [pos : Nat, borrowed : BOOLEAN] \cup {None}
Context == [status : {"ready", "active", "terminated"}, sp : 0 .. 1, stack : Stack]
Infos == [outseqno : Nat, header : Headers,
          data : Context \cup [from : Nat, len : Nat]]
Service == [of : Handlers, persistent : BOOLEAN, header : Headers,
            curr_outseqno : Nat, co : Context, infos : Seq(Infos)]

Connection == [handler   : Handlers \cup {None},
               next      : Nat,
               final     : Nat,
               inflight  : Nat,
               service   : Service \cup {None},
               args      : {"NULL", "live", "freed"},
               send_ack  : BOOLEAN,
               passive   : BOOLEAN,
               streaming : BOOLEAN]

ServerType ==
  [conns       : [Conns -> Connection \cup {None}],
   ring        : Seq(Conns),                  \* all_connections
   cr_in_stack : Conns \cup {None, "stale"},
   shared      : Nat,                         \* the place in shared_stack
   out         : [header : Headers, from : Nat, len : Nat],  \* curr_output
   allocated   : [Kinds -> Int],              \* blocks taken less blocks given back
   twice       : Nat]                         \* borrowed stacks given back by cr_clean

Took(s, kind, n) == [s EXCEPT !.allocated[kind] = @ + n]
Gave(s, kind, n) == [s EXCEPT !.allocated[kind] = @ - n]

----------------------------------------------------------------------------
\* core/coroutines.c

NewContext == [status |-> "ready", sp |-> 0, stack |-> None]

Saved(pos, sp) == IF sp = 0 THEN None ELSE [pos |-> pos, borrowed |-> FALSE]

\* The coroutine in the shared stack is saved in a block of its own.
SwappedOut(s) ==
  IF s.cr_in_stack \notin Conns THEN s
  ELSE LET sp == s.conns[s.cr_in_stack].service.co.sp IN
       Took([s EXCEPT !.conns[s.cr_in_stack].service.co.stack = Saved(s.shared, sp)],
            "stack", sp)

SwappedIn(s, c) ==
  LET stack == s.conns[c].service.co.stack IN
  IF stack = None THEN [s EXCEPT !.cr_in_stack = c]
  ELSE Gave([s EXCEPT !.cr_in_stack = c, !.shared = stack.pos,
                      !.conns[c].service.co.stack = None], "stack", 1)

\* Mutant: the stack of the other coroutine is not saved.
cr_prepare_unsaved(s, c) == IF s.cr_in_stack = c THEN s ELSE SwappedIn(s, c)

cr_prepare(s, c) == IF s.cr_in_stack = c THEN s ELSE SwappedIn(SwappedOut(s), c)

\* cr_prepare when there is no room to save the coroutine in the stack.
cr_prepare_refused(s) ==
  [s EXCEPT !.conns[s.cr_in_stack].service.co.stack = None]

cr_clean(s, c) ==
  LET stack == s.conns[c].service.co.stack
      t == [s EXCEPT !.cr_in_stack = IF @ = c THEN None ELSE @,
                     !.twice = IF stack # None /\ stack.borrowed THEN @ + 1 ELSE @] IN
  IF stack = None THEN t ELSE Gave(t, "stack", 1)

\* cr_run, until the generator has output max bytes and wants to output one
\* more, or returns.
cr_run(s, c, max) ==
  LET service == s.conns[c].service
      pos     == IF service.co.status = "ready" THEN 0 ELSE s.shared
      left    == Size[service.of] - pos
      len     == IF left > max THEN max ELSE left IN
  [s EXCEPT !.out.from = pos, !.out.len = len, !.shared = pos + len,
            !.conns[c].service.co.status = IF left > max THEN "active" ELSE "terminated",
            !.conns[c].service.co.sp = IF left > max THEN 1 ELSE @]

\* if_select: the index of the information, 0 if there is none.
if_select(service, outseqno) ==
  LET found == {i \in DOMAIN service.infos : service.infos[i].outseqno = outseqno} IN
  IF found = {} THEN 0 ELSE Min(found)

context_backup(s, c) ==
  LET service == s.conns[c].service
      info == [outseqno |-> s.conns[c].next, header |-> s.out.header,
               data |-> [service.co EXCEPT !.stack = Saved(s.shared, service.co.sp)]] IN
  Took(Took(Took([s EXCEPT !.conns[c].service.infos = <<info>> \o @],
                 "infos", 1), "context", 1), "stack", service.co.sp)

\* The pointer to the stack is copied with the rest of the context.
context_restore(s, c, i) ==
  LET context == s.conns[c].service.infos[i].data IN
  IF context.stack = None THEN [s EXCEPT !.conns[c].service.co = context]
  ELSE [s EXCEPT !.conns[c].service.co = [context EXCEPT !.stack.borrowed = TRUE],
                 !.shared = context.stack.pos]

----------------------------------------------------------------------------
\* core/service.c.  The list is sorted, newest first.

\* Mutant: the saved stacks are not given back with their contexts.
FreedNoStack(s, service, infos) ==
  Gave(Gave(Gave(s, "infos", Len(infos)),
            "buffer", IF service.persistent THEN Len(infos) ELSE 0),
       "context", IF service.persistent THEN 0 ELSE Len(infos))

Freed(s, service, infos) ==
  LET n      == Len(infos)
      stacks == Cardinality({i \in 1 .. n : ~ service.persistent /\ infos[i].data.stack # None}) IN
  Gave(Gave(Gave(Gave(s, "infos", n),
                 "buffer", IF service.persistent THEN n ELSE 0),
            "context", IF service.persistent THEN 0 ELSE n), "stack", stacks)

\* Mutant: a segment that starts at the acknowledged number is given up.
clean_service_one_more(s, c, inack) ==
  LET service == s.conns[c].service
      kept == SelectSeq(service.infos, LAMBDA i : i.outseqno > inack) IN
  Freed([s EXCEPT !.conns[c].service.infos = kept], service,
        SubSeq(service.infos, Len(kept) + 1, Len(service.infos)))

clean_service(s, c, inack) ==
  LET service == s.conns[c].service
      older == {i \in DOMAIN service.infos : service.infos[i].outseqno < inack}
      kept  == IF older = {} THEN Len(service.infos) ELSE Min(older) - 1 IN
  Freed([s EXCEPT !.conns[c].service.infos = SubSeq(@, 1, kept)], service,
        SubSeq(service.infos, kept + 1, Len(service.infos)))

\* clean_service(service, NULL)
clean_all(s, c) ==
  Freed([s EXCEPT !.conns[c].service.infos = << >>], s.conns[c].service,
        s.conns[c].service.infos)

----------------------------------------------------------------------------
\* core/connections.c

something_to_send(conn) ==
  conn.handler # None /\ (conn.send_ack \/ conn.next # conn.final)

able_to_send(conn) ==
  something_to_send(conn) /\ ~ conn.passive /\ conn.inflight + Mss <= Cwnd

\* The coroutine of the service may be the one in the shared stack.
free_connection(s, c) ==
  LET conn == s.conns[c]
      i    == CHOOSE k \in DOMAIN s.ring : s.ring[k] = c
      t    == IF conn.args # "NULL" /\ conn.handler # None THEN Gave(s, "args", 1) ELSE s
      u    == IF conn.service = None THEN t
              ELSE Gave(clean_all([t EXCEPT !.cr_in_stack = IF @ = c THEN "stale" ELSE @],
                                  c), "service", 1) IN
  [u EXCEPT !.conns[c] = None,
            !.ring = SubSeq(@, i + 1, Len(@)) \o SubSeq(@, 1, i - 1)]

----------------------------------------------------------------------------
\* core/output.c

MaxBytes(header) ==
  IF OUTPUT_BUFFER_SIZE < Mss - HeaderSize[header] THEN OUTPUT_BUFFER_SIZE
                                                   ELSE Mss - HeaderSize[header]

\* The service of connection c is created.  The final sequence number is not
\* known yet; the other listeners of a comet channel become passive.
WithService(s, c) ==
  LET h == s.conns[c].handler
      service == [of |-> h, persistent |-> h \in Persistent,
                  header |-> IF h \in Stream /\ s.conns[c].streaming THEN "none" ELSE "standard",
                  curr_outseqno |-> s.conns[c].next, co |-> NewContext, infos |-> << >>] IN
  Took([s EXCEPT !.conns = [d \in Conns |->
          IF d = c THEN [@[c] EXCEPT !.service = service, !.final = s.conns[c].next - 1,
                                     !.passive = IF h \in Comet THEN FALSE ELSE @,
                                     !.streaming = @ \/ h \in Stream]
          ELSE IF h \in Comet /\ @[d] # None /\ @[d].handler = h
               THEN [@[d] EXCEPT !.passive = TRUE]
               ELSE @[d]]], "service", 1)

\* The HTTP header of the segment, from that of the service or of the first
\* transmission.
SelectHeader(header, ended, stream) ==
  CASE header = "standard" /\ (~ ended \/ stream) -> "chunks"
    [] header = "chunks"                          -> "none"
    [] OTHER                                      -> header

\* What smews_send_packet does to the connection that sends s.out.
PacketSent(conn, out) ==
  LET next == conn.next + HeaderSize[out.header] + out.len IN
  [conn EXCEPT !.next = next, !.inflight = @ + HeaderSize[out.header] + out.len,
               !.final = IF out.header = "standard" \/ out.len = 0 THEN next ELSE @]

\* The connections that get the segment of c.
Receivers(s, c) ==
  IF s.conns[c].handler \in Comet
  THEN {d \in Conns : /\ s.conns[d] # None /\ s.conns[d].handler = s.conns[c].handler
                      /\ able_to_send(s.conns[d])}
  ELSE {c}

Skipped(s, d) == s.conns[d].handler \in Stream /\ s.out.len = 0
\* What smews_send does once the service of c is there, up to the generation
\* of the segment: the coroutine is in the shared stack, in the context of a
\* lost segment if this is one.
Retransmitting(s, c) == s.conns[c].next # s.conns[c].service.curr_outseqno
FromBuffer(s, c) == s.conns[c].service.persistent /\ Retransmitting(s, c)

Restored(s, c) ==
  LET service == s.conns[c].service
      i == if_select(service, s.conns[c].next) IN
  IF ~ Retransmitting(s, c) THEN [s EXCEPT !.out.header = service.header]
  ELSE IF i = 0 THEN [s EXCEPT !.out.header = "none"]
  ELSE [context_restore(s, c, i) EXCEPT !.out.header = service.infos[i].header]

Ended(s, c) == s.conns[c].service.co.status = "terminated"

\* The buffer of a persistent segment is kept.
Kept(s, c) ==
  LET info == [outseqno |-> s.conns[c].next, header |-> s.out.header,
               data |-> [from |-> s.out.from, len |-> s.out.len]] IN
  Took(Took([s EXCEPT !.conns[c].service.infos = <<info>> \o @], "infos", 1), "buffer", 1)

\* The last void chunk needs neither a buffer nor a call of the coroutine.
Generated(s, c, max) ==
  CASE Ended(s, c) -> [s EXCEPT !.out.from = 0, !.out.len = 0]
    [] ~ Ended(s, c) /\ s.conns[c].service.persistent -> Kept(cr_run(s, c, max), c)
    [] ~ Ended(s, c) /\ ~ s.conns[c].service.persistent ->
         cr_run(IF Retransmitting(s, c) THEN s ELSE context_backup(s, c), c, max)

\* A segment that is sent again from its buffer.  Its length is still that of
\* the last segment that was generated.
FromInfos(s, c) ==
  LET info == s.conns[c].service.infos[if_select(s.conns[c].service, s.conns[c].next)] IN
  [s EXCEPT !.out.header = info.header, !.out.from = info.data.from]

\* The checksum is that of the bytes that were generated.
Sound(s, c) ==
  ~ FromBuffer(s, c)
  \/ s.out.len = s.conns[c].service.infos[if_select(s.conns[c].service, s.conns[c].next)].data.len

\* After the segment: the service advances if this was a new segment, and is
\* given up at once if it is a stream and nothing is in flight.
AfterSend(s, c, before, ended) ==
  LET t == IF Retransmitting(before, c) THEN s
           ELSE [s EXCEPT !.conns[c].service.header = s.out.header,
                          !.conns[c].service.curr_outseqno = s.conns[c].next] IN
  IF s.conns[c].handler \in Stream /\ ended /\ s.conns[c].inflight = 0
  THEN [Gave(clean_all(t, c), "service", 1) EXCEPT
          !.conns[c].service = None, !.cr_in_stack = IF @ = c THEN "stale" ELSE @]
  ELSE t

\* To all the listeners of a comet channel, or to c.
Broadcast(s, c, ended) ==
  [s EXCEPT !.conns = [d \in Conns |->
     IF d \notin Receivers(s, c) THEN @[d]
     ELSE LET conn == IF Skipped(s, d) THEN @[d] ELSE PacketSent(@[d], s.out) IN
          IF ended /\ conn.handler \in Stream THEN [conn EXCEPT !.final = conn.next]
                                              ELSE conn]]

\* smews_send looks for a connection from the head of the list on, which
\* moves after it.
Candidates == {i \in DOMAIN server.ring : able_to_send(server.conns[server.ring[i]])}
Active == server.ring[Min(Candidates)]
Turned ==
  LET i == Min(Candidates) IN
  [server EXCEPT !.ring = SubSeq(@, i + 1, Len(@)) \o SubSeq(@, 1, i)]

Segment(s, d, c) ==
  [seq |-> s.conns[d].next, header |-> s.out.header, from |-> s.out.from,
   len |-> s.out.len, sound |-> Sound(s, c)]

CanSend == Candidates # {} /\ \A d \in Conns : Len(wire[d]) < MaxWire

\* A comet request is acknowledged at once and answered when its channel is
\* triggered; initGet, called here, outputs nothing.
SendAck ==
  /\ CanSend /\ server.conns[Active].send_ack
  /\ server' = [Turned EXCEPT !.conns[Active].send_ack = FALSE,
                              !.conns[Active].final = server.conns[Active].next]
  /\ UNCHANGED <<wire, acks, client, scenario, trouble, pushes, fault>>

Generating == CanSend /\ ~ server.conns[Active].send_ack

HasService == server.conns[Active].service # None
WithServiceOf(c) == IF HasService THEN Turned ELSE WithService(Turned, c)
Positioned(s, c) == IF FromBuffer(s, c) THEN s ELSE Restored(s, c)
Refused == "refusal" \in scenario.events /\ trouble < MaxTrouble /\ trouble' = trouble + 1

\* No room for the service.
RefuseService ==
  /\ Generating /\ ~ HasService /\ Refused
  /\ server' = Turned
  /\ UNCHANGED <<wire, acks, client, scenario, pushes, fault>>

\* No room to save the coroutine that is in the shared stack.
RefuseStack ==
  /\ Generating /\ Refused
  /\ server.cr_in_stack \in Conns \ {Active}
  /\ server.conns[server.cr_in_stack].service.co.sp = 1
  /\ server' = cr_prepare_refused(WithServiceOf(Active))
  /\ UNCHANGED <<wire, acks, client, scenario, pushes, fault>>

\* The server when the coroutine of the active connection is in place.  (The
\* quantifiers name the successive states of the server.)
Placed(A(_)) ==
  \E s1 \in {WithServiceOf(Active)} : \E s2 \in {cr_prepare(s1, Active)} :
    \E s3 \in {Positioned(s2, Active)} : A(s3)

\* No room for the buffer, the information on the segment or its context:
\* what was taken for this segment is given back.
RefuseSegment ==
  /\ Generating /\ Refused
  /\ Placed(LAMBDA s : /\ ~ FromBuffer(s, Active) /\ ~ Ended(s, Active)
                       /\ server' = s)
  /\ UNCHANGED <<wire, acks, client, scenario, pushes, fault>>

\* The segment of c, in the state s: it is sent.
Transmit(s, c, before, ended) ==
  /\ fault' = None
  /\ server' = AfterSend(Broadcast(s, c, ended), c, before, ended)
  /\ wire' = [d \in Conns |-> IF d \in Receivers(s, c) /\ ~ Skipped(s, d)
                              THEN Append(wire[d], Segment(s, d, c)) ELSE wire[d]]

\* A new segment, or the same bytes again, from the generator.
Generate(s, c, max) ==
  /\ ~ FromBuffer(s, c)
  /\ \E g \in {Generated(s, c, max)} :
       Transmit([g EXCEPT !.out.header =
                   SelectHeader(@, Ended(g, c), s.conns[c].handler \in Stream)],
                c, s, Ended(g, c))

\* A segment that is sent again from its buffer.  It is a fault if there is no
\* information on it.
Resend(s, c) ==
  /\ FromBuffer(s, c)
  /\ IF if_select(s.conns[c].service, s.conns[c].next) = 0
     THEN fault' = "in_flight_infos" /\ UNCHANGED <<server, wire>>
     ELSE \E g \in {FromInfos(s, c)} :
            Transmit([g EXCEPT !.out.header =
                        SelectHeader(@, FALSE, s.conns[c].handler \in Stream)],
                     c, s, FALSE)

\* It is a fault to save the shared stack in a coroutine that is gone.
SendSegment ==
  /\ Generating
  /\ IF server.cr_in_stack = "stale"
     THEN fault' = "coroutine" /\ UNCHANGED <<server, wire>>
     ELSE Placed(LAMBDA s :
            \/ Generate(s, Active, MaxBytes(IF HasService THEN "none" ELSE "chunks"))
            \/ Resend(s, Active))
  /\ UNCHANGED <<acks, client, scenario, trouble, pushes>>

----------------------------------------------------------------------------
\* core/input.c: the acknowledgment a is taken on a copy of the connection;
\* the blocks are given back at the end, if the checksum is right.

DuplicateAck(conn, a) == IF conn.next - conn.inflight = a THEN [conn EXCEPT !.next = a] ELSE conn
Accepted(conn, a) == a <= DuplicateAck(conn, a).next

AckManagement(conn, a) ==
  LET d == DuplicateAck(conn, a) IN
  IF a <= d.next THEN [d EXCEPT !.inflight = d.next - a] ELSE d

Answered(conn) == conn.handler # None /\ conn.inflight = 0 /\ ~ something_to_send(conn)
ClearHandler(conn) ==
  IF Answered(conn) /\ ~ conn.streaming THEN [conn EXCEPT !.handler = None] ELSE conn

\* The pointer to the arguments is kept.
FreeHandler(s, c) ==
  LET t == Gave(cr_clean(s, c), "service", 1)
      u == IF s.conns[c].args = "NULL" THEN t
           ELSE [Gave(t, "args", 1) EXCEPT !.conns[c].args = "freed"] IN
  [u EXCEPT !.conns[c].service = None]

Acked(s, c, a) ==
  LET conn == AckManagement(s.conns[c], a)
      t == [s EXCEPT !.conns[c] = ClearHandler(conn)] IN
  IF conn.service = None \/ ~ Accepted(s.conns[c], a) THEN t
  ELSE IF Answered(conn) THEN FreeHandler(clean_service(t, c, a), c)
  ELSE clean_service(t, c, a)

\* A request installs its handler.
Installed(s, c, h, a) ==
  LET conn == [s.conns[c] EXCEPT !.handler = h, !.next = a, !.final = a - 1,
                                 !.send_ack = h \in Comet, !.passive = FALSE,
                                 !.streaming = FALSE,
                                 !.args = IF h \in WithArgs THEN "live" ELSE "NULL"]
      t == [s EXCEPT !.conns[c] = conn] IN
  IF h \in WithArgs THEN Took(t, "args", 1) ELSE t

CanReceive(c) == acks[c] # << >> /\ server.conns[c] # None

ReceiveAck(c) ==
  /\ CanReceive(c)
  /\ server' = Acked(server, c, Head(acks[c]))
  /\ acks' = [acks EXCEPT ![c] = Tail(@)]
  /\ UNCHANGED <<wire, client, scenario, trouble, pushes, fault>>

\* A client asks when it has nothing left to read.
Idle(c) == client[c].asked = None \/ client[c].complete
ReceiveRequest(c, h) ==
  /\ server.conns[c] # None /\ acks[c] = << >> /\ Idle(c) /\ h \in scenario.asks[c]
  /\ client[c].requests < (IF "again" \in scenario.events THEN MaxAsked ELSE 1)
  /\ server' = Installed(Acked(server, c, client[c].expect), c, h, client[c].expect)
  /\ client' = [client EXCEPT ![c].asked = h, ![c].got = << >>, ![c].complete = FALSE,
                              ![c].requests = @ + 1]
  /\ UNCHANGED <<wire, acks, scenario, trouble, pushes, fault>>

\* A reset, or a segment that ends the closing of the connection.  It frees
\* the connection as it was stored, not the copy that took the acknowledgment.
ReceiveReset(c) ==
  /\ server.conns[c] # None
  /\ "reset" \in scenario.events \/ server.conns[c].service = None
  /\ client[c].requests > 0
  /\ server' = free_connection([Acked(server, c, client[c].expect) EXCEPT
                                  !.conns[c] = server.conns[c]], c)
  /\ wire' = [wire EXCEPT ![c] = << >>]
  /\ acks' = [acks EXCEPT ![c] = << >>]
  /\ client' = [client EXCEPT ![c].asked = None]
  /\ UNCHANGED <<scenario, trouble, pushes, fault>>

\* Mutant: what was in flight is given up.
smews_retransmit_no_rollback ==
  /\ \/ "early timer" \in scenario.events
     \/ ~ CanSend /\ \A c \in Conns : wire[c] = << >> /\ acks[c] = << >>
  /\ \E c \in Conns : server.conns[c] # None /\ server.conns[c].inflight > 0
  /\ server' = [server EXCEPT !.conns = [c \in Conns |->
       IF @[c] # None /\ @[c].handler # None THEN [@[c] EXCEPT !.inflight = 0] ELSE @[c]]]
  /\ UNCHANGED <<wire, acks, client, scenario, trouble, pushes, fault>>

\* core/smews.c.  Unless the timer is early, everything that can be sent or is
\* on its way comes before it.
smews_retransmit ==
  /\ \/ "early timer" \in scenario.events
     \/ ~ CanSend /\ \A c \in Conns : wire[c] = << >> /\ acks[c] = << >>
  /\ \E c \in Conns : server.conns[c] # None /\ server.conns[c].inflight > 0
  /\ server' = [server EXCEPT !.conns = [c \in Conns |->
       IF @[c] # None /\ @[c].handler # None
       THEN [@[c] EXCEPT !.next = @ - server.conns[c].inflight, !.inflight = 0]
       ELSE @[c]]]
  /\ UNCHANGED <<wire, acks, client, scenario, trouble, pushes, fault>>

\* core/generators.c
server_push(h) ==
  /\ h \in Comet /\ pushes < MaxPushes
  /\ "early push" \in scenario.events \/ \A c \in Conns :
        server.conns[c] # None /\ server.conns[c].handler = h =>
          /\ server.conns[c].service = None /\ ~ server.conns[c].send_ack
          /\ ~ something_to_send(server.conns[c])
  /\ \E c \in Conns : server.conns[c] # None /\ server.conns[c].handler = h
  /\ pushes' = pushes + 1
  /\ server' = [server EXCEPT !.conns = [c \in Conns |->
       IF @[c] # None /\ @[c].handler = h
       THEN [@[c] EXCEPT !.send_ack = FALSE, !.final = server.conns[c].next - 1]
       ELSE @[c]]]
  /\ UNCHANGED <<wire, acks, client, scenario, trouble, fault>>

----------------------------------------------------------------------------
\* The clients and the network (external).

\* A client takes the segments in order and acknowledges each one it sees.
ClientReceive(c) ==
  /\ wire[c] # << >> /\ Len(acks[c]) < MaxWire
  /\ LET seg == Head(wire[c])
         new == seg.sound /\ seg.seq = client[c].expect
         expect == IF new THEN seg.seq + HeaderSize[seg.header] + seg.len
                   ELSE client[c].expect IN
     /\ client' = IF ~ new THEN client
                  ELSE [client EXCEPT ![c].expect = expect,
                          ![c].got = Append(@, [header |-> seg.header, from |-> seg.from,
                                                len |-> seg.len]),
                          ![c].complete = @ \/ seg.header = "standard" \/ seg.len = 0]
     /\ acks' = IF seg.sound THEN [acks EXCEPT ![c] = Append(@, expect)] ELSE acks
  /\ wire' = [wire EXCEPT ![c] = Tail(@)]
  /\ UNCHANGED <<server, scenario, trouble, pushes, fault>>

MayLose(c, first) ==
  /\ trouble < MaxTrouble
  /\ IF client[c].asked \in Persistent
     THEN "persistent loss" \in scenario.events \/ (first /\ "first loss" \in scenario.events)
     ELSE "loss" \in scenario.events

Lose(c) ==
  /\ \/ /\ wire[c] # << >> /\ MayLose(c, Head(wire[c]).header = "chunks")
        /\ wire' = [wire EXCEPT ![c] = Tail(@)] /\ UNCHANGED acks
     \/ /\ acks[c] # << >> /\ MayLose(c, FALSE)
        /\ acks' = [acks EXCEPT ![c] = Tail(@)] /\ UNCHANGED wire
  /\ trouble' = trouble + 1
  /\ UNCHANGED <<server, client, scenario, pushes, fault>>

----------------------------------------------------------------------------
FreshConnection == [handler |-> None, next |-> 1, final |-> 0, inflight |-> 0,
                    service |-> None, args |-> "NULL", send_ack |-> FALSE,
                    passive |-> FALSE, streaming |-> FALSE]

Orders == {o \in [1 .. Cardinality(Conns) -> Conns] : \A i, j \in DOMAIN o : o[i] = o[j] => i = j}

Init ==
  /\ server = [conns |-> [c \in Conns |-> FreshConnection],
               ring |-> CHOOSE o \in Orders : TRUE,
               cr_in_stack |-> None, shared |-> 0,
               out |-> [header |-> "none", from |-> 0, len |-> 0],
               allocated |-> [k \in Kinds |-> 0], twice |-> 0]
  /\ wire = [c \in Conns |-> << >>]
  /\ acks = [c \in Conns |-> << >>]
  /\ client = [c \in Conns |-> [expect |-> 1, got |-> << >>, asked |-> None,
                                complete |-> FALSE, requests |-> 0]]
  /\ scenario \in Scenarios
  /\ trouble = 0
  /\ pushes = 0
  /\ fault = None

smews_send == SendAck \/ SendSegment
Refusals == RefuseService \/ RefuseStack \/ RefuseSegment

Next ==
  /\ fault = None
  /\ \/ smews_send
     \/ Refusals
     \/ smews_retransmit
     \/ \E h \in Handlers : server_push(h)
     \/ \E c \in Conns : \/ ReceiveAck(c) \/ ReceiveReset(c)
                          \/ ClientReceive(c) \/ Lose(c)
                          \/ \E h \in Handlers : ReceiveRequest(c, h)

Spec == Init /\ [][Next]_vars

\* The main loop runs for ever; clients read and acknowledge.  The first two
\* conjuncts are weak fairness with the enabling conditions written out.
Fairness ==
  /\ []<> ~ (fault = None /\ CanSend) \/ []<> <<smews_send>>_vars
  /\ \A c \in Conns : []<> ~ (fault = None /\ CanReceive(c)) \/ []<> <<ReceiveAck(c)>>_vars
  /\ WF_vars(fault = None /\ smews_retransmit)
  /\ \A c \in Conns : WF_vars(fault = None /\ ClientReceive(c))

FairSpec == Spec /\ Fairness

----------------------------------------------------------------------------
\* Properties.

\* Every field has its type: core/connections.h, struct http_connection and
\* struct generator_service_t.
TypeOK ==
  /\ server \in ServerType
  /\ fault \in {None, "in_flight_infos", "coroutine"}

\* The bytes of content in the first n segments.
Total(got, n) == MapThenSumSet(LAMBDA i : got[i].len, 1 .. n)

\* What a client has read is the beginning of one well formed answer: either
\* one segment with a Content-Length, or a chunked answer whose chunks are
\* the content, once each and in order, and whose void chunk comes last.  A
\* stream is the content over and over, without a void chunk.
\* core/output.c:908 and 1074: a lost segment is generated again from the
\* context of its coroutine.
StreamIsContent ==
  \A c \in Conns :
    LET got  == client[c].got
        h    == client[c].asked
        size == Size[h] IN
    got # << >> /\ h # None =>
      \/ h \notin Stream /\ got = <<[header |-> "standard", from |-> 0, len |-> size]>>
      \/ \A i \in DOMAIN got :
           /\ got[i].header = IF i = 1 THEN "chunks" ELSE "none"
           /\ got[i].len > 0 => got[i].from = Total(got, i - 1) % size
           /\ got[i].len = 0 => h \notin Stream /\ i = Len(got)
           /\ h \notin Stream => IF got[i].len = 0 THEN Total(got, i) = size
                                                 ELSE Total(got, i) <= size

\* What is allocated is what the connections own, whatever was lost or
\* refused: no block is leaked or freed under its owner.  The stacks that
\* cr_clean frees a second time are counted apart (FreedOnce).
Sum(f(_)) == MapThenSumSet(f, {c \in Conns : server.conns[c] # None /\ server.conns[c].service # None})
Volatile(service) == {i \in DOMAIN service.infos : ~ service.persistent}
HeapExact ==
  LET serv(c) == server.conns[c].service
      services == Sum(LAMBDA c : 1)
      infos    == Sum(LAMBDA c : Len(serv(c).infos))
      contexts == Sum(LAMBDA c : Cardinality(Volatile(serv(c))))
      stacks   == Sum(LAMBDA c :
                    Cardinality({i \in Volatile(serv(c)) : serv(c).infos[i].data.stack # None})
                    + (IF serv(c).co.stack # None /\ ~ serv(c).co.stack.borrowed THEN 1 ELSE 0))
      args     == Cardinality({c \in Conns : server.conns[c] # None /\ server.conns[c].args = "live"})
  IN  server.allocated = [service |-> services, infos |-> infos, buffer |-> infos - contexts,
                          context |-> contexts, stack |-> stacks - server.twice, args |-> args]

\* cr_clean gives back "the memory used by a coroutine (not including
\* in-flight segments)", core/coroutines.h:127.
FreedOnce == server.twice = 0

\* No segment is sent whose information is gone and no coroutine is used that
\* was freed.
NoFault == fault = None

\* Every request is answered, a comet one once its channel is triggered: "this
\* response will be sent to all registered clients", doc/userguide.tex:508.
\* Timers that expire before the answers arrive may prevent it for ever.
Triggered(c) ==
  /\ server.conns[c] # None /\ server.conns[c].handler = client[c].asked
  /\ server.conns[c].next # server.conns[c].final /\ ~ server.conns[c].send_ack
Waiting(c) ==
  /\ client[c].asked \in Handlers \ Stream /\ ~ client[c].complete
  /\ client[c].asked \in Comet => Triggered(c)
AllAnswered ==
  "early timer" \notin scenario.events =>
    \A c \in Conns : Waiting(c) ~> client[c].complete \/ client[c].asked = None
=============================================================================

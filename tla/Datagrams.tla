----------------------------- MODULE Datagrams -----------------------------
(***************************************************************************)
(* The general purpose IP handlers and the applications that use them:     *)
(* icmpv4, icmpv6, udp and, over udp, dhcpclient and udp_test.  Each packet *)
(* received gets a connection of its own; doPacketIn reads it and says     *)
(* whether doPacketOut will be called, at the turn of that connection, to  *)
(* write an answer.  Between the two other packets are received and other  *)
(* connections come and go, while what doPacketOut needs is kept in        *)
(* variables of the application, found again by the address of the         *)
(* connection or not at all.                                               *)
(*                                                                         *)
(* A packet is read whole and its bytes are what the properties tell       *)
(* apart.  The network and the DHCP servers are external.                  *)
(***************************************************************************)
EXTENDS Integers, Sequences, SequencesExt, FiniteSets

CONSTANTS Builds,    \* what is compiled in, and the traffic it meets
          Addresses, \* of the heap, each with room for one connection
          Bursty,    \* the services that may be asked before they answered
          MaxOthers, \* the HTTP connections opened
          MaxLosses, MaxDuplicates

ASSUME DatagramsAssumption ==
  /\ Addresses \subseteq Nat \ {0} /\ IsFiniteSet(Addresses) /\ Addresses # {}
  /\ {MaxOthers, MaxLosses, MaxDuplicates} \subseteq Nat
  /\ \A b \in Builds : b.apps \in Seq(STRING)

NULL == 0
ICMP == 1
TCP == 6
UDP == 17
ICMP6 == 58
ICMP_ECHO_REQUEST == 8
ICMP_NEIGHBOR_SOLICITATION == 135
DHCP_SERVER_PORT == 67
DHCP_CLIENT_PORT == 68
TEST_PORT == 2000

VARIABLES
  build,       \* its apps in the order of their init, its traffic, its servers
  connections, \* the circle, from all_connections
  opened,      \* how many HTTP connections there have been
  bindings,    \* the circle of udp_callbacks, from _head
  icmp,        \* the statics of icmpv4; the checksum by what was added to it
  transaction, \* _current_transaction of dhcpclient
  local_ip_addr,
  rx,          \* the packets the device has received
  network,     \* the packets on their way to the device
  faults,      \* the packets lost and duplicated
  heard,       \* what each DHCP server has answered
  leases,      \* the addresses leased to this device
  due,         \* the answers that are owed, with the service that owes them
  sent,        \* the messages sent to the DHCP servers
  spurious     \* those that were not owed

apps == <<bindings, icmp, transaction, local_ip_addr>>
outside == <<network, faults, heard, leases>>
vars == <<build, connections, opened, apps, rx, outside, due, sent, spurious>>

Has(app) == app \in Range(build.apps)
Port(app) == IF app = "dhcpclient" THEN DHCP_CLIENT_PORT ELSE TEST_PORT
Protocols == UNION {IF Has("icmpv4") THEN {ICMP} ELSE {},
                    IF Has("icmpv6") THEN {ICMP6} ELSE {},
                    IF Has("udp") THEN {UDP} ELSE {}}

\* A service is a protocol or a port of udp.
Service(p) == IF p.protocol = UDP THEN p.dport ELSE p.protocol

-----------------------------------------------------------------------------
\* The connections.

Free == Addresses \ {connections[i].at : i \in DOMAIN connections}

smews_gpip_get_output_handler(protocol) == protocol \in Protocols

GpIp(at, protocol, ip, want) ==
  [at |-> at, protocol |-> protocol, ip |-> ip, want_to_send |-> want]

\* A connection that does not want to send is freed at once; all_connections
\* is then what it was.
Answered(at, p, want) ==
  connections' = IF want = 0 THEN connections
                 ELSE Append(connections, GpIp(at, p.protocol, p.from, want))

\* An HTTP connection is opened or freed, by a segment that is not modelled
\* here; free_connection makes the one after it the head.
OtherOpens ==
  /\ opened < MaxOthers
  /\ \E at \in Free : connections' = Append(connections, [at |-> at, protocol |-> TCP])
  /\ opened' = opened + 1
  /\ UNCHANGED <<build, apps, rx, outside, due, sent, spurious>>

\* Mutant: the connections before the one that is freed are lost.
AfterOnly(i) == SubSeq(connections, i + 1, Len(connections))

After(i) == SubSeq(connections, i + 1, Len(connections)) \o SubSeq(connections, 1, i - 1)

OtherEnds ==
  /\ \E i \in DOMAIN connections :
       connections[i].protocol = TCP /\ connections' = After(i)
  /\ UNCHANGED <<build, opened, apps, rx, outside, due, sent, spurious>>

-----------------------------------------------------------------------------
\* What the environment expects of each packet: an answer from the service it
\* asks, to its sender, with its own data.

Datagram(to, sport, dport, body) ==
  [protocol |-> UDP, to |-> to, sport |-> sport, dport |-> dport, body |-> body]
DISCOVER == [type |-> "DISCOVER"]
REQUEST(yiaddr, server) == [type |-> "REQUEST", yiaddr |-> yiaddr, server |-> server]
\* A packet in which nothing is written, not even a protocol.
Nothing == [protocol |-> NULL]

Answers(p) ==
  CASE p.protocol = ICMP -> IF p.type = ICMP_ECHO_REQUEST /\ p.valid
                            THEN {[protocol |-> ICMP, to |-> p.from, data |-> p.data, added |-> 1]} ELSE {}
    [] p.protocol = ICMP6 -> IF p.type = ICMP_NEIGHBOR_SOLICITATION /\ p.target = local_ip_addr
                             THEN {[protocol |-> ICMP6, to |-> p.from, target |-> p.target]} ELSE {}
    [] p.protocol = UDP /\ p.dport = TEST_PORT /\ Has("udp_test") ->
         {Datagram(p.from, TEST_PORT, p.sport, "Received!")}
    [] p.protocol = UDP /\ p.dport = DHCP_CLIENT_PORT /\ Has("dhcpclient") ->
         IF p.xid = transaction.xid /\ p.type = "OFFER" /\ transaction.state = "SELECTING"
         THEN {Datagram(p.from, DHCP_CLIENT_PORT, DHCP_SERVER_PORT, REQUEST(p.yiaddr, p.server))} ELSE {}
    [] OTHER -> {}

Owe(p) == due' = due \o [i \in 1 .. Cardinality(Answers(p)) |->
                           [service |-> Service(p), answer |-> CHOOSE a \in Answers(p) : TRUE]]

Emit(packet) ==
  LET owed == {i \in DOMAIN due : due[i].answer = packet} IN
  /\ sent' = IF packet.protocol = UDP /\ packet.dport = DHCP_SERVER_PORT
             THEN sent \cup {packet} ELSE sent
  /\ due' = IF owed = {} THEN due ELSE RemoveAt(due, CHOOSE i \in owed : TRUE)
  /\ spurious' = IF owed = {} THEN spurious \cup {packet} ELSE spurious

-----------------------------------------------------------------------------
\* doPacketIn.

\* Mutant: the checksum is not looked at.
icmp4_packet_in_unchecked(p, at) ==
  /\ icmp' = IF p.type = ICMP_ECHO_REQUEST THEN [data |-> p.data, added |-> 0] ELSE icmp
  /\ Answered(at, p, IF p.type = ICMP_ECHO_REQUEST THEN 1 ELSE 0)
  /\ UNCHANGED <<bindings, transaction, local_ip_addr>>

icmp4_packet_in(p, at) ==
  /\ icmp' = IF p.type = ICMP_ECHO_REQUEST THEN [data |-> p.data, added |-> 0] ELSE icmp
  /\ Answered(at, p, IF p.type = ICMP_ECHO_REQUEST /\ p.valid THEN 1 ELSE 0)
  /\ UNCHANGED <<bindings, transaction, local_ip_addr>>

\* Nothing is kept but the code that doPacketIn returns, in the connection.
icmp6_packet_in(p, at) ==
  /\ Answered(at, p, IF p.type = ICMP_NEIGHBOR_SOLICITATION /\ p.target = local_ip_addr
                     THEN ICMP_NEIGHBOR_SOLICITATION ELSE 0)
  /\ UNCHANGED apps

\* The first of these bindings, if any.
FirstBinding(found) == {i \in found : \A j \in found : i <= j}
get_callback(port) == FirstBinding({i \in DOMAIN bindings : bindings[i].src_port = port})
get_callback_from_connection(at) ==
  FirstBinding({i \in DOMAIN bindings : bindings[i].args.connection_info = at})

Args(src, dst, at) == [src_port |-> src, dst_port |-> dst, connection_info |-> at]

udp_test_in(p, i, at) ==
  /\ bindings' = [bindings EXCEPT ![i].args = Args(p.dport, p.sport, at)]
  /\ Answered(at, p, 1)
  /\ UNCHANGED <<icmp, transaction, local_ip_addr>>

dhcp_commit_ip == local_ip_addr' = transaction.offered_ip

\* Mutant: the transaction of an acknowledgment is not looked at.
dhcp_in_any_xid(p, i, at) ==
  LET waiting == transaction.state \in {"SELECTING", "REQUESTING"}
      ours == waiting /\ p.xid = transaction.xid
      offer == ours /\ p.type = "OFFER" /\ transaction.state = "SELECTING"
      ack == waiting /\ p.type = "ACK" /\ transaction.state = "REQUESTING"
      server == IF offer \/ ack \/ (ours /\ p.serverFirst) THEN p.server
                ELSE transaction.server_ip
  IN
  /\ transaction' = [transaction EXCEPT
       !.state = IF offer THEN "REQUESTING" ELSE IF ack THEN "BOUND" ELSE @,
       !.offered_ip = IF offer THEN p.yiaddr ELSE @,
       !.server_ip = server]
  /\ IF ack THEN dhcp_commit_ip ELSE UNCHANGED local_ip_addr
  /\ bindings' = [bindings EXCEPT ![i].args =
       IF offer THEN Args(DHCP_CLIENT_PORT, DHCP_SERVER_PORT, at) ELSE Args(p.sport, p.dport, at)]
  /\ Answered(at, p, IF offer THEN 1 ELSE 0)
  /\ UNCHANGED icmp

\* The options are read in the order of the packet, so that the identifier of
\* the server is taken from a message dropped for its type if it comes first.
dhcp_in(p, i, at) ==
  LET waiting == transaction.state \in {"SELECTING", "REQUESTING"}
      ours == waiting /\ p.xid = transaction.xid
      offer == ours /\ p.type = "OFFER" /\ transaction.state = "SELECTING"
      ack == ours /\ p.type = "ACK" /\ transaction.state = "REQUESTING"
      server == IF offer \/ ack \/ (ours /\ p.serverFirst) THEN p.server
                ELSE transaction.server_ip
  IN
  /\ transaction' = [transaction EXCEPT
       !.state = IF offer THEN "REQUESTING" ELSE IF ack THEN "BOUND" ELSE @,
       !.offered_ip = IF offer THEN p.yiaddr ELSE @,
       !.server_ip = server]
  /\ IF ack THEN dhcp_commit_ip ELSE UNCHANGED local_ip_addr
  /\ bindings' = [bindings EXCEPT ![i].args =
       IF offer THEN Args(DHCP_CLIENT_PORT, DHCP_SERVER_PORT, at) ELSE Args(p.sport, p.dport, at)]
  /\ Answered(at, p, IF offer THEN 1 ELSE 0)
  /\ UNCHANGED icmp

udp_packet_in(p, at) ==
  IF get_callback(p.dport) = {} THEN Answered(at, p, 0) /\ UNCHANGED apps
  ELSE \E i \in get_callback(p.dport) :
         IF p.dport = DHCP_CLIENT_PORT THEN dhcp_in(p, i, at) ELSE udp_test_in(p, i, at)

dopacketin(p, at) ==
  CASE p.protocol = ICMP -> icmp4_packet_in(p, at)
    [] p.protocol = ICMP6 -> icmp6_packet_in(p, at)
    [] p.protocol = UDP -> udp_packet_in(p, at)

\* smews_receive for a packet that is not of TCP.  The allocator may return
\* any address that is free.
smews_receive ==
  /\ rx # << >>
  /\ rx' = Tail(rx)
  /\ LET p == Head(rx) IN
     \/ /\ ~smews_gpip_get_output_handler(p.protocol) \/ Free = {}
        /\ UNCHANGED <<connections, apps, due>>
     \/ /\ smews_gpip_get_output_handler(p.protocol)
        /\ \E at \in Free : dopacketin(p, at)
        /\ Owe(p)
  /\ UNCHANGED <<build, opened, outside, sent, spurious>>

-----------------------------------------------------------------------------
\* doPacketOut.

icmp4_packet_out(c) ==
  /\ icmp' = [icmp EXCEPT !.added = @ + 1]
  /\ Emit([protocol |-> ICMP, to |-> c.ip, data |-> icmp.data, added |-> icmp.added + 1])
  /\ UNCHANGED <<bindings, transaction, local_ip_addr>>

get_send_code(c) == c.want_to_send

icmp6_packet_out(c) ==
  /\ Emit(IF get_send_code(c) = ICMP_NEIGHBOR_SOLICITATION
          THEN [protocol |-> ICMP6, to |-> c.ip, target |-> local_ip_addr] ELSE Nothing)
  /\ UNCHANGED apps

\* Mutant: the state is not updated.
dhcp_out_stays(c, args) ==
  LET body == CASE transaction.state = "INIT" -> DISCOVER
                [] transaction.state = "REQUESTING" ->
                     REQUEST(transaction.offered_ip, transaction.server_ip)
                [] OTHER -> [type |-> "none"] IN
  /\ UNCHANGED transaction
  /\ Emit(Datagram(c.ip, args.src_port, args.dst_port, body))

dhcp_out(c, args) ==
  LET body == CASE transaction.state = "INIT" -> DISCOVER
                [] transaction.state = "REQUESTING" ->
                     REQUEST(transaction.offered_ip, transaction.server_ip)
                [] OTHER -> [type |-> "none"] IN
  /\ transaction' = [transaction EXCEPT !.state = IF @ = "INIT" THEN "SELECTING" ELSE @]
  /\ Emit(Datagram(c.ip, args.src_port, args.dst_port, body))

udp_test_out(c, args) ==
  /\ Emit(Datagram(c.ip, args.src_port, args.dst_port, "Received!"))
  /\ UNCHANGED transaction

udp_packet_out(c) ==
  /\ IF get_callback_from_connection(c.at) = {} THEN Emit(Nothing) /\ UNCHANGED transaction
     ELSE \E i \in get_callback_from_connection(c.at) :
            LET b == bindings[i] IN
            IF b.src_port = DHCP_CLIENT_PORT THEN dhcp_out(c, b.args) ELSE udp_test_out(c, b.args)
  /\ UNCHANGED <<bindings, icmp, local_ip_addr>>

dopacketout(c) ==
  CASE c.protocol = ICMP -> icmp4_packet_out(c)
    [] c.protocol = ICMP6 -> icmp6_packet_out(c)
    [] c.protocol = UDP -> udp_packet_out(c)

\* The first connection that can send from the head on: every packet
\* connection can, an HTTP connection may.
smews_send ==
  /\ rx = << >>
  /\ \E i \in DOMAIN connections :
       /\ \A j \in 1 .. i - 1 : connections[j].protocol = TCP
       /\ IF connections[i].protocol = TCP
          THEN /\ connections' = Append(After(i), connections[i])
               /\ UNCHANGED <<apps, due, sent, spurious>>
          ELSE dopacketout(connections[i]) /\ connections' = After(i)
  /\ UNCHANGED <<build, opened, rx, outside>>

smews_main_loop_step == smews_receive \/ smews_send

-----------------------------------------------------------------------------
\* The network.  A service that keeps one question at a time is not asked
\* again before it has answered.

OneAtATime(p) ==
  \/ Service(p) \in Bursty
  \/ /\ \A i \in DOMAIN rx : Service(rx[i]) # Service(p)
     /\ \A i \in DOMAIN due : due[i].service # Service(p)

Arrive(p) ==
  /\ OneAtATime(p)
  /\ rx' = Append(rx, p)
  /\ network' = network \ {p}
  /\ UNCHANGED <<build, connections, opened, apps, faults, heard, leases, due, sent, spurious>>

Duplicate(p) ==
  /\ faults.duplicated < MaxDuplicates /\ OneAtATime(p)
  /\ rx' = Append(rx, p)
  /\ faults' = [faults EXCEPT !.duplicated = @ + 1]
  /\ UNCHANGED <<build, connections, opened, apps, network, heard, leases, due, sent, spurious>>

Lose(p) ==
  /\ faults.lost < MaxLosses
  /\ network' = network \ {p}
  /\ faults' = [faults EXCEPT !.lost = @ + 1]
  /\ UNCHANGED <<build, connections, opened, apps, rx, heard, leases, due, sent, spurious>>

Message(s, type) ==
  [protocol |-> UDP, from |-> s.ip, sport |-> DHCP_SERVER_PORT, dport |-> DHCP_CLIENT_PORT,
   xid |-> transaction.xid, type |-> type, yiaddr |-> s.offers, server |-> s.ip,
   serverFirst |-> s.first]

\* A server answers each message once.  One that is not named by a REQUEST
\* forgets its offer; one that is acknowledges it, or refuses.
DhcpServer(s) ==
  \E m \in sent :
    /\ <<s.ip, m>> \notin heard
    /\ heard' = heard \cup {<<s.ip, m>>}
    /\ \/ /\ m.body = DISCOVER
          /\ network' = network \cup {Message(s, "OFFER")}
          /\ UNCHANGED leases
       \/ /\ m.body.type = "REQUEST" /\ m.body.server = s.ip
          /\ IF s.refuses
             THEN network' = network \cup {Message(s, "NAK")} /\ UNCHANGED leases
             ELSE /\ network' = network \cup {Message(s, "ACK")}
                  /\ leases' = leases \cup {m.body.yiaddr}
    /\ UNCHANGED <<build, connections, opened, apps, rx, faults, due, sent, spurious>>

-----------------------------------------------------------------------------
\* smews_init calls the init of each app.  The connection_info of a binding
\* is not set, except by dhcp_init, which asks for a first packet.

Listens ==
  LET S == {i \in DOMAIN build.apps : build.apps[i] \in {"dhcpclient", "udp_test"}} IN
  [n \in 1 .. Cardinality(S) |->
     build.apps[CHOOSE i \in S : Cardinality({j \in S : j <= i}) = n]]

dhcp_init(at) ==
  /\ connections = <<GpIp(at, UDP, "broadcast", 1)>>
  /\ due = <<[service |-> DHCP_CLIENT_PORT, answer |->
               Datagram("broadcast", DHCP_CLIENT_PORT, DHCP_SERVER_PORT, DISCOVER)]>>

Init ==
  /\ build \in Builds
  /\ \E at \in Addresses, garbage \in Addresses \cup {NULL} :
       /\ bindings = [i \in DOMAIN Listens |->
            [src_port |-> Port(Listens[i]),
             args |-> IF Listens[i] = "dhcpclient"
                      THEN Args(DHCP_CLIENT_PORT, DHCP_SERVER_PORT, at)
                      ELSE Args(0, 0, garbage)]]
       /\ IF Has("dhcpclient") THEN dhcp_init(at) ELSE connections = << >> /\ due = << >>
  /\ opened = 0
  /\ icmp = [data |-> 0, added |-> 0]
  /\ transaction = [state |-> "INIT", xid |-> "ours", offered_ip |-> "none", server_ip |-> "none"]
  /\ local_ip_addr = "configured"
  /\ rx = << >> /\ network = build.traffic /\ faults = [lost |-> 0, duplicated |-> 0]
  /\ heard = {} /\ leases = {} /\ sent = {} /\ spurious = {}

Network == \E p \in network : Arrive(p) \/ Duplicate(p) \/ Lose(p)
Next == smews_main_loop_step \/ OtherOpens \/ OtherEnds \/ Network
        \/ \E s \in build.servers : DhcpServer(s)

Spec == Init /\ [][Next]_vars
        /\ WF_vars(smews_main_loop_step)
        /\ WF_vars(\E p \in network : Arrive(p))
        /\ WF_vars(\E s \in build.servers : DhcpServer(s))

-----------------------------------------------------------------------------
\* Every packet that is sent answers a packet received: the service that was
\* asked writes it, to the sender, with the data and the checksum of that
\* question and not of another, and no question is answered twice; a packet
\* that is damaged, of another type, for another host or another transaction
\* has no answer.  What doPacketOut finds in the statics of icmpv4, in the
\* bindings of udp and in _current_transaction is still what doPacketIn left.
AnswersAreOwed == spurious = {}

\* And every question that got a connection is answered in the end, whatever
\* HTTP connections are opened and freed in between.
EveryQuestionAnswered == []<>(due = << >>)

\* The address committed at the end of the exchange is one that a server has
\* leased to this device: messages of other clients, offers and refusals do
\* not bind it.
BoundIsLeased == transaction.state = "BOUND" => local_ip_addr \in leases

\* What dhcpclient needs to get an address: it asks again for nothing.
CanBind == Has("dhcpclient") /\ faults.lost = 0 /\ \A s \in build.servers : ~s.refuses

\* Without losses and refusals the exchange ends with an address, in spite of
\* a second server, of the other traffic and of the connections that come and
\* go: nothing of it is retransmitted.
EventuallyBound == <>(CanBind => transaction.state = "BOUND")

=============================================================================

--------------------------- MODULE DatagramsProofs ---------------------------
(***************************************************************************)
(* However packets are lost, duplicated and reordered, the address that    *)
(* dhcpclient commits is one that a server has leased to this device, if   *)
(* no other message bears the identifier of its transaction; and every     *)
(* packet that is sent answers a packet received, if what is compiled      *)
(* together has one application of udp.                                    *)
(***************************************************************************)
EXTENDS Datagrams, SequenceTheorems, FiniteSetTheorems, TLAPS

\* The traffic of the other hosts: a DHCP message is for another transaction,
\* and what is not for the DHCP client does not come from the port of servers.
OthersTraffic ==
  \A b \in Builds : \A p \in b.traffic :
    p.protocol = UDP => IF p.dport = DHCP_CLIENT_PORT THEN p.xid # "ours"
                        ELSE p.sport # DHCP_SERVER_PORT

Leased == transaction.state \in {"REQUESTING", "BOUND"} /\ transaction.offered_ip \in leases

\* An acknowledgment of our transaction is on its way once the address that
\* was offered is leased.
Harmless(p) ==
  p.protocol = UDP => IF p.dport = DHCP_CLIENT_PORT
                      THEN p.xid = "ours" /\ p.type = "ACK" => Leased
                      ELSE p.sport # DHCP_SERVER_PORT

PacketsInv == \E V : rx \in Seq(V) /\ network \subseteq V /\ \A p \in V : Harmless(p)

\* The binding of dhcpclient alone writes to the port of servers.
BindingsInv ==
  \A i \in DOMAIN bindings :
    /\ DOMAIN bindings[i] = {"src_port", "args"}
    /\ bindings[i].src_port # DHCP_CLIENT_PORT => bindings[i].args.dst_port # DHCP_SERVER_PORT

\* A REQUEST names the address that was offered, which does not change any
\* more.
TransactionInv ==
  /\ DOMAIN transaction = {"state", "xid", "offered_ip", "server_ip"}
  /\ transaction.xid = "ours"
  /\ \A m \in sent : m.body.type = "REQUEST" =>
       transaction.state \in {"REQUESTING", "BOUND"} /\ m.body.yiaddr = transaction.offered_ip

\* Each connection is of a protocol that the device speaks.
ProtocolsInv ==
  \E W : connections \in Seq(W) /\ \A c \in W : c.protocol \in {ICMP, ICMP6, UDP, TCP}

IInv == PacketsInv /\ BindingsInv /\ TransactionInv /\ BoundIsLeased

----------------------------------------------------------------------------
LEMMA InitInv ==
  ASSUME OthersTraffic, Init
  PROVE  IInv
<1>1. PacketsInv
  <2>1. rx = << >> /\ network = build.traffic /\ build \in Builds
    BY DEF Init
  <2>2. \A p \in network : Harmless(p)
    BY <2>1 DEF OthersTraffic, Harmless
  <2>3. rx \in Seq(network)
    BY <2>1
  <2>4. PICK V : V = network
    OBVIOUS
  <2> QED
    BY <2>2, <2>3, <2>4 DEF PacketsInv
<1>2. BindingsInv
  <2>1. PICK at \in Addresses, garbage \in Addresses \cup {NULL} :
          bindings = [i \in DOMAIN Listens |->
            [src_port |-> Port(Listens[i]),
             args |-> IF Listens[i] = "dhcpclient"
                      THEN Args(DHCP_CLIENT_PORT, DHCP_SERVER_PORT, at)
                      ELSE Args(0, 0, garbage)]]
    BY DEF Init
  <2>2. ASSUME NEW i \in DOMAIN bindings
        PROVE  /\ DOMAIN bindings[i] = {"src_port", "args"}
               /\ bindings[i].src_port # DHCP_CLIENT_PORT => bindings[i].args.dst_port # DHCP_SERVER_PORT
    <3> HIDE DEF Listens
    <3>1. bindings[i] = [src_port |-> Port(Listens[i]),
                         args |-> IF Listens[i] = "dhcpclient"
                                  THEN Args(DHCP_CLIENT_PORT, DHCP_SERVER_PORT, at)
                                  ELSE Args(0, 0, garbage)]
      BY <2>1
    <3>2. Args(0, 0, garbage).dst_port # DHCP_SERVER_PORT
      BY DEF Args, DHCP_SERVER_PORT
    <3> QED
      BY <3>1, <3>2 DEF Port
  <2> QED
    BY <2>2 DEF BindingsInv
<1>3. TransactionInv /\ BoundIsLeased
  BY DEF Init, TransactionInv, BoundIsLeased
<1> QED
  BY <1>1, <1>2, <1>3 DEF IInv

\* Steps that leave the applications and what was sent alone.
LEMMA OtherStep ==
  ASSUME IInv, UNCHANGED <<bindings, transaction, local_ip_addr, leases, sent>>,
         \/ UNCHANGED <<rx, network>>
         \/ \E p \in network : /\ rx' = Append(rx, p) \/ rx' = rx
                               /\ network' = network \ {p} \/ network' = network
         \/ rx # << >> /\ rx' = Tail(rx) /\ network' = network
  PROVE  IInv'
<1>1. PICK V : rx \in Seq(V) /\ network \subseteq V /\ \A p \in V : Harmless(p)
  BY DEF IInv, PacketsInv
<1>2. \A p \in V : Harmless(p)'
  BY <1>1 DEF Harmless, Leased
<1>3. rx' \in Seq(V) /\ network' \subseteq V
  <2>1. CASE UNCHANGED <<rx, network>>
    BY <1>1, <2>1
  <2>2. CASE \E p \in network : /\ rx' = Append(rx, p) \/ rx' = rx
                                /\ network' = network \ {p} \/ network' = network
    BY <1>1, <2>2, AppendProperties
  <2>3. CASE rx # << >> /\ rx' = Tail(rx) /\ network' = network
    BY <1>1, <2>3
  <2> QED
    BY <2>1, <2>2, <2>3
<1>4. BindingsInv' /\ TransactionInv' /\ BoundIsLeased'
  BY DEF IInv, BindingsInv, TransactionInv, BoundIsLeased
<1> QED
  BY <1>2, <1>3, <1>4 DEF IInv, PacketsInv

\* A server answers: an acknowledgment leases the address that it names.
LEMMA ServerStep ==
  ASSUME IInv, NEW s \in build.servers, DhcpServer(s)
  PROVE  IInv'
<1>1. PICK V : rx \in Seq(V) /\ network \subseteq V /\ \A p \in V : Harmless(p)
  BY DEF IInv, PacketsInv
<1>2. UNCHANGED <<bindings, transaction, local_ip_addr, rx, sent>>
  BY DEF DhcpServer, apps
<1>3. PICK type \in {"OFFER", "NAK", "ACK"} :
        /\ network' = network \cup {Message(s, type)}
        /\ leases \subseteq leases'
        /\ type = "ACK" => \E m \in sent : m.body.type = "REQUEST" /\ m.body.yiaddr \in leases'
  BY DEF DhcpServer
<1>4. PICK U : U = V \cup {Message(s, type)}
  OBVIOUS
<1>5. Leased => Leased'
  BY <1>2, <1>3 DEF Leased
<1>6. \A p \in V : Harmless(p)'
  BY <1>1, <1>5 DEF Harmless
<1>7. Harmless(Message(s, type))'
  <2> DEFINE p == Message(s, type)
  <2>1. p.dport = DHCP_CLIENT_PORT /\ p.type = type
    BY DEF Message
  <2>2. type = "ACK" => Leased'
    BY <1>2, <1>3 DEF IInv, TransactionInv, Leased
  <2>3. p' = p
    BY <1>2 DEF Message
  <2> HIDE DEF p
  <2>4. Harmless(p)'
    BY <2>1, <2>2, <2>3 DEF Harmless
  <2> QED
    BY <2>4 DEF p
<1>8. \A p \in U : Harmless(p)'
  <2>1. Message(s, type)' = Message(s, type)
    BY <1>2 DEF Message
  <2> QED
    BY <1>4, <1>6, <1>7, <2>1
<1>9. rx' \in Seq(U) /\ network' \subseteq U
  BY <1>1, <1>2, <1>3, <1>4, SeqMonotonic
<1>10. PacketsInv'
  BY <1>8, <1>9 DEF PacketsInv
<1>11. BindingsInv' /\ TransactionInv' /\ BoundIsLeased'
  BY <1>2, <1>3 DEF IInv, BindingsInv, TransactionInv, BoundIsLeased
<1> QED
  BY <1>10, <1>11 DEF IInv

\* The packet that is received.
LEMMA HeadHarmless ==
  ASSUME IInv, rx # << >>
  PROVE  Harmless(Head(rx))
BY DEF IInv, PacketsInv

\* What is left of the packets after a step that receives one.
LEMMA PacketsStep ==
  ASSUME IInv, rx # << >>, rx' = Tail(rx), network' = network, Leased => Leased'
  PROVE  PacketsInv'
<1>1. PICK V : rx \in Seq(V) /\ network \subseteq V /\ \A p \in V : Harmless(p)
  BY DEF IInv, PacketsInv
<1>2. \A p \in V : Harmless(p)'
  BY <1>1 DEF Harmless
<1>3. rx' \in Seq(V) /\ network' \subseteq V
  BY <1>1
<1> QED
  BY <1>2, <1>3 DEF PacketsInv

\* The arguments of a binding are stored.
LEMMA BindingStored ==
  ASSUME BindingsInv, NEW i \in DOMAIN bindings, NEW src, NEW dst, NEW at,
         bindings' = [bindings EXCEPT ![i].args = Args(src, dst, at)],
         bindings[i].src_port = DHCP_CLIENT_PORT \/ dst # DHCP_SERVER_PORT
  PROVE  BindingsInv'
<1> DEFINE b == [bindings[i] EXCEPT !.args = Args(src, dst, at)]
<1>1. DOMAIN b = {"src_port", "args"} /\ b.src_port = bindings[i].src_port /\ b.args.dst_port = dst
  BY DEF BindingsInv, Args
<1>2. bindings' = [bindings EXCEPT ![i] = b]
  OBVIOUS
<1> HIDE DEF b
<1>3. DOMAIN bindings' = DOMAIN bindings /\ bindings'[i] = b
      /\ \A j \in DOMAIN bindings : j # i => bindings'[j] = bindings[j]
  BY <1>2
<1> QED
  BY <1>1, <1>3 DEF BindingsInv

LEMMA DhcpIn ==
  ASSUME IInv, NEW p, Harmless(p), p.protocol = UDP, p.dport = DHCP_CLIENT_PORT,
         NEW i \in DOMAIN bindings, bindings[i].src_port = DHCP_CLIENT_PORT,
         NEW at, dhcp_in(p, i, at), UNCHANGED <<leases, sent>>
  PROVE  /\ Leased => Leased'
         /\ BindingsInv' /\ TransactionInv' /\ BoundIsLeased'
<1> DEFINE waiting == transaction.state \in {"SELECTING", "REQUESTING"}
           ours == waiting /\ p.xid = transaction.xid
           offer == ours /\ p.type = "OFFER" /\ transaction.state = "SELECTING"
           ack == ours /\ p.type = "ACK" /\ transaction.state = "REQUESTING"
           server == IF offer \/ ack \/ (ours /\ p.serverFirst) THEN p.server
                     ELSE transaction.server_ip
<1>1. /\ transaction' = [transaction EXCEPT
           !.state = IF offer THEN "REQUESTING" ELSE IF ack THEN "BOUND" ELSE transaction.state,
           !.offered_ip = IF offer THEN p.yiaddr ELSE transaction.offered_ip,
           !.server_ip = server]
      /\ local_ip_addr' = IF ack THEN transaction.offered_ip ELSE local_ip_addr
      /\ \E src, dst : bindings' = [bindings EXCEPT ![i].args = Args(src, dst, at)]
  BY DEF dhcp_in, dhcp_commit_ip
<1>2. BindingsInv'
  <2> HIDE DEF waiting, ours, offer, ack, server
  <2>1. PICK src, dst : bindings' = [bindings EXCEPT ![i].args = Args(src, dst, at)]
    BY <1>1
  <2>2. BindingsInv
    BY DEF IInv
  <2> QED
    BY <2>1, <2>2, BindingStored
<1> HIDE DEF server
<1>3. DOMAIN transaction = {"state", "xid", "offered_ip", "server_ip"}
  BY DEF IInv, TransactionInv
<1>4. /\ DOMAIN transaction' = DOMAIN transaction /\ transaction'.xid = transaction.xid
      /\ transaction'.state = IF offer THEN "REQUESTING" ELSE IF ack THEN "BOUND" ELSE transaction.state
      /\ transaction'.offered_ip = IF offer THEN p.yiaddr ELSE transaction.offered_ip
  <2> DEFINE st == IF offer THEN "REQUESTING" ELSE IF ack THEN "BOUND" ELSE transaction.state
             ip == IF offer THEN p.yiaddr ELSE transaction.offered_ip
  <2> HIDE DEF offer, ack
  <2>1. transaction' = [transaction EXCEPT !.state = st, !.offered_ip = ip, !.server_ip = server]
    BY <1>1
  <2> HIDE DEF st, ip
  <2>2. DOMAIN transaction' = DOMAIN transaction /\ transaction'.xid = transaction.xid
        /\ transaction'.state = st /\ transaction'.offered_ip = ip
    BY <1>3, <2>1
  <2> QED
    BY <2>2 DEF st, ip
<1>5. ack => Leased
  BY DEF Harmless, IInv, TransactionInv
<1>6. Leased => Leased'
  BY <1>4 DEF Leased
<1>7. TransactionInv'
  <2>1. ASSUME NEW m \in sent, m.body.type = "REQUEST"
        PROVE  transaction'.state \in {"REQUESTING", "BOUND"} /\ m.body.yiaddr = transaction'.offered_ip
    BY <1>4, <2>1 DEF IInv, TransactionInv
  <2> QED
    BY <1>3, <1>4, <2>1 DEF IInv, TransactionInv
<1>8. BoundIsLeased'
  <2>1. CASE ack
    BY <1>1, <1>5, <2>1 DEF BoundIsLeased, Leased
  <2>2. CASE ~ack
    BY <1>1, <1>4, <2>2 DEF IInv, BoundIsLeased
  <2> QED
    BY <2>1, <2>2
<1> QED
  BY <1>2, <1>6, <1>7, <1>8

\* A packet of another service leaves dhcpclient alone.
LEMMA ServiceIn ==
  ASSUME IInv, NEW p, Harmless(p), p.protocol \in Protocols, NEW at, dopacketin(p, at),
         UNCHANGED <<leases, sent>>
  PROVE  /\ Leased => Leased'
         /\ BindingsInv' /\ TransactionInv' /\ BoundIsLeased'
<1>1. CASE UNCHANGED <<bindings, transaction, local_ip_addr>>
  BY <1>1 DEF IInv, Leased, BindingsInv, TransactionInv, BoundIsLeased
<1>2. CASE p.protocol = UDP /\ udp_packet_in(p, at)
  <2>1. CASE get_callback(p.dport) = {}
    BY <1>1, <1>2, <2>1 DEF udp_packet_in, apps
  <2>2. CASE get_callback(p.dport) # {}
    <3>1. PICK i \in get_callback(p.dport) :
            IF p.dport = DHCP_CLIENT_PORT THEN dhcp_in(p, i, at) ELSE udp_test_in(p, i, at)
      BY <1>2, <2>2 DEF udp_packet_in
    <3>2. i \in DOMAIN bindings /\ bindings[i].src_port = p.dport
      BY <3>1 DEF get_callback, FirstBinding
    <3>3. CASE p.dport = DHCP_CLIENT_PORT
      BY <1>2, <3>1, <3>2, <3>3, DhcpIn
    <3>4. CASE p.dport # DHCP_CLIENT_PORT
      <4>1. p.sport # DHCP_SERVER_PORT
        BY <1>2, <3>4 DEF Harmless
      <4>2. /\ bindings' = [bindings EXCEPT ![i].args = Args(p.dport, p.sport, at)]
            /\ UNCHANGED <<transaction, local_ip_addr>>
        BY <3>1, <3>4 DEF udp_test_in
      <4>3. BindingsInv'
        BY <3>2, <4>1, <4>2, BindingStored DEF IInv
      <4> QED
        BY <4>2, <4>3 DEF IInv, Leased, TransactionInv, BoundIsLeased
    <3> QED
      BY <3>3, <3>4
  <2> QED
    BY <2>1, <2>2
<1>3. p.protocol \in {ICMP, ICMP6, UDP}
  BY DEF Protocols
<1> QED
  BY <1>1, <1>2, <1>3 DEF dopacketin, icmp4_packet_in, icmp6_packet_in, apps, ICMP, ICMP6, UDP

LEMMA ReceiveStep ==
  ASSUME IInv, smews_receive
  PROVE  IInv'
<1>1. rx # << >> /\ rx' = Tail(rx) /\ UNCHANGED <<network, leases, sent>>
  BY DEF smews_receive, outside
<1>2. CASE UNCHANGED apps
  BY <1>1, <1>2, OtherStep DEF apps
<1>3. CASE ~UNCHANGED apps
  <2>1. Head(rx).protocol \in Protocols /\ \E at \in Free : dopacketin(Head(rx), at)
    BY <1>3 DEF smews_receive, smews_gpip_get_output_handler
  <2>2. PICK p : p = Head(rx)
    OBVIOUS
  <2>3. /\ Leased => Leased'
        /\ BindingsInv' /\ TransactionInv' /\ BoundIsLeased'
    BY <1>1, <2>1, <2>2, HeadHarmless, ServiceIn
  <2> QED
    BY <1>1, <2>3, PacketsStep DEF IInv
<1> QED
  BY <1>2, <1>3

\* What dhcpclient sends: a REQUEST only of the address that was offered.
LEMMA DhcpOut ==
  ASSUME IInv, NEW c, NEW args, dhcp_out(c, args)
  PROVE  (leases' = leases /\ Leased => Leased') /\ TransactionInv'
         /\ (transaction'.state = "BOUND" => transaction.state = "BOUND")
<1> DEFINE body == CASE transaction.state = "INIT" -> DISCOVER
                     [] transaction.state = "REQUESTING" ->
                          REQUEST(transaction.offered_ip, transaction.server_ip)
                     [] OTHER -> [type |-> "none"]
           packet == Datagram(c.ip, args.src_port, args.dst_port, body)
<1>1. /\ transaction' = [transaction EXCEPT !.state = IF transaction.state = "INIT" THEN "SELECTING"
                                                      ELSE transaction.state]
      /\ sent' \subseteq sent \cup {packet}
  BY DEF dhcp_out, Emit
<1>2. packet.body = body
  BY DEF Datagram
<1>3. body.type = "REQUEST" => /\ transaction.state = "REQUESTING"
                               /\ body.yiaddr = transaction.offered_ip
  <2>1. CASE transaction.state = "INIT"
    BY <2>1 DEF DISCOVER
  <2>2. CASE transaction.state = "REQUESTING"
    BY <2>2 DEF REQUEST
  <2>3. CASE transaction.state \notin {"INIT", "REQUESTING"}
    <3>1. body = [type |-> "none"]
      BY <2>3
    <3> QED
      BY <3>1
  <2> QED
    BY <2>1, <2>2, <2>3
<1>4. /\ DOMAIN transaction' = DOMAIN transaction /\ transaction'.xid = transaction.xid
      /\ transaction'.offered_ip = transaction.offered_ip
      /\ transaction'.state = IF transaction.state = "INIT" THEN "SELECTING" ELSE transaction.state
  BY <1>1 DEF IInv, TransactionInv
<1> HIDE DEF body, packet
<1>5. ASSUME NEW m \in sent', m.body.type = "REQUEST"
      PROVE  transaction'.state \in {"REQUESTING", "BOUND"} /\ m.body.yiaddr = transaction'.offered_ip
  <2>1. CASE m \in sent
    BY <1>4, <1>5, <2>1 DEF IInv, TransactionInv
  <2>2. CASE m = packet
    BY <1>2, <1>3, <1>4, <1>5, <2>2
  <2> QED
    BY <1>1, <2>1, <2>2
<1> QED
  BY <1>4, <1>5 DEF IInv, TransactionInv, Leased

\* What doPacketOut sends: dhcpclient alone writes to the port of servers.
LEMMA SendStep ==
  ASSUME IInv, ProtocolsInv, smews_send
  PROVE  IInv'
<1>1. UNCHANGED <<rx, network, leases>>
  BY DEF smews_send, outside
<1>2. CASE UNCHANGED <<bindings, transaction, local_ip_addr, sent>>
  BY <1>1, <1>2, OtherStep
<1>3. CASE ~UNCHANGED <<bindings, transaction, local_ip_addr, sent>>
  <2>1. PICK i \in DOMAIN connections : connections[i].protocol # TCP /\ dopacketout(connections[i])
    BY <1>3 DEF smews_send, apps
  <2> DEFINE c == connections[i]
  <2>2. dopacketout(c) /\ c.protocol \in {ICMP, ICMP6, UDP}
    <3>1. PICK W : connections \in Seq(W) /\ \A d \in W : d.protocol \in {ICMP, ICMP6, UDP, TCP}
      BY DEF ProtocolsInv
    <3>2. c \in W
      BY <2>1, <3>1, ElementOfSeq
    <3> QED
      BY <2>1, <3>1, <3>2
  <2> HIDE DEF c
  <2>3. (c.protocol = UDP /\ udp_packet_out(c)) \/ icmp4_packet_out(c) \/ icmp6_packet_out(c)
    BY <2>2 DEF dopacketout
  <2>4. ~icmp4_packet_out(c)
    BY <1>3 DEF icmp4_packet_out, Emit, UDP, ICMP
  <2>5. ~icmp6_packet_out(c)
    <3>1. ASSUME NEW packet, packet.protocol # UDP, Emit(packet)
          PROVE  sent' = sent
      BY <3>1 DEF Emit
    <3>2. Nothing.protocol # UDP
      BY DEF Nothing, NULL, UDP
    <3>3. [protocol |-> ICMP6, to |-> c.ip, target |-> local_ip_addr].protocol # UDP
      BY DEF ICMP6, UDP
    <3> QED
      BY <1>3, <3>1, <3>2, <3>3 DEF icmp6_packet_out, apps
  <2>6. /\ UNCHANGED <<bindings, local_ip_addr>>
        /\ \E k \in DOMAIN bindings :
                IF bindings[k].src_port = DHCP_CLIENT_PORT THEN dhcp_out(c, bindings[k].args)
                ELSE udp_test_out(c, bindings[k].args)
    <3>1. get_callback_from_connection(c.at) # {}
      <4>1. Nothing.protocol # UDP
        BY DEF Nothing, NULL, UDP
      <4> QED
        BY <1>3, <2>3, <2>4, <2>5, <4>1 DEF udp_packet_out, Emit
    <3> QED
      BY <2>3, <2>4, <2>5, <3>1 DEF udp_packet_out, get_callback_from_connection, FirstBinding
  <2>7. PICK k \in DOMAIN bindings :
          IF bindings[k].src_port = DHCP_CLIENT_PORT THEN dhcp_out(c, bindings[k].args)
          ELSE udp_test_out(c, bindings[k].args)
    BY <2>6
  <2>8. CASE bindings[k].src_port = DHCP_CLIENT_PORT
    <3>1. (Leased => Leased') /\ TransactionInv' /\ (transaction'.state = "BOUND" => transaction.state = "BOUND")
      BY <1>1, <2>7, <2>8, DhcpOut
    <3>2. PacketsInv'
      <4>1. PICK V : rx \in Seq(V) /\ network \subseteq V /\ \A p \in V : Harmless(p)
        BY DEF IInv, PacketsInv
      <4>2. \A p \in V : Harmless(p)'
        BY <3>1, <4>1 DEF Harmless
      <4> QED
        BY <1>1, <4>1, <4>2 DEF PacketsInv
    <3> QED
      BY <1>1, <2>6, <3>1, <3>2 DEF IInv, BindingsInv, BoundIsLeased
  <2>9. CASE bindings[k].src_port # DHCP_CLIENT_PORT
    <3>1. bindings[k].args.dst_port # DHCP_SERVER_PORT
      BY <2>9 DEF IInv, BindingsInv
    <3>2. Datagram(c.ip, bindings[k].args.src_port, bindings[k].args.dst_port, "Received!").dport
            # DHCP_SERVER_PORT
      BY <3>1 DEF Datagram
    <3>3. UNCHANGED <<transaction, sent>>
      BY <2>7, <2>9, <3>2 DEF udp_test_out, Emit
    <3> QED
      BY <1>2, <2>6, <3>3
  <2> QED
    BY <2>8, <2>9
<1> QED
  BY <1>2, <1>3

LEMMA ProtocolsInit ==
  ASSUME Init
  PROVE  ProtocolsInv
<1>1. CASE connections = << >>
  <2>1. connections \in Seq({}) /\ \A c \in {} : c.protocol \in {ICMP, ICMP6, UDP, TCP}
    BY <1>1
  <2> QED
    BY <2>1 DEF ProtocolsInv
<1>2. ASSUME NEW at, connections = <<GpIp(at, UDP, "broadcast", 1)>>
      PROVE  ProtocolsInv
  <2> DEFINE W == {GpIp(at, UDP, "broadcast", 1)}
  <2>1. connections \in Seq(W) /\ \A c \in W : c.protocol \in {ICMP, ICMP6, UDP, TCP}
    BY <1>2 DEF GpIp
  <2> HIDE DEF W
  <2> QED
    BY <2>1 DEF ProtocolsInv
<1> QED
  BY <1>1, <1>2 DEF Init, dhcp_init

\* A connection is added.
LEMMA ProtocolAdded ==
  ASSUME ProtocolsInv, NEW c, c.protocol \in {ICMP, ICMP6, UDP, TCP},
         connections' = Append(connections, c)
  PROVE  ProtocolsInv'
<1>1. PICK W : connections \in Seq(W) /\ \A d \in W : d.protocol \in {ICMP, ICMP6, UDP, TCP}
  BY DEF ProtocolsInv
<1>2. PICK X : X = W \cup {c}
  OBVIOUS
<1>3. connections \in Seq(X) /\ c \in X
  BY <1>1, <1>2, SeqMonotonic
<1>4. connections' \in Seq(X)
  BY <1>3, AppendProperties
<1>5. \A d \in X : d.protocol \in {ICMP, ICMP6, UDP, TCP}
  BY <1>1, <1>2
<1> QED
  BY <1>4, <1>5 DEF ProtocolsInv

LEMMA ProtocolsStep ==
  ASSUME ProtocolsInv, [Next]_vars
  PROVE  ProtocolsInv'
<1>1. CASE connections' = connections
  BY <1>1 DEF ProtocolsInv
<1>2. PICK W : connections \in Seq(W) /\ \A c \in W : c.protocol \in {ICMP, ICMP6, UDP, TCP}
  BY DEF ProtocolsInv
<1>3. ASSUME NEW i \in DOMAIN connections
      PROVE  /\ connections[i] \in W /\ After(i) \in Seq(W)
             /\ Append(After(i), connections[i]) \in Seq(W)
  <2>1. connections[i] \in W
    BY <1>2, ElementOfSeq
  <2>2. Len(connections) \in Nat /\ i \in 1 .. Len(connections)
    BY <1>2
  <2>3. SubSeq(connections, i + 1, Len(connections)) \in Seq(W)
    BY <1>2, <2>2, SubSeqProperties
  <2>4. SubSeq(connections, 1, i - 1) \in Seq(W)
    BY <1>2, <2>2, SubSeqProperties
  <2>5. After(i) \in Seq(W)
    BY <2>3, <2>4, ConcatProperties DEF After
  <2> QED
    BY <2>1, <2>5, AppendProperties
<1>4. CASE smews_receive /\ connections' # connections
  <2>1. Head(rx).protocol \in Protocols /\ \E at \in Free : dopacketin(Head(rx), at)
    BY <1>4 DEF smews_receive, smews_gpip_get_output_handler
  <2>2. PICK p, at : p.protocol \in Protocols /\ dopacketin(p, at)
    BY <2>1
  <2>3. p.protocol \in {ICMP, ICMP6, UDP}
    BY <2>2 DEF Protocols
  <2>4. \E want : Answered(at, p, want)
    BY <2>2, <2>3 DEF dopacketin, icmp4_packet_in, icmp6_packet_in, udp_packet_in, dhcp_in, udp_test_in
  <2>5. PICK want : connections' = Append(connections, GpIp(at, p.protocol, p.from, want))
    BY <1>4, <2>4 DEF Answered
  <2>6. GpIp(at, p.protocol, p.from, want).protocol = p.protocol
    BY DEF GpIp
  <2> QED
    BY <2>3, <2>5, <2>6, ProtocolAdded
<1>5. CASE smews_send
  <2>1. PICK i \in DOMAIN connections :
          connections' = After(i) \/ connections' = Append(After(i), connections[i])
    BY <1>5 DEF smews_send
  <2>2. connections' \in Seq(W)
    BY <1>3, <2>1
  <2> QED
    BY <1>2, <2>2 DEF ProtocolsInv
<1>6. CASE OtherOpens
  <2>1. PICK at : connections' = Append(connections, [at |-> at, protocol |-> TCP])
    BY <1>6 DEF OtherOpens
  <2> QED
    BY <2>1, ProtocolAdded
<1>7. CASE OtherEnds
  <2>1. PICK i \in DOMAIN connections : connections' = After(i)
    BY <1>7 DEF OtherEnds
  <2>2. connections' \in Seq(W)
    BY <1>3, <2>1
  <2> QED
    BY <1>2, <2>2 DEF ProtocolsInv
<1>8. CASE Network \/ (\E s \in build.servers : DhcpServer(s)) \/ UNCHANGED vars
  BY <1>1, <1>8 DEF Network, Arrive, Duplicate, Lose, DhcpServer, vars
<1> QED
  BY <1>1, <1>4, <1>5, <1>6, <1>7, <1>8 DEF Next, smews_main_loop_step

LEMMA NextInv ==
  ASSUME IInv, ProtocolsInv, [Next]_vars
  PROVE  IInv'
<1>1. CASE smews_receive
  BY <1>1, ReceiveStep
<1>2. CASE smews_send
  BY <1>2, SendStep
<1>3. CASE OtherOpens
  BY <1>3, OtherStep DEF OtherOpens, apps, outside
<1>4. CASE OtherEnds
  BY <1>4, OtherStep DEF OtherEnds, apps, outside
<1>5. CASE Network
  <2>1. PICK p \in network : Arrive(p) \/ Duplicate(p) \/ Lose(p)
    BY <1>5 DEF Network
  <2> QED
    BY <2>1, OtherStep DEF Arrive, Duplicate, Lose, apps
<1>6. ASSUME NEW s \in build.servers, DhcpServer(s)
      PROVE  IInv'
  BY <1>6, ServerStep
<1>7. CASE UNCHANGED vars
  BY <1>7, OtherStep DEF vars, apps, outside
<1> QED
  BY <1>1, <1>2, <1>3, <1>4, <1>5, <1>6, <1>7 DEF Next, smews_main_loop_step

\* If no message but those of the DHCP servers that are asked bears the
\* identifier of the transaction, the address that dhcpclient commits is one
\* that a server has leased to this device: for any applications, traffic,
\* servers and heap, and whatever messages are lost, duplicated and received
\* out of order.
THEOREM DatagramsBoundIsLeased == OthersTraffic => (Spec => []BoundIsLeased)
<1> SUFFICES ASSUME OthersTraffic PROVE Spec => []BoundIsLeased
  OBVIOUS
<1>1. Init => IInv /\ ProtocolsInv
  BY InitInv, ProtocolsInit
<1>2. IInv /\ ProtocolsInv /\ [Next]_vars => IInv' /\ ProtocolsInv'
  BY NextInv, ProtocolsStep
<1>3. IInv => BoundIsLeased
  BY DEF IInv
<1> QED
  BY <1>1, <1>2, <1>3, PTL DEF Spec

----------------------------------------------------------------------------
\* Each of the waiting I has an entry of d of its own.
Matching(I, w, d) ==
  \E f \in [I -> DOMAIN d] :
    /\ \A i, j \in I : f[i] = f[j] => i = j
    /\ \A i \in I : d[f[i]] = w[i]

\* The waiting have other names.
LEMMA MatchingRenamed ==
  ASSUME NEW I, NEW w, NEW d, Matching(I, w, d),
         NEW J, NEW v, NEW g \in [J -> I], \A i, j \in J : g[i] = g[j] => i = j,
         \A j \in J : v[j] = w[g[j]]
  PROVE  Matching(J, v, d)
<1>1. PICK f \in [I -> DOMAIN d] : /\ \A i, j \in I : f[i] = f[j] => i = j
                                   /\ \A i \in I : d[f[i]] = w[i]
  BY DEF Matching
<1>2. PICK e : e = [j \in J |-> f[g[j]]]
  OBVIOUS
<1>3. e \in [J -> DOMAIN d]
  BY <1>1, <1>2
<1>4. \A i, j \in J : e[i] = e[j] => i = j
  BY <1>1, <1>2
<1>5. \A j \in J : d[e[j]] = v[j]
  BY <1>1, <1>2
<1> QED
  BY <1>3, <1>4, <1>5 DEF Matching

\* One more waits, for an entry that is added.
LEMMA MatchingAdded ==
  ASSUME NEW I, NEW w, NEW D, NEW d \in Seq(D), Matching(I, w, d), NEW x \in D,
         NEW n, n \notin I, NEW v, v[n] = x, \A i \in I : v[i] = w[i]
  PROVE  Matching(I \cup {n}, v, Append(d, x))
<1>1. PICK f \in [I -> DOMAIN d] : /\ \A i, j \in I : f[i] = f[j] => i = j
                                   /\ \A i \in I : d[f[i]] = w[i]
  BY DEF Matching
<1>2. PICK e : e = [i \in I \cup {n} |-> IF i = n THEN Len(d) + 1 ELSE f[i]]
  OBVIOUS
<1>3. PICK q : q = Append(d, x)
  OBVIOUS
<1>4. DOMAIN d = 1 .. Len(d) /\ DOMAIN q = 1 .. Len(d) + 1 /\ Len(d) \in Nat
      /\ q[Len(d) + 1] = x /\ \A i \in 1 .. Len(d) : q[i] = d[i]
  BY <1>3
<1>5. e \in [I \cup {n} -> DOMAIN q]
  BY <1>1, <1>2, <1>4
<1>6. \A i, j \in I \cup {n} : e[i] = e[j] => i = j
  <2>1. \A i \in I : e[i] = f[i] /\ e[i] \in 1 .. Len(d)
    BY <1>1, <1>2, <1>4
  <2>2. e[n] = Len(d) + 1
    BY <1>2
  <2>3. \A i \in I : e[i] # e[n]
    BY <2>1, <2>2, <1>4
  <2> QED
    BY <1>1, <2>1, <2>3
<1>7. \A i \in I \cup {n} : q[e[i]] = v[i]
  BY <1>1, <1>2, <1>4
<1>8. Matching(I \cup {n}, v, q)
  BY <1>5, <1>6, <1>7 DEF Matching
<1> QED
  BY <1>3, <1>8

\* What is left of a sequence.
LEMMA Removed ==
  ASSUME NEW D, NEW d \in Seq(D), NEW k \in DOMAIN d
  PROVE  /\ RemoveAt(d, k) \in Seq(D)
         /\ Len(RemoveAt(d, k)) = Len(d) - 1
         /\ \A i \in 1 .. Len(d) - 1 : RemoveAt(d, k)[i] = IF i < k THEN d[i] ELSE d[i + 1]
<1>1. PICK s : s = SubSeq(d, 1, k - 1)
  OBVIOUS
<1>2. PICK u : u = SubSeq(d, k + 1, Len(d))
  OBVIOUS
<1>3. Len(d) \in Nat /\ k \in 1 .. Len(d) /\ \A i \in 1 .. Len(d) : d[i] \in D
  OBVIOUS
<1>4. s \in Seq(D) /\ Len(s) = k - 1 /\ \A i \in 1 .. k - 1 : s[i] = d[i]
  <2>1. k - 1 \in Int /\ \A i \in 1 .. k - 1 : d[i] \in D
    BY <1>3
  <2>2. s \in Seq(D) /\ Len(s) = (IF 1 <= k - 1 THEN k - 1 - 1 + 1 ELSE 0)
        /\ \A i \in 1 .. k - 1 - 1 + 1 : s[i] = d[1 + i - 1]
    BY <1>1, <2>1, SubSeqProperties
  <2> QED
    BY <1>3, <2>2
<1>5. u \in Seq(D) /\ Len(u) = Len(d) - k /\ \A i \in 1 .. Len(d) - k : u[i] = d[k + i]
  <2>1. k + 1 \in Int /\ Len(d) \in Int /\ \A i \in k + 1 .. Len(d) : d[i] \in D
    BY <1>3
  <2>2. u \in Seq(D) /\ Len(u) = (IF k + 1 <= Len(d) THEN Len(d) - (k + 1) + 1 ELSE 0)
        /\ \A i \in 1 .. Len(d) - (k + 1) + 1 : u[i] = d[(k + 1) + i - 1]
    BY <1>2, <2>1, SubSeqProperties
  <2> QED
    BY <1>3, <2>2
<1>6. RemoveAt(d, k) = s \o u
  BY <1>1, <1>2 DEF RemoveAt
<1>7. /\ s \o u \in Seq(D) /\ Len(s \o u) = Len(s) + Len(u)
      /\ \A i \in 1 .. Len(s) + Len(u) : (s \o u)[i] = IF i <= Len(s) THEN s[i] ELSE u[i - Len(s)]
  BY <1>4, <1>5, ConcatProperties
<1>8. PICK r : r = s \o u
  OBVIOUS
<1>9. /\ r \in Seq(D) /\ Len(r) = Len(s) + Len(u)
      /\ \A i \in 1 .. Len(s) + Len(u) : r[i] = IF i <= Len(s) THEN s[i] ELSE u[i - Len(s)]
  BY <1>7, <1>8, Zenon
<1>10. r \in Seq(D) /\ Len(r) = Len(d) - 1
  BY <1>3, <1>4, <1>5, <1>9
<1>11. ASSUME NEW i \in 1 .. Len(d) - 1
       PROVE  r[i] = IF i < k THEN d[i] ELSE d[i + 1]
  <2>1. r[i] = IF i <= Len(s) THEN s[i] ELSE u[i - Len(s)]
    <3>1. i \in 1 .. Len(s) + Len(u)
      BY <1>3, <1>4, <1>5
    <3> QED
      BY <1>9, <3>1
  <2>2. CASE i < k
    BY <1>3, <1>4, <2>1, <2>2
  <2>3. CASE i >= k
    <3>1. i - (k - 1) \in 1 .. Len(d) - k /\ k + (i - (k - 1)) = i + 1
      BY <1>3, <2>3
    <3> QED
      <4>1. ~ (i < k) /\ ~ (i <= Len(s)) /\ Len(s) = k - 1
        BY <1>3, <1>4, <2>3
      <4>2. r[i] = u[i - (k - 1)]
        BY <2>1, <4>1
      <4>3. u[i - (k - 1)] = d[k + (i - (k - 1))]
        BY <1>5, <3>1
      <4> QED
        BY <3>1, <4>1, <4>2, <4>3
  <2> QED
    BY <1>3, <2>2, <2>3
<1> QED
  BY <1>6, <1>8, <1>10, <1>11

\* One that waited is gone, with an entry that was right for it.
LEMMA MatchingRemoved ==
  ASSUME NEW I, NEW w, NEW D, NEW d \in Seq(D), Matching(I, w, d),
         NEW n \in I, NEW k \in DOMAIN d, d[k] = w[n]
  PROVE  Matching(I \ {n}, w, RemoveAt(d, k))
<1>1. PICK f \in [I -> DOMAIN d] : /\ \A i, j \in I : f[i] = f[j] => i = j
                                   /\ \A i \in I : d[f[i]] = w[i]
  BY DEF Matching
<1> DEFINE g == [i \in I \ {n} |-> IF f[i] = k THEN f[n] ELSE f[i]]
           e == [i \in I \ {n} |-> IF g[i] < k THEN g[i] ELSE g[i] - 1]
<1>2. PICK q : q = RemoveAt(d, k)
  OBVIOUS
<1>3. Len(d) \in Nat /\ DOMAIN d = 1 .. Len(d) /\ DOMAIN q = 1 .. Len(d) - 1
      /\ \A i \in 1 .. Len(d) - 1 : q[i] = IF i < k THEN d[i] ELSE d[i + 1]
  <2>1. /\ q \in Seq(D) /\ Len(q) = Len(d) - 1
        /\ \A i \in 1 .. Len(d) - 1 : q[i] = IF i < k THEN d[i] ELSE d[i + 1]
    BY <1>2, Removed
  <2> QED
    BY <2>1
<1>4. \A i \in I \ {n} : g[i] \in 1 .. Len(d) /\ g[i] # k /\ d[g[i]] = w[i]
  BY <1>1, <1>3
<1>5. \A i, j \in I \ {n} : g[i] = g[j] => i = j
  BY <1>1
<1> HIDE DEF g
<1>6. k \in 1 .. Len(d)
  BY <1>3
<1>7. \A i \in I \ {n} : /\ e[i] \in 1 .. Len(d) - 1 /\ q[e[i]] = w[i]
                         /\ e[i] = IF g[i] < k THEN g[i] ELSE g[i] - 1
  <2> TAKE i \in I \ {n}
  <2>1. PICK m : m = g[i]
    OBVIOUS
  <2>2. m \in 1 .. Len(d) /\ m # k /\ d[m] = w[i]
    BY <1>4, <2>1
  <2>3. e[i] = IF m < k THEN m ELSE m - 1
    BY <2>1
  <2>4. CASE m < k
    BY <1>3, <1>6, <2>1, <2>2, <2>3, <2>4
  <2>5. CASE m > k
    <3>1. m - 1 \in 1 .. Len(d) - 1 /\ ~ (m - 1 < k) /\ ~ (m < k) /\ (m - 1) + 1 = m
      BY <1>3, <1>6, <2>2, <2>5
    <3>2. q[m - 1] = d[m]
      BY <1>3, <3>1
    <3> QED
      BY <2>1, <2>2, <2>3, <3>1, <3>2
  <2> QED
    BY <1>3, <1>6, <2>2, <2>4, <2>5
<1>8. \A i, j \in I \ {n} : e[i] = e[j] => i = j
  <2> SUFFICES ASSUME NEW i \in I \ {n}, NEW j \in I \ {n}, e[i] = e[j]
               PROVE  g[i] = g[j]
    BY <1>5
  <2>1. e[i] = (IF g[i] < k THEN g[i] ELSE g[i] - 1) /\ e[j] = (IF g[j] < k THEN g[j] ELSE g[j] - 1)
    OBVIOUS
  <2>2. g[i] \in 1 .. Len(d) /\ g[j] \in 1 .. Len(d) /\ g[i] # k /\ g[j] # k
    BY <1>4
  <2>3. PICK a, b : a = g[i] /\ b = g[j]
    OBVIOUS
  <2>4. (IF a < k THEN a ELSE a - 1) = (IF b < k THEN b ELSE b - 1)
    BY <2>1, <2>3
  <2>5. a \in 1 .. Len(d) /\ b \in 1 .. Len(d) /\ a # k /\ b # k
    BY <2>2, <2>3
  <2>6. a = b
    BY <1>3, <1>6, <2>4, <2>5
  <2> QED
    BY <2>3, <2>6
<1>9. e \in [I \ {n} -> DOMAIN q]
  BY <1>3, <1>7
<1> HIDE DEF e
<1>10. Matching(I \ {n}, w, q)
  BY <1>7, <1>8, <1>9 DEF Matching
<1> QED
  BY <1>2, <1>10

\* What is compiled together: one application of udp, and IPv4 for dhcpclient.
UdpApplications == {"dhcpclient", "udp_test"}
BuiltTogether ==
  \A b \in Builds :
    /\ \A i, j \in DOMAIN b.apps :
         b.apps[i] \in UdpApplications /\ b.apps[j] \in UdpApplications => i = j
    /\ ~ {"icmpv6", "dhcpclient"} \subseteq Range(b.apps)

\* What the body of the answer of an application of udp will be.
Body(port) ==
  IF port = DHCP_CLIENT_PORT
  THEN CASE transaction.state = "INIT" -> DISCOVER
         [] transaction.state = "REQUESTING" ->
              REQUEST(transaction.offered_ip, transaction.server_ip)
         [] OTHER -> [type |-> "none"]
  ELSE "Received!"

\* What doPacketOut will write at the turn of this connection, and the service.
Owing(c) ==
  CASE c.protocol = ICMP ->
         [service |-> ICMP,
          answer |-> [protocol |-> ICMP, to |-> c.ip, data |-> icmp.data, added |-> icmp.added + 1]]
    [] c.protocol = ICMP6 ->
         [service |-> ICMP6, answer |-> [protocol |-> ICMP6, to |-> c.ip, target |-> local_ip_addr]]
    [] c.protocol = UDP ->
         [service |-> bindings[1].src_port,
          answer |-> Datagram(c.ip, bindings[1].args.src_port, bindings[1].args.dst_port,
                              Body(bindings[1].src_port))]

Waiting == {i \in DOMAIN connections : connections[i].protocol # TCP}
Owings == [i \in DOMAIN connections |-> Owing(connections[i])]
MatchingInv == Matching(Waiting, Owings, due)

\* A service that is not bursty has one question, received or due.
QuestionsInv ==
  /\ \A i, j \in DOMAIN rx : i # j => Service(rx[i]) # Service(rx[j]) \/ Service(rx[i]) \in Bursty
  /\ \A i, j \in DOMAIN due : i # j => due[i].service # due[j].service \/ due[i].service \in Bursty
  /\ \A i \in DOMAIN rx, j \in DOMAIN due :
       Service(rx[i]) # due[j].service \/ Service(rx[i]) \in Bursty

\* An answer shows the service that owes it.
AnswerService(a) == IF a.protocol = UDP THEN a.sport ELSE a.protocol
ServicesInv ==
  \A k \in DOMAIN due : due[k] = [service |-> AnswerService(due[k].answer), answer |-> due[k].answer]

\* The bindings are those of the applications of udp.
CallbacksInv ==
  /\ DOMAIN bindings = DOMAIN Listens
  /\ \A i \in DOMAIN bindings : bindings[i].src_port = Port(Listens[i])
                                /\ DOMAIN bindings[i] = {"src_port", "args"}
  /\ DOMAIN transaction = {"state", "xid", "offered_ip", "server_ip"}

\* doPacketOut finds again what doPacketIn left.
Found(c) ==
  /\ c.protocol = ICMP6 => Has("icmpv6") /\ c.want_to_send = ICMP_NEIGHBOR_SOLICITATION
  /\ c.protocol = UDP => 1 \in DOMAIN bindings /\ bindings[1].args.connection_info = c.at

FoundInv == \A i \in DOMAIN connections : Found(connections[i])

QueuesInv == (\E D : due \in Seq(D)) /\ (\E V : rx \in Seq(V)) /\ build \in Builds

OwedInv == /\ ProtocolsInv /\ QueuesInv /\ QuestionsInv /\ ServicesInv /\ CallbacksInv
           /\ FoundInv /\ MatchingInv /\ AnswersAreOwed

\* The connections that are left when one ends.
LEMMA Turned ==
  ASSUME NEW W, connections \in Seq(W), NEW i \in DOMAIN connections
  PROVE  \E g \in [DOMAIN After(i) -> DOMAIN connections \ {i}] :
           /\ \A j, k \in DOMAIN After(i) : g[j] = g[k] => j = k
           /\ \A k \in DOMAIN After(i) : After(i)[k] = connections[g[k]]
<1>1. PICK s : s = connections
  OBVIOUS
<1>2. s \in Seq(W) /\ i \in 1 .. Len(s) /\ Len(s) \in Nat /\ \A j \in 1 .. Len(s) : s[j] \in W
  BY <1>1
<1>3. PICK t : t = SubSeq(s, i + 1, Len(s))
  OBVIOUS
<1>4. PICK u : u = SubSeq(s, 1, i - 1)
  OBVIOUS
<1>5. t \in Seq(W) /\ Len(t) = Len(s) - i /\ \A k \in 1 .. Len(s) - i : t[k] = s[k + i]
  <2>1. i + 1 \in Int /\ Len(s) \in Int /\ \A j \in i + 1 .. Len(s) : s[j] \in W
    BY <1>2
  <2>2. t \in Seq(W) /\ Len(t) = (IF i + 1 <= Len(s) THEN Len(s) - (i + 1) + 1 ELSE 0)
        /\ \A k \in 1 .. Len(s) - (i + 1) + 1 : t[k] = s[(i + 1) + k - 1]
    BY <1>3, <2>1, SubSeqProperties
  <2>3. Len(s) - (i + 1) + 1 = Len(s) - i
    BY <1>2
  <2>4. ASSUME NEW k \in 1 .. Len(s) - i PROVE t[k] = s[k + i]
    <3>1. (i + 1) + k - 1 = k + i
      BY <1>2
    <3> QED
      BY <2>2, <2>3, <3>1
  <2> QED
    BY <1>2, <2>2, <2>3, <2>4
<1>6. u \in Seq(W) /\ Len(u) = i - 1 /\ \A k \in 1 .. i - 1 : u[k] = s[k]
  <2>1. i - 1 \in Int /\ \A j \in 1 .. i - 1 : s[j] \in W
    BY <1>2
  <2>2. u \in Seq(W) /\ Len(u) = (IF 1 <= i - 1 THEN i - 1 - 1 + 1 ELSE 0)
        /\ \A j \in 1 .. i - 1 - 1 + 1 : u[j] = s[1 + j - 1]
    BY <1>4, <2>1, SubSeqProperties
  <2> QED
    BY <1>2, <2>2
<1>7. PICK r : r = t \o u
  OBVIOUS
<1>8. /\ t \o u \in Seq(W) /\ Len(t \o u) = Len(t) + Len(u)
      /\ \A k \in 1 .. Len(t) + Len(u) : (t \o u)[k] = IF k <= Len(t) THEN t[k] ELSE u[k - Len(t)]
  BY <1>5, <1>6, ConcatProperties
<1>9. /\ r \in Seq(W) /\ Len(r) = Len(t) + Len(u)
      /\ \A k \in 1 .. Len(t) + Len(u) : r[k] = IF k <= Len(t) THEN t[k] ELSE u[k - Len(t)]
  BY <1>7, <1>8, Zenon
<1>10. Len(r) = Len(s) - 1 /\ DOMAIN r = 1 .. Len(s) - 1
  BY <1>2, <1>5, <1>6, <1>9
<1> DEFINE n == Len(s) - i
<1>11. PICK g : g = [k \in 1 .. Len(s) - 1 |-> IF k <= n THEN k + i ELSE k - n]
  OBVIOUS
<1>12. ASSUME NEW k \in 1 .. Len(s) - 1
       PROVE  g[k] \in 1 .. Len(s) /\ g[k] # i /\ r[k] = s[g[k]]
  <2>1. r[k] = IF k <= n THEN t[k] ELSE u[k - n]
    <3>1. k \in 1 .. Len(t) + Len(u) /\ Len(t) = n
      BY <1>2, <1>5, <1>6
    <3> QED
      BY <1>9, <3>1
  <2>2. CASE k <= n
    <3>1. g[k] = k + i /\ k \in 1 .. Len(s) - i /\ r[k] = t[k]
      BY <1>2, <1>11, <2>1, <2>2
    <3> QED
      BY <1>2, <1>5, <3>1
  <2>3. CASE ~ (k <= n)
    <3>1. g[k] = k - n /\ k - n \in 1 .. i - 1 /\ r[k] = u[k - n]
      BY <1>2, <1>11, <2>1, <2>3
    <3> QED
      BY <1>2, <1>6, <3>1
  <2> QED
    BY <2>2, <2>3
<1>13. ASSUME NEW j \in 1 .. Len(s) - 1, NEW k \in 1 .. Len(s) - 1, g[j] = g[k]
       PROVE  j = k
  <2>1. /\ g[j] = IF j <= n THEN j + i ELSE j - n
        /\ g[k] = IF k <= n THEN k + i ELSE k - n
    BY <1>11
  <2>2. (IF j <= n THEN j + i ELSE j - n) = (IF k <= n THEN k + i ELSE k - n)
    BY <1>13, <2>1
  <2>3. PICK m : m = n
    OBVIOUS
  <2>4. (IF j <= m THEN j + i ELSE j - m) = (IF k <= m THEN k + i ELSE k - m)
    BY <2>2, <2>3
  <2>5. m \in Nat /\ m + i = Len(s)
    BY <1>2, <2>3
  <2>6. j \in Nat /\ k \in Nat /\ i \in Nat /\ 1 <= j /\ 1 <= k /\ j < m + i /\ k < m + i
    BY <1>2, <2>5
  <2> QED
    BY <2>4, <2>5, <2>6
<1>14. g \in [DOMAIN r -> DOMAIN s \ {i}]
  <2>1. DOMAIN s = 1 .. Len(s)
    BY <1>2
  <2> QED
    BY <1>10, <1>11, <1>12, <2>1
<1>15. After(i) = r
  BY <1>1, <1>3, <1>4, <1>7 DEF After
<1>16. \A k \in DOMAIN r : r[k] = s[g[k]]
  BY <1>10, <1>12
<1>17. \A j, k \in DOMAIN r : g[j] = g[k] => j = k
  BY <1>10, <1>13
<1> QED
  BY <1>1, <1>14, <1>15, <1>16, <1>17, Zenon

\* Connections that wait as before, at other places.
LEMMA MatchingKept ==
  ASSUME NEW I, I \subseteq DOMAIN connections, NEW d, d = due', Matching(I, Owings, d), NEW g,
         \A k \in Waiting' : g[k] \in I /\ connections'[k] = connections[g[k]],
         \A j, k \in Waiting' : g[j] = g[k] => j = k,
         \A i \in I : \A c : c = connections[i] => Owing(c)' = Owing(c)
  PROVE  MatchingInv'
<1>1. PICK J : J = Waiting'
  OBVIOUS
<1>2. PICK w : w = Owings
  OBVIOUS
<1>3. PICK v : v = Owings'
  OBVIOUS
<1>4. PICK h : h = [k \in J |-> g[k]]
  OBVIOUS
<1>5. h \in [J -> I] /\ \A j, k \in J : h[j] = h[k] => j = k
  BY <1>1, <1>4
<1>6. ASSUME NEW k \in J PROVE v[k] = w[h[k]]
  <2>1. PICK c : c = connections[g[k]]
    OBVIOUS
  <2>2. c = connections'[k] /\ Owing(c)' = Owing(c) /\ g[k] \in DOMAIN connections
    BY <1>1, <2>1
  <2>3. k \in DOMAIN connections'
    BY <1>1 DEF Waiting
  <2>4. v[k] = Owing(c)'
    <3>1. v[k] = Owing(connections[k])'
      BY <1>3, <2>3 DEF Owings
    <3> QED
      BY <2>2, <3>1
  <2>5. w[g[k]] = Owing(c)
    BY <1>2, <2>1, <2>2 DEF Owings
  <2> QED
    BY <1>4, <2>2, <2>4, <2>5
<1>7. Matching(I, w, d)
  BY <1>2
<1>8. Matching(J, v, d)
  BY <1>5, <1>6, <1>7, MatchingRenamed
<1> QED
  BY <1>1, <1>3, <1>8 DEF MatchingInv

LEMMA AppsKept ==
  ASSUME UNCHANGED apps
  PROVE  \A c : Owing(c)' = Owing(c)
BY DEF apps, Owing, Body

LEMMA FoundKept ==
  ASSUME UNCHANGED <<bindings, build>>, NEW c, Found(c)
  PROVE  Found(c)'
BY DEF Found, Has

\* A step after which the connections are those of before, at other places,
\* and HTTP connections.
LEMMA CircleKept ==
  ASSUME FoundInv, MatchingInv, UNCHANGED <<apps, build, due>>,
         NEW T, NEW g \in [T -> DOMAIN connections],
         \A j, k \in T : g[j] = g[k] => j = k, \A k \in T : connections'[k] = connections[g[k]],
         \A k \in DOMAIN connections' : k \in T \/ connections'[k].protocol = TCP
  PROVE  FoundInv' /\ MatchingInv'
<1>1. ASSUME NEW k \in Waiting'
      PROVE  k \in T /\ g[k] \in Waiting /\ connections'[k] = connections[g[k]]
  <2>1. k \in DOMAIN connections' /\ connections'[k].protocol # TCP
    BY DEF Waiting
  <2>2. k \in T
    BY <2>1
  <2>3. g[k] \in DOMAIN connections /\ connections'[k] = connections[g[k]]
    BY <2>2
  <2> QED
    BY <2>1, <2>2, <2>3 DEF Waiting
<1>2. MatchingInv'
  <2>1. PICK I : I = Waiting
    OBVIOUS
  <2>2. PICK d : d = due'
    OBVIOUS
  <2>3. I \subseteq DOMAIN connections /\ Matching(I, Owings, d)
    BY <2>1, <2>2 DEF MatchingInv, Waiting
  <2>4. \A k \in Waiting' : g[k] \in I /\ connections'[k] = connections[g[k]]
    BY <1>1, <2>1
  <2>5. \A j, k \in Waiting' : g[j] = g[k] => j = k
    BY <1>1
  <2>6. \A i \in I : \A c : c = connections[i] => Owing(c)' = Owing(c)
    BY AppsKept
  <2> QED
    BY <2>2, <2>3, <2>4, <2>5, <2>6, MatchingKept
<1>3. FoundInv'
  <2>1. ASSUME NEW k \in DOMAIN connections'
        PROVE  Found(connections[k])'
    <3>1. PICK c : c = connections'[k]
      OBVIOUS
    <3>2. Found(c)
      <4>1. CASE k \in T
        BY <3>1, <4>1 DEF FoundInv
      <4>2. CASE c.protocol = TCP
        BY <4>2 DEF Found, TCP, ICMP6, UDP
      <4> QED
        BY <3>1, <4>1, <4>2
    <3>3. Found(c)'
      BY <3>2, FoundKept DEF apps
    <3> QED
      BY <3>1, <3>3
  <2> QED
    BY <2>1 DEF FoundInv
<1> QED
  BY <1>2, <1>3

\* A step that only turns the circle, or opens an HTTP connection or frees one.
LEMMA CircleStep ==
  ASSUME FoundInv, MatchingInv, ProtocolsInv, UNCHANGED <<apps, build, due>>,
         \/ connections' = connections
         \/ \E at : connections' = Append(connections, [at |-> at, protocol |-> TCP])
         \/ \E i \in DOMAIN connections :
              connections[i].protocol = TCP /\ connections' \in {After(i), Append(After(i), connections[i])}
  PROVE  FoundInv' /\ MatchingInv'
<1>1. PICK W : connections \in Seq(W) /\ \A c \in W : c.protocol \in {ICMP, ICMP6, UDP, TCP}
  BY DEF ProtocolsInv
<1>2. PICK g : g = [k \in DOMAIN connections |-> k]
  OBVIOUS
<1>3. g \in [DOMAIN connections -> DOMAIN connections] /\ \A j, k \in DOMAIN connections : g[j] = g[k] => j = k
  BY <1>2
<1>4. CASE connections' = connections
  BY <1>2, <1>3, <1>4, CircleKept
<1>5. ASSUME NEW at, connections' = Append(connections, [at |-> at, protocol |-> TCP])
      PROVE  FoundInv' /\ MatchingInv'
  <2>1. [at |-> at, protocol |-> TCP].protocol = TCP
    OBVIOUS
  <2>2. PICK c : c = [at |-> at, protocol |-> TCP]
    OBVIOUS
  <2>3. /\ DOMAIN connections' = 1 .. Len(connections) + 1 /\ DOMAIN connections = 1 .. Len(connections)
        /\ Len(connections) \in Nat
        /\ \A k \in 1 .. Len(connections) : connections'[k] = connections[k]
        /\ connections'[Len(connections) + 1] = c
    BY <1>1, <1>5, <2>2
  <2>4. \A k \in DOMAIN connections : connections'[k] = connections[g[k]]
    BY <1>2, <2>3
  <2>5. \A k \in DOMAIN connections' : k \in DOMAIN connections \/ connections'[k].protocol = TCP
    BY <2>1, <2>2, <2>3
  <2> QED
    BY <1>3, <2>4, <2>5, CircleKept
<1>6. ASSUME NEW i \in DOMAIN connections, connections[i].protocol = TCP,
             connections' \in {After(i), Append(After(i), connections[i])}
      PROVE  FoundInv' /\ MatchingInv'
  <2>1. PICK r : r = After(i)
    OBVIOUS
  <2>2. PICK h \in [DOMAIN r -> DOMAIN connections \ {i}] :
          /\ \A j, k \in DOMAIN r : h[j] = h[k] => j = k
          /\ \A k \in DOMAIN r : r[k] = connections[h[k]]
    BY <1>1, <2>1, Turned
  <2>3. r \in Seq(W) /\ connections[i] \in W
    <3>1. Len(connections) \in Nat /\ i \in 1 .. Len(connections) /\ connections[i] \in W
      BY <1>1
    <3>2. SubSeq(connections, i + 1, Len(connections)) \in Seq(W)
      BY <1>1, <3>1, SubSeqProperties
    <3>3. SubSeq(connections, 1, i - 1) \in Seq(W)
      BY <1>1, <3>1, SubSeqProperties
    <3>4. After(i) \in Seq(W)
      BY <3>2, <3>3, ConcatProperties DEF After
    <3> QED
      BY <2>1, <3>1, <3>4
  <2>4. h \in [DOMAIN r -> DOMAIN connections]
    BY <2>2
  <2>5. CASE connections' = r
    BY <2>2, <2>4, <2>5, CircleKept
  <2>6. CASE connections' = Append(r, connections[i])
    <3>1. PICK c : c = connections[i]
      OBVIOUS
    <3>2. /\ DOMAIN connections' = 1 .. Len(r) + 1 /\ DOMAIN r = 1 .. Len(r) /\ Len(r) \in Nat
          /\ \A k \in 1 .. Len(r) : connections'[k] = r[k]
          /\ connections'[Len(r) + 1] = c
      BY <2>3, <2>6, <3>1
    <3>3. \A k \in DOMAIN r : connections'[k] = connections[h[k]]
      BY <2>2, <3>2
    <3>4. \A k \in DOMAIN connections' : k \in DOMAIN r \/ connections'[k].protocol = TCP
      BY <1>6, <3>1, <3>2
    <3> QED
      BY <2>2, <2>4, <3>3, <3>4, CircleKept
  <2> QED
    BY <1>6, <2>1, <2>5, <2>6
<1> QED
  BY <1>4, <1>5, <1>6

\* There is at most one application of udp in a build.
LEMMA ListensOnce ==
  ASSUME BuiltTogether, build \in Builds
  PROVE  /\ \A i \in DOMAIN Listens : i = 1 /\ Listens[i] \in UdpApplications /\ Has(Listens[i])
         /\ \A a \in UdpApplications : Has(a) => 1 \in DOMAIN Listens /\ Listens[1] = a
<1>1. PICK a : a = build.apps
  OBVIOUS
<1>2. PICK S : S = {i \in DOMAIN a : a[i] \in UdpApplications}
  OBVIOUS
<1>3. \A i, j \in S : i = j
  BY <1>1, <1>2 DEF BuiltTogether
<1>4. PICK L : L = [n \in 1 .. Cardinality(S) |-> a[CHOOSE i \in S : Cardinality({j \in S : j <= i}) = n]]
  OBVIOUS
<1>5. L = Listens
  BY <1>1, <1>2, <1>4 DEF Listens, UdpApplications
<1>6. \A b : Has(b) <=> \E i \in DOMAIN a : a[i] = b
  BY <1>1 DEF Has, Range
<1>7. CASE S = {}
  <2>1. Cardinality(S) = 0
    BY <1>7, FS_EmptySet
  <2>2. DOMAIN L = {}
    BY <1>4, <2>1
  <2>3. \A b \in UdpApplications : ~ Has(b)
    BY <1>2, <1>6, <1>7
  <2> QED
    BY <1>5, <2>2, <2>3
<1>8. ASSUME NEW m, S = {m}, 1 = 1
      PROVE  /\ \A i \in DOMAIN L : i = 1 /\ L[i] \in UdpApplications /\ Has(L[i])
             /\ \A b \in UdpApplications : Has(b) => 1 \in DOMAIN L /\ L[1] = b
  <2>1. Cardinality(S) = 1
    BY <1>8, FS_Singleton
  <2>2. DOMAIN L = {1}
    BY <1>4, <2>1
  <2>3. L[1] = a[CHOOSE i \in S : Cardinality({j \in S : j <= i}) = 1]
    BY <1>4, <2>2
  <2>4. m \in DOMAIN a /\ a[m] \in UdpApplications /\ \A i \in DOMAIN a : a[i] \in UdpApplications => i = m
    BY <1>2, <1>8
  <2>5. (CHOOSE i \in S : Cardinality({j \in S : j <= i}) = 1) = m
    <3>1. m \in Nat
      BY <1>1, <2>4, DatagramsAssumption
    <3>2. {j \in S : j <= m} = S
      BY <1>8, <3>1
    <3>3. \E i \in S : Cardinality({j \in S : j <= i}) = 1
      BY <1>8, <2>1, <3>2
    <3> QED
      BY <1>8, <3>3
  <2> QED
    BY <1>6, <2>2, <2>3, <2>4, <2>5
<1> QED
  BY <1>3, <1>5, <1>7, <1>8

\* What is owed after a packet that has no answer, or one.
LEMMA OweNothing ==
  ASSUME NEW p, Owe(p), Answers(p) = {}, NEW D, due \in Seq(D)
  PROVE  due' = due
<1>1. Cardinality(Answers(p)) = 0
  BY FS_EmptySet
<1>2. PICK x : x = [service |-> Service(p), answer |-> CHOOSE a \in Answers(p) : TRUE]
  OBVIOUS
<1>3. due' = due \o [i \in 1 .. 0 |-> x]
  BY <1>1, <1>2 DEF Owe
<1>4. [i \in 1 .. 0 |-> x] = << >>
  OBVIOUS
<1> QED
  BY <1>3, <1>4, ConcatEmptySeq

LEMMA OweOne ==
  ASSUME NEW p, Owe(p), NEW b, Answers(p) = {b}, NEW D, due \in Seq(D)
  PROVE  due' = Append(due, [service |-> Service(p), answer |-> b])
<1>1. Cardinality(Answers(p)) = 1
  BY FS_Singleton
<1>2. PICK x : x = [service |-> Service(p), answer |-> b]
  OBVIOUS
<1>3. (CHOOSE a \in Answers(p) : TRUE) = b
  OBVIOUS
<1>4. due' = due \o [i \in 1 .. 1 |-> x]
  BY <1>1, <1>2, <1>3 DEF Owe
<1>5. [i \in 1 .. 1 |-> x] = <<x>>
  OBVIOUS
<1>6. PICK E : E = D \cup {x}
  OBVIOUS
<1>7. due \in Seq(E) /\ x \in E
  BY <1>6, SeqMonotonic
<1>8. Append(due, x) = due \o <<x>>
  BY <1>7, AppendIsConcat
<1> QED
  BY <1>2, <1>4, <1>5, <1>8

\* The waiting connections have each an answer that is due, and no service
\* but the bursty ones has two.
LEMMA EachIsOwed ==
  ASSUME MatchingInv, QuestionsInv
  PROVE  /\ \A i \in Waiting : \E k \in DOMAIN due : due[k] = Owing(connections[i])
         /\ \A i, j \in Waiting : i # j =>
              \/ Owing(connections[i]).service # Owing(connections[j]).service
              \/ Owing(connections[i]).service \in Bursty
<1>1. PICK f \in [Waiting -> DOMAIN due] :
        /\ \A i, j \in Waiting : f[i] = f[j] => i = j
        /\ \A i \in Waiting : due[f[i]] = Owings[i]
  BY DEF MatchingInv, Matching
<1>2. \A i \in Waiting : f[i] \in DOMAIN due /\ due[f[i]] = Owing(connections[i])
  BY <1>1 DEF Owings, Waiting
<1>3. ASSUME NEW i \in Waiting, NEW j \in Waiting, i # j
      PROVE  \/ Owing(connections[i]).service # Owing(connections[j]).service
             \/ Owing(connections[i]).service \in Bursty
  <2>1. f[i] # f[j]
    BY <1>1, <1>3
  <2>2. due[f[i]].service # due[f[j]].service \/ due[f[i]].service \in Bursty
    BY <1>2, <2>1 DEF QuestionsInv
  <2> QED
    BY <1>2, <2>2
<1> QED
  BY <1>2, <1>3

LEMMA OwingService ==
  ASSUME NEW c, c.protocol \in {ICMP, ICMP6, UDP}
  PROVE  /\ Owing(c).service = IF c.protocol = UDP THEN bindings[1].src_port ELSE c.protocol
         /\ Owing(c).answer.protocol = c.protocol
         /\ c.protocol = UDP => Owing(c).answer.sport = bindings[1].args.src_port
<1>1. CASE c.protocol = ICMP
  BY <1>1 DEF Owing, ICMP, ICMP6, UDP
<1>2. CASE c.protocol = ICMP6
  BY <1>2 DEF Owing, ICMP, ICMP6, UDP
<1>3. CASE c.protocol = UDP
  BY <1>3 DEF Owing, ICMP, ICMP6, UDP, Datagram
<1> QED
  BY <1>1, <1>2, <1>3

\* Only icmpv6 is asked again before it has answered.
Deployment == BuiltTogether /\ Bursty \subseteq {ICMP6}

LEMMA BindingOfBuild ==
  ASSUME BuiltTogether, QueuesInv, CallbacksInv
  PROVE  /\ \A i \in DOMAIN bindings :
              /\ i = 1
              /\ \/ bindings[i].src_port = DHCP_CLIENT_PORT /\ Has("dhcpclient")
                 \/ bindings[i].src_port = TEST_PORT /\ Has("udp_test")
         /\ Has("dhcpclient") => 1 \in DOMAIN bindings /\ bindings[1].src_port = DHCP_CLIENT_PORT
         /\ Has("udp_test") => 1 \in DOMAIN bindings /\ bindings[1].src_port = TEST_PORT
<1>1. build \in Builds
  BY DEF QueuesInv
<1>2. /\ \A i \in DOMAIN Listens : i = 1 /\ Listens[i] \in UdpApplications /\ Has(Listens[i])
      /\ \A a \in UdpApplications : Has(a) => 1 \in DOMAIN Listens /\ Listens[1] = a
  BY <1>1, ListensOnce
<1> HIDE DEF Listens
<1>3. DOMAIN bindings = DOMAIN Listens /\ \A i \in DOMAIN bindings : bindings[i].src_port = Port(Listens[i])
  BY DEF CallbacksInv
<1>4. Port("dhcpclient") = DHCP_CLIENT_PORT /\ Port("udp_test") = TEST_PORT
  BY DEF Port
<1>5. UdpApplications = {"dhcpclient", "udp_test"}
  BY DEF UdpApplications
<1> QED
  BY <1>2, <1>3, <1>4, <1>5

LEMMA CallbacksKept ==
  ASSUME CallbacksInv, UNCHANGED build, DOMAIN transaction' = DOMAIN transaction,
         DOMAIN bindings' = DOMAIN bindings,
         \A i \in DOMAIN bindings : /\ bindings'[i].src_port = bindings[i].src_port
                                   /\ DOMAIN bindings'[i] = DOMAIN bindings[i]
  PROVE  CallbacksInv'
<1>1. Listens' = Listens
  BY DEF Listens
<1> HIDE DEF Listens
<1>2. \A i : Port(Listens[i])' = Port(Listens[i])
  BY <1>1 DEF Port
<1> QED
  BY <1>1, <1>2 DEF CallbacksInv

\* What a packet does to the connections that wait, and what the new one owes.
Answering(p, at) ==
  \/ Answers(p) = {} /\ connections' = connections
  \/ \E b, want :
       /\ Answers(p) = {b}
       /\ connections' = Append(connections, GpIp(at, p.protocol, p.from, want))
       /\ Owing(GpIp(at, p.protocol, p.from, want))' = [service |-> Service(p), answer |-> b]
       /\ Found(GpIp(at, p.protocol, p.from, want))'

\* The connections that wait are of other services.
OtherServices(p) ==
  \A i \in Waiting : Owing(connections[i]).service # Service(p) \/ Service(p) \in Bursty

LEMMA ProtocolOfWaiting ==
  ASSUME ProtocolsInv, NEW i \in Waiting
  PROVE  connections[i].protocol \in {ICMP, ICMP6, UDP}
<1>1. PICK W : connections \in Seq(W) /\ \A c \in W : c.protocol \in {ICMP, ICMP6, UDP, TCP}
  BY DEF ProtocolsInv
<1>2. i \in DOMAIN connections /\ connections[i].protocol # TCP
  BY DEF Waiting
<1>3. connections[i] \in W
  BY <1>1, <1>2, ElementOfSeq
<1> QED
  BY <1>1, <1>2, <1>3

LEMMA Icmp4In ==
  ASSUME Deployment, OwedInv, NEW p, p.protocol = ICMP, NEW at, icmp4_packet_in(p, at),
         UNCHANGED build, OtherServices(p)
  PROVE  /\ \A i \in Waiting : \A c : c = connections[i] => Owing(c)' = Owing(c)
         /\ FoundInv => \A i \in DOMAIN connections : \A c : c = connections[i] => Found(c)'
         /\ CallbacksInv' /\ Answering(p, at)
<1>1. UNCHANGED <<bindings, transaction, local_ip_addr, build>>
  BY DEF icmp4_packet_in
<1>2. Service(p) = ICMP /\ ICMP \notin Bursty
  BY DEF Deployment, Service, ICMP, ICMP6, UDP
<1>3. ASSUME NEW i \in Waiting, NEW c, c = connections[i] PROVE Owing(c)' = Owing(c)
  <2>1. c.protocol \in {ICMP, ICMP6, UDP}
    BY <1>3, ProtocolOfWaiting DEF OwedInv
  <2>2. c.protocol # ICMP
    BY <1>2, <1>3, <2>1, OwingService DEF OtherServices, ICMP, UDP
  <2>3. CASE c.protocol = ICMP6
    BY <1>1, <2>3 DEF Owing, ICMP, ICMP6, UDP
  <2>4. CASE c.protocol = UDP
    BY <1>1, <2>4 DEF Owing, Body, ICMP, ICMP6, UDP
  <2> QED
    BY <2>1, <2>2, <2>3, <2>4
<1>4. FoundInv => \A i \in DOMAIN connections : \A c : c = connections[i] => Found(c)'
  BY <1>1, FoundKept DEF FoundInv
<1>5. CallbacksInv'
  BY <1>1, CallbacksKept DEF OwedInv
<1>6. Answering(p, at)
  <2>1. Answers(p) = IF p.type = ICMP_ECHO_REQUEST /\ p.valid
                     THEN {[protocol |-> ICMP, to |-> p.from, data |-> p.data, added |-> 1]} ELSE {}
    BY DEF Answers, ICMP, ICMP6, UDP
  <2>2. CASE p.type = ICMP_ECHO_REQUEST /\ p.valid
    <3> DEFINE b == [protocol |-> ICMP, to |-> p.from, data |-> p.data, added |-> 1]
    <3>1. icmp' = [data |-> p.data, added |-> 0]
      BY <2>2 DEF icmp4_packet_in
    <3>2. PICK c : c = GpIp(at, p.protocol, p.from, 1)
      OBVIOUS
    <3>3. c.protocol = ICMP /\ c.ip = p.from
      BY <3>2 DEF GpIp
    <3>4. connections' = Append(connections, c)
      BY <2>2, <3>2 DEF icmp4_packet_in, Answered
    <3>5. Owing(c)' = [service |-> ICMP, answer |-> [protocol |-> ICMP, to |-> c.ip, data |-> p.data, added |-> 0 + 1]]
      BY <3>1, <3>3 DEF Owing, ICMP, ICMP6, UDP
    <3>6. Owing(c)' = [service |-> Service(p), answer |-> b]
      BY <1>2, <3>3, <3>5
    <3>7. Found(c)'
      BY <3>3 DEF Found, ICMP, ICMP6, UDP
    <3>8. GpIp(at, p.protocol, p.from, 1)' = c
      BY <3>2 DEF GpIp
    <3> HIDE DEF b
    <3>9. Answers(p) = {b}
      BY <2>1, <2>2 DEF b
    <3> QED
      BY <3>2, <3>4, <3>6, <3>7, <3>9 DEF Answering
  <2>3. CASE ~ (p.type = ICMP_ECHO_REQUEST /\ p.valid)
    BY <2>1, <2>3 DEF icmp4_packet_in, Answered, Answering
  <2> QED
    BY <2>2, <2>3
<1> QED
  BY <1>3, <1>4, <1>5, <1>6

LEMMA Icmp6In ==
  ASSUME Deployment, OwedInv, NEW p, p.protocol = ICMP6, ICMP6 \in Protocols, NEW at, icmp6_packet_in(p, at),
         UNCHANGED build
  PROVE  /\ \A i \in Waiting : \A c : c = connections[i] => Owing(c)' = Owing(c)
         /\ FoundInv => \A i \in DOMAIN connections : \A c : c = connections[i] => Found(c)'
         /\ CallbacksInv' /\ Answering(p, at)
<1>1. UNCHANGED apps /\ UNCHANGED <<bindings, transaction, local_ip_addr, build>>
  BY DEF icmp6_packet_in, apps
<1>2. Service(p) = ICMP6 /\ Has("icmpv6")
  BY DEF Service, ICMP, ICMP6, UDP, Protocols
<1>3. \A i \in Waiting : \A c : c = connections[i] => Owing(c)' = Owing(c)
  BY <1>1, AppsKept
<1>4. FoundInv => \A i \in DOMAIN connections : \A c : c = connections[i] => Found(c)'
  BY <1>1, FoundKept DEF FoundInv
<1>5. CallbacksInv'
  BY <1>1, CallbacksKept DEF OwedInv
<1>6. Answering(p, at)
  <2>1. Answers(p) = IF p.type = ICMP_NEIGHBOR_SOLICITATION /\ p.target = local_ip_addr
                     THEN {[protocol |-> ICMP6, to |-> p.from, target |-> p.target]} ELSE {}
    BY DEF Answers, ICMP, ICMP6, UDP
  <2>2. CASE p.type = ICMP_NEIGHBOR_SOLICITATION /\ p.target = local_ip_addr
    <3> DEFINE b == [protocol |-> ICMP6, to |-> p.from, target |-> p.target]
    <3>1. PICK c : c = GpIp(at, p.protocol, p.from, ICMP_NEIGHBOR_SOLICITATION)
      OBVIOUS
    <3>2. c.protocol = ICMP6 /\ c.ip = p.from /\ c.want_to_send = ICMP_NEIGHBOR_SOLICITATION
      BY <3>1 DEF GpIp
    <3>3. connections' = Append(connections, c)
      BY <2>2, <3>1 DEF icmp6_packet_in, Answered, ICMP_NEIGHBOR_SOLICITATION
    <3>4. Owing(c) = [service |-> ICMP6, answer |-> [protocol |-> ICMP6, to |-> c.ip, target |-> local_ip_addr]]
      BY <3>2 DEF Owing, ICMP, ICMP6, UDP
    <3>5. Owing(c)' = Owing(c)
      BY <1>1, AppsKept
    <3>6. Owing(c)' = [service |-> Service(p), answer |-> b]
      BY <1>2, <2>2, <3>2, <3>4, <3>5
    <3>7. Found(c)'
      BY <1>1, <1>2, <3>2 DEF Found, Has, ICMP6, UDP
    <3> HIDE DEF b
    <3>8. Answers(p) = {b}
      BY <2>1, <2>2 DEF b
    <3> QED
      BY <3>1, <3>3, <3>6, <3>7, <3>8 DEF Answering
  <2>3. CASE ~ (p.type = ICMP_NEIGHBOR_SOLICITATION /\ p.target = local_ip_addr)
    BY <2>1, <2>3 DEF icmp6_packet_in, Answered, Answering
  <2> QED
    BY <2>2, <2>3
<1> QED
  BY <1>3, <1>4, <1>5, <1>6

\* A step that stores the arguments of the binding i.
LEMMA CallbackStored ==
  ASSUME CallbacksInv, UNCHANGED build, DOMAIN transaction' = DOMAIN transaction,
         NEW i \in DOMAIN bindings, NEW args, bindings' = [bindings EXCEPT ![i].args = args]
  PROVE  /\ CallbacksInv' /\ DOMAIN bindings' = DOMAIN bindings
         /\ bindings'[i].src_port = bindings[i].src_port /\ bindings'[i].args = args
<1> DEFINE b == [bindings[i] EXCEPT !.args = args]
<1>1. DOMAIN bindings[i] = {"src_port", "args"}
  BY DEF CallbacksInv
<1>2. DOMAIN b = DOMAIN bindings[i] /\ b.src_port = bindings[i].src_port /\ b.args = args
  BY <1>1
<1>3. bindings' = [bindings EXCEPT ![i] = b]
  OBVIOUS
<1> HIDE DEF b
<1>4. DOMAIN bindings' = DOMAIN bindings /\ bindings'[i] = b
      /\ \A j \in DOMAIN bindings : j # i => bindings'[j] = bindings[j]
  BY <1>3
<1>5. \A j \in DOMAIN bindings : /\ bindings'[j].src_port = bindings[j].src_port
                                 /\ DOMAIN bindings'[j] = DOMAIN bindings[j]
  BY <1>2, <1>4
<1> QED
  BY <1>2, <1>4, <1>5, CallbacksKept

\* No connection that waits is of udp when a datagram for its application is
\* read, nor of icmpv6 when dhcpclient may commit an address.
LEMMA NoUdpWaiting ==
  ASSUME Deployment, OwedInv, NEW p, p.protocol = UDP, OtherServices(p),
         1 \in DOMAIN bindings, bindings[1].src_port = p.dport,
         NEW i \in Waiting
  PROVE  /\ connections[i].protocol \in {ICMP, ICMP6}
         /\ p.dport = DHCP_CLIENT_PORT => connections[i].protocol = ICMP
<1>1. connections[i].protocol \in {ICMP, ICMP6, UDP} /\ i \in DOMAIN connections
  BY ProtocolOfWaiting DEF OwedInv, Waiting
<1>2. \/ bindings[1].src_port = DHCP_CLIENT_PORT /\ Has("dhcpclient")
      \/ bindings[1].src_port = TEST_PORT
  BY BindingOfBuild DEF Deployment, OwedInv
<1>3. Service(p) = p.dport /\ p.dport \notin Bursty
  BY <1>2 DEF Service, Deployment, DHCP_CLIENT_PORT, TEST_PORT, ICMP6
<1>4. connections[i].protocol # UDP
  BY <1>1, <1>3, OwingService DEF OtherServices
<1>5. ASSUME p.dport = DHCP_CLIENT_PORT, connections[i].protocol = ICMP6
      PROVE  FALSE
  <2>1. Has("icmpv6")
    BY <1>1, <1>5 DEF OwedInv, FoundInv, Found
  <2>2. Has("dhcpclient")
    BY <1>2, <1>5 DEF DHCP_CLIENT_PORT, TEST_PORT
  <2> QED
    BY <2>1, <2>2 DEF OwedInv, QueuesInv, Deployment, BuiltTogether, Has
<1> QED
  BY <1>1, <1>4, <1>5

LEMMA UdpTestIn ==
  ASSUME Deployment, OwedInv, NEW p, p.protocol = UDP, p.dport # DHCP_CLIENT_PORT,
         1 \in DOMAIN bindings, bindings[1].src_port = p.dport,
         NEW at, udp_test_in(p, 1, at), UNCHANGED build, OtherServices(p)
  PROVE  /\ \A i \in Waiting : \A c : c = connections[i] => Owing(c)' = Owing(c)
         /\ CallbacksInv' /\ Answering(p, at)
<1>1. /\ bindings' = [bindings EXCEPT ![1].args = Args(p.dport, p.sport, at)]
      /\ connections' = Append(connections, GpIp(at, p.protocol, p.from, 1))
      /\ UNCHANGED <<icmp, transaction, local_ip_addr>>
  BY DEF udp_test_in, Answered
<1>2. /\ CallbacksInv' /\ DOMAIN bindings' = DOMAIN bindings
      /\ bindings'[1].src_port = bindings[1].src_port /\ bindings'[1].args = Args(p.dport, p.sport, at)
  BY <1>1, CallbackStored DEF OwedInv
<1>3. p.dport = TEST_PORT /\ Has("udp_test")
  BY BindingOfBuild DEF Deployment, OwedInv
<1>4. ASSUME NEW i \in Waiting, NEW c, c = connections[i] PROVE Owing(c)' = Owing(c)
  <2>1. c.protocol \in {ICMP, ICMP6}
    BY <1>4, NoUdpWaiting
  <2> QED
    BY <1>1, <2>1 DEF Owing, ICMP, ICMP6, UDP
<1>5. PICK b : b = Datagram(p.from, TEST_PORT, p.sport, "Received!")
  OBVIOUS
<1>6. Answers(p) = {b}
  BY <1>3, <1>5 DEF Answers, ICMP, ICMP6, UDP
<1>7. PICK c : c = GpIp(at, p.protocol, p.from, 1)
  OBVIOUS
<1>8. c.protocol = UDP /\ c.ip = p.from /\ c.at = at
  BY <1>7 DEF GpIp
<1>9. Owing(c)' = [service |-> Service(p), answer |-> b]
  <2>1. Owing(c)' = [service |-> bindings'[1].src_port,
                     answer |-> Datagram(c.ip, bindings'[1].args.src_port, bindings'[1].args.dst_port,
                                         Body(bindings[1].src_port)')]
    BY <1>8 DEF Owing, Datagram, ICMP, ICMP6, UDP
  <2>2. Body(bindings[1].src_port)' = "Received!"
    BY <1>2 DEF Body
  <2>3. bindings'[1].args.src_port = TEST_PORT /\ bindings'[1].args.dst_port = p.sport
    BY <1>2, <1>3 DEF Args
  <2> QED
    BY <1>2, <1>5, <1>8, <2>1, <2>2, <2>3 DEF Service
<1>10. Found(c)'
  <2>1. bindings'[1].args.connection_info = at /\ 1 \in DOMAIN bindings'
    BY <1>2 DEF Args
  <2> QED
    BY <1>8, <2>1 DEF Found, ICMP6, UDP
<1> QED
  BY <1>1, <1>2, <1>4, <1>6, <1>7, <1>9, <1>10 DEF Answering

LEMMA DhcpClientIn ==
  ASSUME Deployment, OwedInv, NEW p, p.protocol = UDP, p.dport = DHCP_CLIENT_PORT,
         1 \in DOMAIN bindings, bindings[1].src_port = p.dport,
         NEW at, dhcp_in(p, 1, at), UNCHANGED build, OtherServices(p)
  PROVE  /\ \A i \in Waiting : \A c : c = connections[i] => Owing(c)' = Owing(c)
         /\ CallbacksInv' /\ Answering(p, at)
<1> DEFINE waiting == transaction.state \in {"SELECTING", "REQUESTING"}
           ours == waiting /\ p.xid = transaction.xid
           offer == ours /\ p.type = "OFFER" /\ transaction.state = "SELECTING"
           ack == ours /\ p.type = "ACK" /\ transaction.state = "REQUESTING"
           server == IF offer \/ ack \/ (ours /\ p.serverFirst) THEN p.server
                     ELSE transaction.server_ip
           args == IF offer THEN Args(DHCP_CLIENT_PORT, DHCP_SERVER_PORT, at)
                   ELSE Args(p.sport, p.dport, at)
<1>1. /\ transaction' = [transaction EXCEPT
           !.state = IF offer THEN "REQUESTING" ELSE IF ack THEN "BOUND" ELSE transaction.state,
           !.offered_ip = IF offer THEN p.yiaddr ELSE transaction.offered_ip,
           !.server_ip = server]
      /\ bindings' = [bindings EXCEPT ![1].args = args]
      /\ Answered(at, p, IF offer THEN 1 ELSE 0)
      /\ UNCHANGED icmp
  BY DEF dhcp_in
<1>2. DOMAIN transaction = {"state", "xid", "offered_ip", "server_ip"}
  BY DEF OwedInv, CallbacksInv
<1>3. offer <=> p.xid = transaction.xid /\ p.type = "OFFER" /\ transaction.state = "SELECTING"
  OBVIOUS
<1> HIDE DEF offer, ack, server, args
<1>4. /\ DOMAIN transaction' = DOMAIN transaction
      /\ offer => /\ transaction'.state = "REQUESTING" /\ transaction'.offered_ip = p.yiaddr
                  /\ transaction'.server_ip = server
  BY <1>1, <1>2
<1>5. /\ CallbacksInv' /\ DOMAIN bindings' = DOMAIN bindings
      /\ bindings'[1].src_port = bindings[1].src_port /\ bindings'[1].args = args
  BY <1>1, <1>4, CallbackStored DEF OwedInv
<1>6. Has("dhcpclient")
  BY BindingOfBuild DEF Deployment, OwedInv, DHCP_CLIENT_PORT, TEST_PORT
<1>7. ASSUME NEW i \in Waiting, NEW c, c = connections[i] PROVE Owing(c)' = Owing(c)
  <2>1. c.protocol = ICMP
    BY <1>7, NoUdpWaiting
  <2> QED
    BY <1>1, <2>1 DEF Owing, ICMP, ICMP6, UDP
<1>8. Answers(p) = IF offer
                   THEN {Datagram(p.from, DHCP_CLIENT_PORT, DHCP_SERVER_PORT, REQUEST(p.yiaddr, p.server))}
                   ELSE {}
  BY <1>3, <1>6 DEF Answers, ICMP, ICMP6, UDP, DHCP_CLIENT_PORT, TEST_PORT
<1>9. CASE ~ offer
  BY <1>1, <1>5, <1>7, <1>8, <1>9 DEF Answered, Answering
<1>10. CASE offer
  <2>1. PICK b : b = Datagram(p.from, DHCP_CLIENT_PORT, DHCP_SERVER_PORT, REQUEST(p.yiaddr, p.server))
    OBVIOUS
  <2>2. Answers(p) = {b}
    BY <1>8, <1>10, <2>1
  <2>3. PICK c : c = GpIp(at, p.protocol, p.from, 1)
    OBVIOUS
  <2>4. c.protocol = UDP /\ c.ip = p.from /\ c.at = at
    BY <2>3 DEF GpIp
  <2>5. connections' = Append(connections, c)
    BY <1>1, <1>10, <2>3 DEF Answered
  <2>6. args.src_port = DHCP_CLIENT_PORT /\ args.dst_port = DHCP_SERVER_PORT /\ args.connection_info = at
    BY <1>10 DEF args, Args
  <2>7. server = p.server
    BY <1>10 DEF server
  <2>8. Owing(c)' = [service |-> Service(p), answer |-> b]
    <3>1. Owing(c)' = [service |-> bindings'[1].src_port,
                       answer |-> Datagram(c.ip, bindings'[1].args.src_port, bindings'[1].args.dst_port,
                                           Body(bindings[1].src_port)')]
      BY <2>4 DEF Owing, Datagram, ICMP, ICMP6, UDP
    <3>2. Body(bindings[1].src_port)' = REQUEST(p.yiaddr, p.server)
      BY <1>4, <1>5, <1>10, <2>7 DEF Body, REQUEST
    <3> QED
      BY <1>5, <2>1, <2>4, <2>6, <3>1, <3>2 DEF Service
  <2>9. Found(c)'
    <3>1. bindings'[1].args.connection_info = at /\ 1 \in DOMAIN bindings'
      BY <1>5, <2>6
    <3> QED
      BY <2>4, <3>1 DEF Found, ICMP6, UDP
  <2> QED
    BY <1>5, <1>7, <2>2, <2>3, <2>5, <2>8, <2>9 DEF Answering
<1> QED
  BY <1>9, <1>10

\* The question that is read becomes an answer that is due, or is no more.
LEMMA QuestionsReceived ==
  ASSUME QueuesInv, QuestionsInv, rx # << >>, rx' = Tail(rx), UNCHANGED build,
         \/ due' = due
         \/ \E b : due' = Append(due, [service |-> Service(Head(rx)), answer |-> b])
  PROVE  QueuesInv' /\ QuestionsInv'
<1>1. PICK D : due \in Seq(D)
  BY DEF QueuesInv
<1>2. PICK V : rx \in Seq(V)
  BY DEF QueuesInv
<1>3. PICK r : r = rx'
  OBVIOUS
<1>4. /\ Len(rx) \in Nat /\ Len(rx) >= 1 /\ DOMAIN rx = 1 .. Len(rx) /\ DOMAIN r = 1 .. Len(rx) - 1
      /\ \A i \in 1 .. Len(rx) - 1 : r[i] = rx[i + 1]
      /\ Head(rx) = rx[1] /\ r \in Seq(V)
  BY <1>2, <1>3
<1>5. \A i \in DOMAIN r : i + 1 \in DOMAIN rx /\ i + 1 # 1 /\ r[i] = rx[i + 1]
  BY <1>4
<1>6. \A i, j \in DOMAIN r : i # j => Service(r[i]) # Service(r[j]) \/ Service(r[i]) \in Bursty
  <2> TAKE i, j \in DOMAIN r
  <2>1. i # j => i + 1 # j + 1
    BY <1>4
  <2> QED
    BY <1>5, <2>1 DEF QuestionsInv
<1>7. \A p : Service(p)' = Service(p)
  BY DEF Service
<1>8. CASE due' = due
  <2>1. \A i \in DOMAIN r, j \in DOMAIN due : Service(r[i]) # due[j].service \/ Service(r[i]) \in Bursty
    BY <1>5 DEF QuestionsInv
  <2>2. QuestionsInv'
    BY <1>3, <1>6, <1>7, <1>8, <2>1 DEF QuestionsInv
  <2> QED
    BY <1>1, <1>3, <1>4, <1>8, <2>2 DEF QueuesInv
<1>9. ASSUME NEW b, due' = Append(due, [service |-> Service(Head(rx)), answer |-> b])
      PROVE  QueuesInv' /\ QuestionsInv'
  <2>1. PICK x : x = [service |-> Service(Head(rx)), answer |-> b]
    OBVIOUS
  <2>2. x.service = Service(rx[1])
    BY <1>4, <2>1
  <2>3. PICK d : d = due'
    OBVIOUS
  <2>4. PICK E : E = D \cup {x}
    OBVIOUS
  <2>5. due \in Seq(E) /\ x \in E
    BY <1>1, <2>4, SeqMonotonic
  <2>6. /\ d \in Seq(E) /\ DOMAIN due = 1 .. Len(due) /\ Len(due) \in Nat /\ DOMAIN d = 1 .. Len(due) + 1
        /\ d[Len(due) + 1] = x /\ \A i \in 1 .. Len(due) : d[i] = due[i]
    BY <1>9, <2>1, <2>3, <2>5, AppendProperties
  <2>7. 1 \in DOMAIN rx
    BY <1>4
  <2>8. \A j \in DOMAIN due : due[j].service # x.service \/ x.service \in Bursty
    BY <2>2, <2>7 DEF QuestionsInv
  <2>9. \A i, j \in DOMAIN d : i # j => d[i].service # d[j].service \/ d[i].service \in Bursty
    <3> SUFFICES ASSUME NEW i \in DOMAIN d, NEW j \in DOMAIN d, i # j, d[i].service = d[j].service
                 PROVE  d[i].service \in Bursty
      OBVIOUS
    <3>1. CASE i = Len(due) + 1
      <4>1. j \in DOMAIN due /\ d[j] = due[j]
        BY <2>6, <3>1
      <4> QED
        BY <2>6, <2>8, <3>1, <4>1
    <3>2. CASE j = Len(due) + 1
      <4>1. i \in DOMAIN due /\ d[i] = due[i]
        BY <2>6, <3>2
      <4> QED
        BY <2>6, <2>8, <3>2, <4>1
    <3>3. CASE i # Len(due) + 1 /\ j # Len(due) + 1
      <4>1. i \in DOMAIN due /\ d[i] = due[i] /\ j \in DOMAIN due /\ d[j] = due[j]
        BY <2>6, <3>3
      <4> QED
        BY <4>1 DEF QuestionsInv
    <3> QED
      BY <3>1, <3>2, <3>3
  <2>10. \A i \in DOMAIN r, j \in DOMAIN d : Service(r[i]) # d[j].service \/ Service(r[i]) \in Bursty
    <3> TAKE i \in DOMAIN r, j \in DOMAIN d
    <3>1. CASE j = Len(due) + 1
      BY <1>5, <2>2, <2>6, <2>7, <3>1 DEF QuestionsInv
    <3>2. CASE j # Len(due) + 1
      <4>1. j \in DOMAIN due /\ d[j] = due[j]
        BY <2>6, <3>2
      <4> QED
        BY <1>5, <4>1 DEF QuestionsInv
    <3> QED
      BY <3>1, <3>2
  <2>11. QuestionsInv'
    BY <1>3, <1>6, <1>7, <2>3, <2>9, <2>10 DEF QuestionsInv
  <2> QED
    BY <1>3, <1>4, <2>3, <2>6, <2>11 DEF QueuesInv
<1> QED
  BY <1>8, <1>9

LEMMA ServicesReceived ==
  ASSUME ServicesInv, NEW p, p.protocol \in Protocols, NEW b, Answers(p) = {b},
         NEW D, due \in Seq(D), due' = Append(due, [service |-> Service(p), answer |-> b])
  PROVE  ServicesInv'
<1>1. AnswerService(b) = Service(p)
  <2>1. p.protocol \in {ICMP, ICMP6, UDP}
    BY DEF Protocols
  <2>2. b \in Answers(p)
    OBVIOUS
  <2>3. CASE p.protocol = ICMP
    <3>1. b = [protocol |-> ICMP, to |-> p.from, data |-> p.data, added |-> 1]
      BY <2>2, <2>3 DEF Answers, ICMP, ICMP6, UDP
    <3> QED
      BY <2>3, <3>1 DEF AnswerService, Service, ICMP, UDP
  <2>4. CASE p.protocol = ICMP6
    <3>1. b = [protocol |-> ICMP6, to |-> p.from, target |-> p.target]
      BY <2>2, <2>4 DEF Answers, ICMP, ICMP6, UDP
    <3> QED
      BY <2>4, <3>1 DEF AnswerService, Service, ICMP6, UDP
  <2>5. CASE p.protocol = UDP
    <3>1. \E dport, body : b = Datagram(p.from, p.dport, dport, body)
      BY <2>2, <2>5 DEF Answers, ICMP, ICMP6, UDP
    <3>2. b.protocol = UDP /\ b.sport = p.dport
      BY <3>1 DEF Datagram
    <3> QED
      BY <2>5, <3>2 DEF AnswerService, Service
  <2> QED
    BY <2>1, <2>3, <2>4, <2>5
<1>2. PICK x : x = [service |-> Service(p), answer |-> b]
  OBVIOUS
<1>3. x.service = AnswerService(x.answer) /\ x = [service |-> AnswerService(x.answer), answer |-> x.answer]
  BY <1>1, <1>2
<1>4. PICK d : d = due'
  OBVIOUS
<1>5. /\ DOMAIN d = DOMAIN due \cup {Len(due) + 1} /\ d[Len(due) + 1] = x
      /\ \A k \in DOMAIN due : d[k] = due[k]
  BY <1>2, <1>4
<1>6. \A k \in DOMAIN d : d[k] = [service |-> AnswerService(d[k].answer), answer |-> d[k].answer]
  BY <1>3, <1>5 DEF ServicesInv
<1> QED
  BY <1>4, <1>6 DEF ServicesInv, AnswerService

\* doPacketIn leaves what the connections that wait owe, and what the new one
\* owes is the answer to the packet.
LEMMA PacketIn ==
  ASSUME Deployment, OwedInv, NEW p, p.protocol \in Protocols, NEW at, dopacketin(p, at),
         UNCHANGED build, OtherServices(p)
  PROVE  /\ \A i \in Waiting : \A c : c = connections[i] => Owing(c)' = Owing(c)
         /\ \A i \in DOMAIN connections : \A c : c = connections[i] => Found(c)'
         /\ CallbacksInv' /\ Answering(p, at)
<1>1. p.protocol \in {ICMP, ICMP6, UDP}
  BY DEF Protocols
<1>2. FoundInv /\ CallbacksInv /\ ProtocolsInv
  BY DEF OwedInv
<1>3. CASE p.protocol = ICMP
  <2>1. icmp4_packet_in(p, at)
    BY <1>3 DEF dopacketin, ICMP, ICMP6, UDP
  <2> QED
    BY <1>2, <1>3, <2>1, Icmp4In
<1>4. CASE p.protocol = ICMP6
  <2>1. icmp6_packet_in(p, at)
    BY <1>4 DEF dopacketin, ICMP, ICMP6, UDP
  <2> QED
    BY <1>2, <1>4, <2>1, Icmp6In
<1>5. CASE p.protocol = UDP
  <2>1. udp_packet_in(p, at)
    BY <1>5 DEF dopacketin, ICMP, ICMP6, UDP
  <2>2. CASE get_callback(p.dport) = {}
    <3>1. UNCHANGED apps /\ connections' = connections
      BY <2>1, <2>2 DEF udp_packet_in, Answered
    <3>2. \A c : Owing(c)' = Owing(c)
      BY <3>1, AppsKept
    <3>3. \A i \in DOMAIN connections : \A c : c = connections[i] => Found(c)'
      BY <1>2, <3>1, FoundKept DEF FoundInv, apps
    <3>4. CallbacksInv'
      BY <1>2, <3>1, CallbacksKept DEF apps
    <3>5. ~ \E i \in DOMAIN bindings : bindings[i].src_port = p.dport
      <4>1. ASSUME NEW i \in DOMAIN bindings, bindings[i].src_port = p.dport
            PROVE  i \in get_callback(p.dport)
        <5>1. \A j \in DOMAIN bindings : j = 1
          BY BindingOfBuild DEF Deployment, OwedInv
        <5> QED
          BY <4>1, <5>1 DEF get_callback, FirstBinding
      <4> QED
        BY <2>2, <4>1
    <3>6. Answers(p) = {}
      <4>1. ~ (p.dport = TEST_PORT /\ Has("udp_test")) /\ ~ (p.dport = DHCP_CLIENT_PORT /\ Has("dhcpclient"))
        BY <3>5, BindingOfBuild DEF Deployment, OwedInv
      <4> QED
        BY <1>5, <4>1 DEF Answers, ICMP, ICMP6, UDP
    <3> QED
      BY <3>1, <3>2, <3>3, <3>4, <3>6 DEF Answering
  <2>3. CASE get_callback(p.dport) # {}
    <3>1. PICK i \in get_callback(p.dport) :
            IF p.dport = DHCP_CLIENT_PORT THEN dhcp_in(p, i, at) ELSE udp_test_in(p, i, at)
      BY <2>1, <2>3 DEF udp_packet_in
    <3>2. i \in DOMAIN bindings /\ bindings[i].src_port = p.dport
      BY <3>1 DEF get_callback, FirstBinding
    <3>3. i = 1
      BY <3>2, BindingOfBuild DEF Deployment, OwedInv
    <3>4. \A j \in DOMAIN connections : \A c : c = connections[j] => Found(c)'
      <4> SUFFICES ASSUME NEW j \in DOMAIN connections, NEW c, c = connections[j]
                   PROVE  Found(c)'
        OBVIOUS
      <4>1. c.protocol # UDP
        <5>1. CASE j \in Waiting
          <6>1. connections[j].protocol \in {ICMP, ICMP6}
            BY <1>5, <3>2, <3>3, <5>1, NoUdpWaiting
          <6> QED
            BY <6>1 DEF ICMP, ICMP6, UDP
        <5>2. CASE j \notin Waiting
          BY <5>2 DEF Waiting, TCP, UDP
        <5> QED
          BY <5>1, <5>2
      <4>2. Found(c)
        BY <1>2 DEF FoundInv
      <4> QED
        BY <4>1, <4>2 DEF Found, Has
    <3>5. CASE p.dport = DHCP_CLIENT_PORT
      BY <1>5, <3>1, <3>2, <3>3, <3>4, <3>5, DhcpClientIn
    <3>6. CASE p.dport # DHCP_CLIENT_PORT
      BY <1>5, <3>1, <3>2, <3>3, <3>4, <3>6, UdpTestIn
    <3> QED
      BY <3>5, <3>6
  <2> QED
    BY <2>2, <2>3
<1> QED
  BY <1>1, <1>3, <1>4, <1>5

LEMMA ReceiveOwed ==
  ASSUME Deployment, OwedInv, ProtocolsInv', smews_receive
  PROVE  OwedInv'
<1>1. rx # << >> /\ rx' = Tail(rx) /\ UNCHANGED <<build, spurious>>
  BY DEF smews_receive
<1>2. QueuesInv /\ QuestionsInv /\ ServicesInv /\ MatchingInv /\ FoundInv /\ CallbacksInv /\ ProtocolsInv /\ AnswersAreOwed
  BY DEF OwedInv
<1>3. AnswersAreOwed'
  BY <1>1, <1>2 DEF AnswersAreOwed
<1>4. CASE UNCHANGED <<connections, apps, due>>
  <2>1. FoundInv' /\ MatchingInv'
    BY <1>1, <1>2, <1>4, CircleStep
  <2>2. QueuesInv' /\ QuestionsInv' /\ ServicesInv'
    BY <1>1, <1>2, <1>4, QuestionsReceived DEF ServicesInv
  <2>3. CallbacksInv'
    BY <1>1, <1>2, <1>4, CallbacksKept DEF apps
  <2> QED
    BY <1>3, <2>1, <2>2, <2>3 DEF OwedInv
<1>5. CASE ~ UNCHANGED <<connections, apps, due>>
  <2>1. PICK p : p = Head(rx)
    OBVIOUS
  <2>2. PICK at : p.protocol \in Protocols /\ dopacketin(p, at) /\ Owe(p)
    BY <1>5, <2>1 DEF smews_receive, smews_gpip_get_output_handler
  <2>3. OtherServices(p)
    <3>1. 1 \in DOMAIN rx /\ rx[1] = p
      <4>1. PICK V : rx \in Seq(V)
        BY <1>2 DEF QueuesInv
      <4> QED
        BY <1>1, <2>1, <4>1
    <3>2. \A k \in DOMAIN due : Service(p) # due[k].service \/ Service(p) \in Bursty
      BY <1>2, <3>1 DEF QuestionsInv
    <3>3. \A i \in Waiting : \E k \in DOMAIN due : due[k] = Owing(connections[i])
      BY <1>2, EachIsOwed
    <3> QED
      BY <3>2, <3>3 DEF OtherServices
  <2>4. /\ \A i \in Waiting : \A c : c = connections[i] => Owing(c)' = Owing(c)
        /\ \A i \in DOMAIN connections : \A c : c = connections[i] => Found(c)'
        /\ CallbacksInv' /\ Answering(p, at)
    BY <1>1, <2>2, <2>3, PacketIn
  <2>5. PICK D : due \in Seq(D)
    BY <1>2 DEF QueuesInv
  <2>6. CASE Answers(p) = {} /\ connections' = connections
    <3>1. due' = due
      BY <2>2, <2>5, <2>6, OweNothing
    <3>2. QueuesInv' /\ QuestionsInv' /\ ServicesInv'
      BY <1>1, <1>2, <3>1, QuestionsReceived DEF ServicesInv
    <3>3. FoundInv'
      <4>1. \A i \in DOMAIN connections : Found(connections[i])'
        BY <2>4, <2>6
      <4> QED
        BY <2>6, <4>1 DEF FoundInv
    <3>4. MatchingInv'
      <4>1. PICK g : g = [k \in DOMAIN connections |-> k]
        OBVIOUS
      <4>2. PICK I : I = Waiting
        OBVIOUS
      <4>3. PICK d : d = due'
        OBVIOUS
      <4>4. I \subseteq DOMAIN connections /\ Matching(I, Owings, d)
        BY <1>2, <3>1, <4>2, <4>3 DEF MatchingInv, Waiting
      <4>5. Waiting' = I
        BY <2>6, <4>2 DEF Waiting
      <4>6. \A k \in Waiting' : g[k] \in I /\ connections'[k] = connections[g[k]]
        BY <2>6, <4>1, <4>4, <4>5
      <4>7. \A j, k \in Waiting' : g[j] = g[k] => j = k
        BY <4>1, <4>4, <4>5
      <4>8. \A i \in I : \A c : c = connections[i] => Owing(c)' = Owing(c)
        BY <2>4, <4>2
      <4> QED
        BY <4>3, <4>4, <4>6, <4>7, <4>8, MatchingKept
    <3> QED
      BY <1>3, <2>4, <3>2, <3>3, <3>4 DEF OwedInv
  <2>7. ASSUME NEW b, NEW want, Answers(p) = {b},
               connections' = Append(connections, GpIp(at, p.protocol, p.from, want)),
               Owing(GpIp(at, p.protocol, p.from, want))' = [service |-> Service(p), answer |-> b],
               Found(GpIp(at, p.protocol, p.from, want))'
        PROVE  OwedInv'
    <3>1. PICK c : c = GpIp(at, p.protocol, p.from, want)
      OBVIOUS
    <3>2. PICK x : x = [service |-> Service(p), answer |-> b]
      OBVIOUS
    <3>3. connections' = Append(connections, c) /\ Owing(c)' = x /\ Found(c)'
      BY <2>7, <3>1, <3>2
    <3>4. due' = Append(due, x)
      BY <2>2, <2>5, <2>7, <3>2, OweOne
    <3>5. QueuesInv' /\ QuestionsInv' /\ ServicesInv'
      BY <1>1, <1>2, <2>1, <2>2, <2>5, <2>7, <3>2, <3>4, QuestionsReceived, ServicesReceived
    <3>6. PICK W : connections \in Seq(W)
      BY <1>2 DEF ProtocolsInv
    <3>7. PICK n : n = Len(connections) + 1
      OBVIOUS
    <3>8. /\ DOMAIN connections' = DOMAIN connections \cup {n} /\ n \notin DOMAIN connections
          /\ \A k \in DOMAIN connections : connections'[k] = connections[k]
          /\ connections'[n] = c
      BY <3>3, <3>6, <3>7
    <3>9. FoundInv'
      <4>1. ASSUME NEW k \in DOMAIN connections'
            PROVE  Found(connections[k])'
        <5>1. CASE k \in DOMAIN connections
          <6>1. PICK e : e = connections[k]
            OBVIOUS
          <6>2. Found(e)' /\ e = connections'[k]
            BY <2>4, <3>8, <5>1, <6>1
          <6> QED
            BY <6>2
        <5>2. CASE k = n
          BY <3>3, <3>8, <5>2
        <5> QED
          BY <3>8, <5>1, <5>2
      <4> QED
        BY <4>1 DEF FoundInv
    <3>10. MatchingInv'
      <4>1. PICK I : I = Waiting
        OBVIOUS
      <4>2. PICK w : w = Owings
        OBVIOUS
      <4>3. PICK v : v = Owings'
        OBVIOUS
      <4>4. PICK E : E = D \cup {x}
        OBVIOUS
      <4>5. due \in Seq(E) /\ x \in E
        BY <2>5, <4>4, SeqMonotonic
      <4>6. Matching(I, w, due) /\ I \subseteq DOMAIN connections
        BY <1>2, <4>1, <4>2 DEF MatchingInv, Waiting
      <4>7. n \notin I
        BY <3>8, <4>6
      <4>8. v[n] = x
        <5>1. v[n] = Owing(connections[n])'
          BY <3>8, <4>3 DEF Owings
        <5> QED
          BY <3>3, <3>8, <5>1
      <4>9. ASSUME NEW i \in I PROVE v[i] = w[i]
        <5>1. PICK e : e = connections[i]
          OBVIOUS
        <5>2. i \in DOMAIN connections /\ e = connections'[i] /\ Owing(e)' = Owing(e)
          BY <2>4, <3>8, <4>1, <4>6, <5>1
        <5>3. v[i] = Owing(connections[i])'
          BY <3>8, <4>3, <5>2 DEF Owings
        <5>4. w[i] = Owing(e)
          BY <4>2, <5>1, <5>2 DEF Owings
        <5> QED
          BY <5>2, <5>3, <5>4
      <4>10. PICK d : d = due
        OBVIOUS
      <4>11. d \in Seq(E) /\ Matching(I, w, d)
        BY <4>5, <4>6, <4>10
      <4>12. Matching(I \cup {n}, v, Append(d, x))
        BY <4>5, <4>7, <4>8, <4>9, <4>11, MatchingAdded
      <4>13. Waiting' = I \cup {n}
        <5>1. c.protocol # TCP
          <6>1. c.protocol = p.protocol
            BY <3>1 DEF GpIp
          <6> QED
            BY <2>2, <6>1 DEF Protocols, ICMP, ICMP6, UDP, TCP
        <5> QED
          BY <3>8, <4>1, <5>1 DEF Waiting
      <4> QED
        BY <3>4, <4>3, <4>10, <4>12, <4>13 DEF MatchingInv
    <3> QED
      BY <1>3, <2>4, <3>5, <3>9, <3>10 DEF OwedInv
  <2> QED
    BY <2>4, <2>6, <2>7 DEF Answering
<1> QED
  BY <1>4, <1>5

\* The answer that is sent is the one that the connection owes.
LEMMA EmitOwed ==
  ASSUME OwedInv, NEW i \in Waiting, NEW packet, packet = Owing(connections[i]).answer, Emit(packet)
  PROVE  /\ \E k \in DOMAIN due : due[k] = Owings[i] /\ due' = RemoveAt(due, k)
         /\ spurious' = spurious
<1>1. PICK owed : owed = {k \in DOMAIN due : due[k].answer = packet}
  OBVIOUS
<1>2. PICK m \in DOMAIN due : due[m] = Owing(connections[i])
  BY EachIsOwed DEF OwedInv
<1>3. m \in owed
  BY <1>1, <1>2
<1>4. PICK k : k = CHOOSE j \in owed : TRUE
  OBVIOUS
<1>5. k \in owed
  BY <1>3, <1>4
<1>6. due' = RemoveAt(due, k) /\ spurious' = spurious
  BY <1>1, <1>3, <1>4 DEF Emit
<1>7. k \in DOMAIN due /\ due[k].answer = due[m].answer
  BY <1>1, <1>2, <1>5
<1>8. due[k] = due[m]
  <2>1. /\ due[k] = [service |-> AnswerService(due[k].answer), answer |-> due[k].answer]
        /\ due[m] = [service |-> AnswerService(due[m].answer), answer |-> due[m].answer]
    BY <1>7 DEF OwedInv, ServicesInv
  <2> QED
    BY <1>7, <2>1
<1>9. Owings[i] = Owing(connections[i])
  BY DEF Owings, Waiting
<1> QED
  BY <1>2, <1>6, <1>7, <1>8, <1>9

LEMMA QuestionsSent ==
  ASSUME QueuesInv, QuestionsInv, ServicesInv, NEW k \in DOMAIN due, due' = RemoveAt(due, k),
         UNCHANGED <<rx, build>>
  PROVE  QueuesInv' /\ QuestionsInv' /\ ServicesInv'
<1>1. PICK D : due \in Seq(D)
  BY DEF QueuesInv
<1>2. PICK d : d = due'
  OBVIOUS
<1>3. /\ d \in Seq(D) /\ Len(d) = Len(due) - 1
      /\ \A i \in 1 .. Len(due) - 1 : d[i] = IF i < k THEN due[i] ELSE due[i + 1]
  BY <1>1, <1>2, Removed
<1>4. PICK g : g = [i \in DOMAIN d |-> IF i < k THEN i ELSE i + 1]
  OBVIOUS
<1>5. \A i \in DOMAIN d : g[i] \in DOMAIN due /\ d[i] = due[g[i]]
  <2>1. DOMAIN d = 1 .. Len(due) - 1 /\ DOMAIN due = 1 .. Len(due) /\ Len(due) \in Nat /\ k \in Nat
    BY <1>1, <1>3
  <2> QED
    BY <1>3, <1>4, <2>1
<1>6. \A i, j \in DOMAIN d : i # j => g[i] # g[j]
  <2>1. DOMAIN d \subseteq Nat /\ k \in Nat
    BY <1>1, <1>3
  <2> QED
    BY <1>4, <2>1
<1>7. \A p : Service(p)' = Service(p)
  BY DEF Service
<1>8. \A i, j \in DOMAIN d : i # j => d[i].service # d[j].service \/ d[i].service \in Bursty
  BY <1>5, <1>6 DEF QuestionsInv
<1>9. \A i \in DOMAIN rx, j \in DOMAIN d : Service(rx[i]) # d[j].service \/ Service(rx[i]) \in Bursty
  BY <1>5 DEF QuestionsInv
<1>10. QuestionsInv'
  BY <1>2, <1>7, <1>8, <1>9 DEF QuestionsInv
<1>11. ServicesInv'
  <2>1. \A i \in DOMAIN d : d[i] = [service |-> AnswerService(d[i].answer), answer |-> d[i].answer]
    BY <1>5 DEF ServicesInv
  <2> QED
    BY <1>2, <2>1 DEF ServicesInv, AnswerService
<1> QED
  BY <1>2, <1>3, <1>10, <1>11 DEF QueuesInv

\* doPacketOut writes what the connection owes and leaves what the others owe.
LEMMA PacketOut ==
  ASSUME Deployment, OwedInv, NEW i \in Waiting, dopacketout(connections[i]), UNCHANGED build
  PROVE  /\ Emit(Owing(connections[i]).answer)
         /\ \A j \in Waiting \ {i} : \A c : c = connections[j] => Owing(c)' = Owing(c)
         /\ UNCHANGED bindings /\ CallbacksInv'
<1>1. PICK e : e = connections[i]
  OBVIOUS
<1>2. e.protocol \in {ICMP, ICMP6, UDP} /\ Found(e) /\ CallbacksInv /\ dopacketout(e)
  BY <1>1, ProtocolOfWaiting DEF OwedInv, FoundInv, Waiting
<1>3. ASSUME NEW j \in Waiting \ {i}, NEW c, c = connections[j], c.protocol = e.protocol
      PROVE  c.protocol = ICMP6
  <2>1. Owing(c).service # Owing(e).service \/ Owing(e).service \in Bursty
    BY <1>1, <1>3, EachIsOwed DEF OwedInv
  <2>2. Owing(c).service = Owing(e).service
    BY <1>2, <1>3, OwingService
  <2>3. Owing(e).service = IF e.protocol = UDP THEN bindings[1].src_port ELSE e.protocol
    BY <1>2, OwingService
  <2>4. CASE e.protocol = UDP
    <3>1. 1 \in DOMAIN bindings
      BY <1>2, <2>4 DEF Found
    <3>2. bindings[1].src_port \in {DHCP_CLIENT_PORT, TEST_PORT}
      BY <3>1, BindingOfBuild DEF Deployment, OwedInv
    <3> QED
      BY <2>1, <2>2, <2>3, <2>4, <3>2 DEF Deployment, ICMP6, DHCP_CLIENT_PORT, TEST_PORT
  <2>5. CASE e.protocol # UDP
    BY <1>3, <2>1, <2>2, <2>3, <2>5 DEF Deployment
  <2> QED
    BY <2>4, <2>5
<1>4. ASSUME NEW j \in Waiting \ {i}, NEW c, c = connections[j]
      PROVE  c.protocol \in {ICMP, ICMP6, UDP} /\ (c.protocol = e.protocol => c.protocol = ICMP6)
  BY <1>3, <1>4, ProtocolOfWaiting DEF OwedInv
<1>5. CASE e.protocol = ICMP
  <2>1. icmp4_packet_out(e)
    BY <1>2, <1>5 DEF dopacketout, ICMP, ICMP6, UDP
  <2>2. /\ Emit([protocol |-> ICMP, to |-> e.ip, data |-> icmp.data, added |-> icmp.added + 1])
        /\ UNCHANGED <<bindings, transaction, local_ip_addr>>
    BY <2>1 DEF icmp4_packet_out
  <2>3. Owing(e).answer = [protocol |-> ICMP, to |-> e.ip, data |-> icmp.data, added |-> icmp.added + 1]
    BY <1>5 DEF Owing, ICMP, ICMP6, UDP
  <2>4. ASSUME NEW j \in Waiting \ {i}, NEW c, c = connections[j]
        PROVE  Owing(c)' = Owing(c)
    <3>1. c.protocol \in {ICMP6, UDP}
      BY <1>4, <1>5, <2>4 DEF ICMP, ICMP6
    <3> QED
      BY <2>2, <3>1 DEF Owing, Body, ICMP, ICMP6, UDP
  <2>5. CallbacksInv'
    BY <1>2, <2>2, CallbacksKept
  <2> QED
    BY <1>1, <2>2, <2>3, <2>4, <2>5
<1>6. CASE e.protocol = ICMP6
  <2>1. icmp6_packet_out(e)
    BY <1>2, <1>6 DEF dopacketout, ICMP, ICMP6, UDP
  <2>2. Emit([protocol |-> ICMP6, to |-> e.ip, target |-> local_ip_addr]) /\ UNCHANGED apps
    BY <1>2, <1>6, <2>1 DEF icmp6_packet_out, get_send_code, Found
  <2>3. Owing(e).answer = [protocol |-> ICMP6, to |-> e.ip, target |-> local_ip_addr]
    BY <1>6 DEF Owing, ICMP, ICMP6, UDP
  <2>4. \A c : Owing(c)' = Owing(c)
    BY <2>2, AppsKept
  <2>5. CallbacksInv'
    BY <1>2, <2>2, CallbacksKept DEF apps
  <2> QED
    BY <1>1, <2>2, <2>3, <2>4, <2>5 DEF apps
<1>7. CASE e.protocol = UDP
  <2>1. udp_packet_out(e)
    BY <1>2, <1>7 DEF dopacketout, ICMP, ICMP6, UDP
  <2>2. /\ 1 \in DOMAIN bindings /\ bindings[1].args.connection_info = e.at
        /\ \A k \in DOMAIN bindings : k = 1
    BY <1>2, <1>7, BindingOfBuild DEF Found, Deployment, OwedInv
  <2>3. get_callback_from_connection(e.at) = {1}
    BY <2>2 DEF get_callback_from_connection, FirstBinding
  <2>4. /\ IF bindings[1].src_port = DHCP_CLIENT_PORT THEN dhcp_out(e, bindings[1].args)
           ELSE udp_test_out(e, bindings[1].args)
        /\ UNCHANGED <<bindings, icmp, local_ip_addr>>
    BY <2>1, <2>3 DEF udp_packet_out
  <2>5. Owing(e).answer = Datagram(e.ip, bindings[1].args.src_port, bindings[1].args.dst_port,
                                   Body(bindings[1].src_port))
    BY <1>7 DEF Owing, ICMP, ICMP6, UDP
  <2>6. Emit(Owing(e).answer) /\ DOMAIN transaction' = DOMAIN transaction
    <3>1. CASE bindings[1].src_port = DHCP_CLIENT_PORT
      <4>1. dhcp_out(e, bindings[1].args)
        BY <2>4, <3>1
      <4>2. Emit(Datagram(e.ip, bindings[1].args.src_port, bindings[1].args.dst_port,
                          Body(bindings[1].src_port)))
        BY <3>1, <4>1 DEF dhcp_out, Body
      <4>3. DOMAIN transaction' = DOMAIN transaction
        BY <4>1 DEF dhcp_out
      <4> QED
        BY <2>5, <4>2, <4>3
    <3>2. CASE bindings[1].src_port # DHCP_CLIENT_PORT
      BY <2>4, <2>5, <3>2 DEF udp_test_out, Body
    <3> QED
      BY <3>1, <3>2
  <2>7. ASSUME NEW j \in Waiting \ {i}, NEW c, c = connections[j]
        PROVE  Owing(c)' = Owing(c)
    <3>1. c.protocol \in {ICMP, ICMP6}
      BY <1>4, <1>7, <2>7 DEF UDP, ICMP6
    <3> QED
      BY <2>4, <3>1 DEF Owing, ICMP, ICMP6, UDP
  <2>8. CallbacksInv'
    BY <1>2, <2>4, <2>6, CallbacksKept
  <2> QED
    BY <1>1, <2>4, <2>6, <2>7, <2>8
<1> QED
  BY <1>2, <1>5, <1>6, <1>7

LEMMA SendOwed ==
  ASSUME Deployment, OwedInv, ProtocolsInv', smews_send
  PROVE  OwedInv'
<1>1. UNCHANGED <<rx, build>>
  BY DEF smews_send
<1>2. QueuesInv /\ QuestionsInv /\ ServicesInv /\ MatchingInv /\ FoundInv /\ CallbacksInv /\ ProtocolsInv
      /\ AnswersAreOwed
  BY DEF OwedInv
<1>3. PICK i \in DOMAIN connections :
        IF connections[i].protocol = TCP
        THEN /\ connections' = Append(After(i), connections[i])
             /\ UNCHANGED <<apps, due, sent, spurious>>
        ELSE dopacketout(connections[i]) /\ connections' = After(i)
  BY DEF smews_send
<1>4. CASE connections[i].protocol = TCP
  <2>1. connections' = Append(After(i), connections[i]) /\ UNCHANGED <<apps, due, spurious>>
    BY <1>3, <1>4
  <2>2. FoundInv' /\ MatchingInv'
    BY <1>1, <1>2, <1>4, <2>1, CircleStep
  <2>3. CallbacksInv'
    BY <1>1, <1>2, <2>1, CallbacksKept DEF apps
  <2>4. QueuesInv' /\ QuestionsInv' /\ ServicesInv' /\ AnswersAreOwed'
    BY <1>1, <1>2, <2>1 DEF QueuesInv, QuestionsInv, ServicesInv, AnswersAreOwed, Service, AnswerService
  <2> QED
    BY <2>2, <2>3, <2>4 DEF OwedInv
<1>5. CASE connections[i].protocol # TCP
  <2>1. i \in Waiting /\ dopacketout(connections[i]) /\ connections' = After(i)
    BY <1>3, <1>5 DEF Waiting
  <2>2. PICK packet : packet = Owing(connections[i]).answer
    OBVIOUS
  <2>3. /\ Emit(packet)
        /\ \A j \in Waiting \ {i} : \A c : c = connections[j] => Owing(c)' = Owing(c)
        /\ UNCHANGED bindings /\ CallbacksInv'
    BY <1>1, <2>1, <2>2, PacketOut
  <2>4. PICK k \in DOMAIN due : due[k] = Owings[i] /\ due' = RemoveAt(due, k)
    BY <2>1, <2>2, <2>3, EmitOwed
  <2>5. AnswersAreOwed'
    <3>1. spurious' = spurious
      BY <2>1, <2>2, <2>3, EmitOwed
    <3> QED
      BY <1>2, <3>1 DEF AnswersAreOwed
  <2>6. QueuesInv' /\ QuestionsInv' /\ ServicesInv'
    BY <1>1, <1>2, <2>4, QuestionsSent
  <2>7. PICK W : connections \in Seq(W)
    BY <1>2 DEF ProtocolsInv
  <2>8. PICK r : r = After(i)
    OBVIOUS
  <2>9. PICK g \in [DOMAIN r -> DOMAIN connections \ {i}] :
          /\ \A j, m \in DOMAIN r : g[j] = g[m] => j = m
          /\ \A m \in DOMAIN r : r[m] = connections[g[m]]
    BY <2>7, <2>8, Turned
  <2>10. connections' = r
    BY <2>1, <2>8
  <2>11. FoundInv'
    <3>1. ASSUME NEW m \in DOMAIN connections'
          PROVE  Found(connections[m])'
      <4>1. PICK c : c = connections'[m]
        OBVIOUS
      <4>2. Found(c)
        BY <1>2, <2>9, <2>10, <4>1 DEF FoundInv
      <4>3. Found(c)'
        BY <1>1, <2>3, <4>2, FoundKept
      <4> QED
        BY <4>1, <4>3
    <3> QED
      BY <3>1 DEF FoundInv
  <2>12. MatchingInv'
    <3>1. PICK I : I = Waiting \ {i}
      OBVIOUS
    <3>2. PICK d : d = due'
      OBVIOUS
    <3>3. Matching(I, Owings, d)
      <4>1. PICK D : due \in Seq(D)
        BY <1>2 DEF QueuesInv
      <4>2. PICK w, J, s : w = Owings /\ J = Waiting /\ s = due
        OBVIOUS
      <4>3. s \in Seq(D) /\ Matching(J, w, s) /\ i \in J /\ k \in DOMAIN s /\ s[k] = w[i]
        BY <1>2, <2>1, <2>4, <4>1, <4>2 DEF MatchingInv
      <4>4. Matching(J \ {i}, w, RemoveAt(s, k))
        BY <4>3, MatchingRemoved
      <4> QED
        BY <2>4, <3>1, <3>2, <4>2, <4>4
    <3>4. I \subseteq DOMAIN connections
      BY <3>1 DEF Waiting
    <3>5. \A m \in Waiting' : m \in DOMAIN r /\ g[m] \in I /\ connections'[m] = connections[g[m]]
      <4> TAKE m \in Waiting'
      <4>1. m \in DOMAIN r /\ r[m].protocol # TCP
        BY <2>10 DEF Waiting
      <4>2. g[m] \in DOMAIN connections \ {i} /\ r[m] = connections[g[m]]
        BY <2>9, <4>1
      <4> QED
        BY <2>10, <3>1, <4>1, <4>2 DEF Waiting
    <3>6. \A j, m \in Waiting' : g[j] = g[m] => j = m
      BY <2>9, <3>5
    <3>7. \A j \in I : \A c : c = connections[j] => Owing(c)' = Owing(c)
      BY <2>3, <3>1
    <3> QED
      BY <3>2, <3>3, <3>4, <3>5, <3>6, <3>7, MatchingKept
  <2> QED
    BY <2>3, <2>5, <2>6, <2>11, <2>12 DEF OwedInv
<1> QED
  BY <1>4, <1>5

\* A packet arrives that the device is not yet asked to answer.
LEMMA QuestionsArrived ==
  ASSUME QueuesInv, QuestionsInv, NEW p, OneAtATime(p), rx' = Append(rx, p), UNCHANGED <<due, build>>
  PROVE  QueuesInv' /\ QuestionsInv'
<1>1. PICK V : rx \in Seq(V)
  BY DEF QueuesInv
<1>2. PICK U : U = V \cup {p}
  OBVIOUS
<1>3. rx \in Seq(U) /\ p \in U
  BY <1>1, <1>2, SeqMonotonic
<1>4. PICK r : r = rx'
  OBVIOUS
<1>5. PICK n : n = Len(rx) + 1
  OBVIOUS
<1>6. /\ r \in Seq(U) /\ DOMAIN r = DOMAIN rx \cup {n} /\ r[n] = p
      /\ \A i \in DOMAIN rx : r[i] = rx[i]
  BY <1>3, <1>4, <1>5
<1>7. Service(p) \in Bursty \/ ((\A i \in DOMAIN rx : Service(rx[i]) # Service(p))
                               /\ \A k \in DOMAIN due : due[k].service # Service(p))
  BY DEF OneAtATime
<1>8. \A i, j \in DOMAIN r : i # j => Service(r[i]) # Service(r[j]) \/ Service(r[i]) \in Bursty
  BY <1>6, <1>7 DEF QuestionsInv
<1>9. \A i \in DOMAIN r, j \in DOMAIN due : Service(r[i]) # due[j].service \/ Service(r[i]) \in Bursty
  BY <1>6, <1>7 DEF QuestionsInv
<1>10. \A q : Service(q)' = Service(q)
  BY DEF Service
<1>11. QuestionsInv'
  BY <1>4, <1>8, <1>9, <1>10 DEF QuestionsInv
<1> QED
  BY <1>4, <1>6, <1>11 DEF QueuesInv

\* A step of the network, or of an HTTP connection.
LEMMA OthersOwed ==
  ASSUME OwedInv, ProtocolsInv', UNCHANGED <<apps, build, due, spurious>>,
         \/ rx' = rx
         \/ \E p : OneAtATime(p) /\ rx' = Append(rx, p),
         \/ connections' = connections
         \/ \E at : connections' = Append(connections, [at |-> at, protocol |-> TCP])
         \/ \E i \in DOMAIN connections : connections[i].protocol = TCP /\ connections' = After(i)
  PROVE  OwedInv'
<1>1. QueuesInv /\ QuestionsInv /\ ServicesInv /\ MatchingInv /\ FoundInv /\ CallbacksInv /\ ProtocolsInv
      /\ AnswersAreOwed
  BY DEF OwedInv
<1>2. FoundInv' /\ MatchingInv'
  BY <1>1, CircleStep
<1>3. CallbacksInv'
  BY <1>1, CallbacksKept DEF apps
<1>4. ServicesInv' /\ AnswersAreOwed'
  BY <1>1 DEF ServicesInv, AnswersAreOwed, AnswerService
<1>5. QueuesInv' /\ QuestionsInv'
  <2>1. CASE rx' = rx
    BY <1>1, <2>1 DEF QueuesInv, QuestionsInv, Service
  <2>2. CASE \E p : OneAtATime(p) /\ rx' = Append(rx, p)
    BY <1>1, <2>2, QuestionsArrived
  <2> QED
    BY <2>1, <2>2
<1> QED
  BY <1>2, <1>3, <1>4, <1>5 DEF OwedInv

LEMMA OwedStep ==
  ASSUME Deployment, OwedInv, ProtocolsInv', [Next]_vars
  PROVE  OwedInv'
<1>1. CASE smews_receive
  BY <1>1, ReceiveOwed
<1>2. CASE smews_send
  BY <1>2, SendOwed
<1>3. CASE OtherOpens
  BY <1>3, OthersOwed DEF OtherOpens
<1>4. CASE OtherEnds
  BY <1>4, OthersOwed DEF OtherEnds
<1>5. CASE Network
  <2>1. PICK p \in network : Arrive(p) \/ Duplicate(p) \/ Lose(p)
    BY <1>5 DEF Network
  <2> QED
    BY <2>1, OthersOwed DEF Arrive, Duplicate, Lose
<1>6. ASSUME NEW s \in build.servers, DhcpServer(s)
      PROVE  OwedInv'
  BY <1>6, OthersOwed DEF DhcpServer
<1>7. CASE UNCHANGED vars
  BY <1>7, OthersOwed DEF vars
<1> QED
  BY <1>1, <1>2, <1>3, <1>4, <1>5, <1>6, <1>7 DEF Next, smews_main_loop_step

LEMMA OwedInit ==
  ASSUME Deployment, Init, ProtocolsInv
  PROVE  OwedInv
<1>1. build \in Builds /\ rx = << >> /\ spurious = {}
      /\ transaction = [state |-> "INIT", xid |-> "ours", offered_ip |-> "none", server_ip |-> "none"]
  BY DEF Init
<1>2. /\ \A i \in DOMAIN Listens : i = 1 /\ Listens[i] \in UdpApplications /\ Has(Listens[i])
      /\ \A a \in UdpApplications : Has(a) => 1 \in DOMAIN Listens /\ Listens[1] = a
  BY <1>1, ListensOnce DEF Deployment
<1> HIDE DEF Listens
<1>3. PICK at \in Addresses, garbage \in Addresses \cup {NULL} :
       /\ bindings = [i \in DOMAIN Listens |->
            [src_port |-> Port(Listens[i]),
             args |-> IF Listens[i] = "dhcpclient"
                      THEN Args(DHCP_CLIENT_PORT, DHCP_SERVER_PORT, at)
                      ELSE Args(0, 0, garbage)]]
       /\ IF Has("dhcpclient") THEN dhcp_init(at) ELSE connections = << >> /\ due = << >>
  BY DEF Init
<1>4. CallbacksInv
  BY <1>1, <1>3 DEF CallbacksInv
<1>5. AnswersAreOwed
  BY <1>1 DEF AnswersAreOwed
<1>6. CASE ~ Has("dhcpclient")
  <2>1. connections = << >> /\ due = << >>
    BY <1>3, <1>6
  <2>2. DOMAIN connections = {} /\ DOMAIN due = {} /\ DOMAIN rx = {}
    BY <1>1, <2>1
  <2>3. QuestionsInv /\ ServicesInv /\ FoundInv
    BY <2>2 DEF QuestionsInv, ServicesInv, FoundInv
  <2>4. due \in Seq({}) /\ rx \in Seq({})
    BY <1>1, <2>1
  <2>5. QueuesInv
    BY <1>1, <2>4 DEF QueuesInv
  <2>6. Waiting = {}
    BY <2>2 DEF Waiting
  <2>7. MatchingInv
    <3>1. PICK f : f = [i \in {} |-> 0]
      OBVIOUS
    <3>2. f \in [{} -> DOMAIN due]
      BY <3>1
    <3> QED
      BY <2>6, <3>2 DEF MatchingInv, Matching
  <2> QED
    BY <1>4, <1>5, <2>3, <2>5, <2>7 DEF OwedInv
<1>7. CASE Has("dhcpclient")
  <2>1. PICK c, x : /\ c = GpIp(at, UDP, "broadcast", 1)
                    /\ x = [service |-> DHCP_CLIENT_PORT, answer |->
                              Datagram("broadcast", DHCP_CLIENT_PORT, DHCP_SERVER_PORT, DISCOVER)]
    OBVIOUS
  <2>2. connections = <<c>> /\ due = <<x>>
    BY <1>3, <1>7, <2>1 DEF dhcp_init
  <2>3. c.protocol = UDP /\ c.at = at /\ c.ip = "broadcast"
    BY <2>1 DEF GpIp
  <2>4. DOMAIN connections = {1} /\ DOMAIN due = {1} /\ DOMAIN rx = {} /\ connections[1] = c /\ due[1] = x
    BY <1>1, <2>2
  <2>5. 1 \in DOMAIN Listens /\ Listens[1] = "dhcpclient"
    BY <1>2, <1>7 DEF UdpApplications
  <2>6. 1 \in DOMAIN bindings /\ bindings[1].src_port = DHCP_CLIENT_PORT
        /\ bindings[1].args = Args(DHCP_CLIENT_PORT, DHCP_SERVER_PORT, at)
    BY <1>3, <2>5 DEF Port
  <2>7. QuestionsInv
    BY <2>4 DEF QuestionsInv
  <2>8. ServicesInv
    <3>1. x.answer.protocol = UDP /\ x.answer.sport = DHCP_CLIENT_PORT
      BY <2>1 DEF Datagram
    <3>2. x = [service |-> AnswerService(x.answer), answer |-> x.answer]
      BY <2>1, <3>1 DEF AnswerService
    <3> QED
      BY <2>4, <3>2 DEF ServicesInv
  <2>9. QueuesInv
    <3>1. due \in Seq({x}) /\ rx \in Seq({})
      BY <1>1, <2>2
    <3> QED
      BY <1>1, <3>1 DEF QueuesInv
  <2>10. FoundInv
    <3>1. Found(c)
      BY <2>3, <2>6 DEF Found, Args, ICMP6, UDP
    <3> QED
      BY <2>4, <3>1 DEF FoundInv
  <2>11. MatchingInv
    <3>1. Waiting = {1}
      BY <2>3, <2>4 DEF Waiting, UDP, TCP
    <3>2. Owing(c) = x
      BY <1>1, <2>1, <2>3, <2>6 DEF Owing, Body, Args, ICMP, ICMP6, UDP
    <3>3. Owings[1] = x
      BY <2>4, <3>2 DEF Owings
    <3>4. PICK f : f = [i \in {1} |-> 1]
      OBVIOUS
    <3>5. f \in [{1} -> DOMAIN due] /\ f[1] = 1
      BY <2>4, <3>4
    <3>6. Matching({1}, Owings, due)
      BY <2>4, <3>3, <3>5 DEF Matching
    <3> QED
      BY <3>1, <3>6 DEF MatchingInv
  <2> QED
    BY <1>4, <1>5, <2>7, <2>8, <2>9, <2>10, <2>11 DEF OwedInv
<1> QED
  BY <1>6, <1>7

\* With one application of udp in a build, no icmpv6 beside dhcpclient, and no
\* service but icmpv6 asked again before it has answered, every packet that is
\* sent is the answer to a packet received: doPacketOut finds in the statics of
\* icmpv4, in the binding of udp and in _current_transaction what doPacketIn
\* left, whatever is received, opened and freed in between.
THEOREM DatagramsAnswersAreOwed == Deployment => (Spec => []AnswersAreOwed)
<1> SUFFICES ASSUME Deployment PROVE Spec => []AnswersAreOwed
  OBVIOUS
<1>1. Init => ProtocolsInv /\ OwedInv
  BY ProtocolsInit, OwedInit
<1>2. ProtocolsInv /\ OwedInv /\ [Next]_vars => ProtocolsInv' /\ OwedInv'
  BY ProtocolsStep, OwedStep
<1>3. OwedInv => AnswersAreOwed
  BY DEF OwedInv
<1> QED
  BY <1>1, <1>2, <1>3, PTL DEF Spec

=============================================================================

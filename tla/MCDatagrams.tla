---------------------------- MODULE MCDatagrams ----------------------------
(***************************************************************************)
(* Builds with the applications that can be compiled together, and a few   *)
(* packets for each of them.                                               *)
(***************************************************************************)
EXTENDS Datagrams

Ping(from, data, type, valid) ==
  [protocol |-> ICMP, from |-> from, type |-> type, data |-> data, valid |-> valid]
Pings == {Ping("a", 1, ICMP_ECHO_REQUEST, TRUE), Ping("b", 2, ICMP_ECHO_REQUEST, FALSE)}
Solicitation(from, type, target) ==
  [protocol |-> ICMP6, from |-> from, type |-> type, target |-> target]
Solicitations == {Solicitation(f, ICMP_NEIGHBOR_SOLICITATION, "configured") : f \in {"a", "b", "c"}}
  \cup {Solicitation("c", ICMP_NEIGHBOR_SOLICITATION, "another")}
Hello(from, sport, dport) ==
  [protocol |-> UDP, from |-> from, sport |-> sport, dport |-> dport]
Hellos == {Hello("a", 5, TEST_PORT), Hello("b", 6, TEST_PORT)}
Foreign(type) ==
  [protocol |-> UDP, from |-> "s1", sport |-> DHCP_SERVER_PORT, dport |-> DHCP_CLIENT_PORT,
   xid |-> "another", type |-> type, yiaddr |-> "ip3", server |-> "s1", serverFirst |-> FALSE]
Server(ip, offers, first, refuses) ==
  [ip |-> ip, offers |-> offers, first |-> first, refuses |-> refuses]
Build(a, traffic, servers) == [apps |-> a, traffic |-> traffic, servers |-> servers]

S1 == Server("s1", "ip1", FALSE, FALSE)
S2 == Server("s2", "ip2", TRUE, FALSE)
Refuser == Server("s2", "ip2", FALSE, TRUE)

SeparateBuilds == {
  Build(<<"icmpv6">>, Solicitations, {}),
  Build(<<"icmpv4", "udp", "udp_test">>, Pings \cup Hellos, {}),
  Build(<<"icmpv4", "udp", "dhcpclient">>, {Foreign("OFFER"),
        Ping("a", 1, ICMP_ECHO_REQUEST, TRUE)}, {S1, S2}),
  Build(<<"udp", "dhcpclient">>, {Foreign("ACK"), Hello("a", 5, TEST_PORT)}, {S1, Refuser})}

\* The two applications of udp together.
BothBindings == {Build(<<"udp", "dhcpclient", "udp_test">>, {Hello("a", 5, TEST_PORT)}, {S1})}

=============================================================================

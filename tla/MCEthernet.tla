----------------------------- MODULE MCEthernet -----------------------------
EXTENDS Ethernet

Frame(n, type, dst, link, ip, target, opcode, size) ==
  [n |-> n, type |-> type, dst |-> dst, link |-> link, ip |-> ip, target |-> target,
   opcode |-> opcode, size |-> size]

\* Three hosts for a table of two entries: host 1 changes its address, and the
\* packet of host 3 is longer than the driver reads.
Frames == {
  Frame(1, "IP", "me", "a", 1, "", 0, 2), Frame(2, "ARP", "all", "b", 1, "me", 1, 0),
  Frame(3, "IP", "all", "c", 2, "", 0, 1), Frame(4, "IP", "other", "c", 2, "", 0, 1),
  Frame(5, "IP", "me", "d", 3, "", 0, 3)}

\* A host that has no address yet asks whether one is free.
Probed == {
  Frame(1, "IP", "me", "a", 1, "", 0, 2), Frame(2, "ARP", "all", "b", 2, "me", 1, 0),
  Frame(3, "ARP", "all", "d", 0, "me", 1, 0), Frame(4, "ARP", "all", "c", 2, "me", 1, 0),
  Frame(5, "ARP", "all", "d", 3, "me", 2, 0)}

\* Where an interrupt would disturb the main loop.
Windows == {"zero", "done", "copy", "first status", "second", "second status", "give"}
None == {}
ButTheCopy == Windows \ {"copy"}
=============================================================================

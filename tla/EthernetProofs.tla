--------------------------- MODULE EthernetProofs ---------------------------
(***************************************************************************)
(* The driver of mbed_ethernet, for any table, rings and traffic: the      *)
(* table of link layer addresses is sound if the hosts heard of have       *)
(* addresses, and the frame that the main loop reads stays at the head of  *)
(* its ring if no frame arrives while the loop gives one back.             *)
(***************************************************************************)
EXTENDS Ethernet, SequenceTheorems, WellFoundedInduction, TLAPS

\* Every frame comes from a host that has an address: none probes for one.
HostsHeard == \A f \in Traffic : f.ip \in Hosts /\ f.link \in Links

----------------------------------------------------------------------------
(* The least element of a set, which First and the choice of a buffer      *)
(* return.                                                                 *)

Less == {ss \in Nat \X Nat : ss[1] < ss[2]}

LEMMA LessWF == IsWellFoundedOn(Less, Nat)
BY NatLessThanWellFounded DEF OpToRel, Less

LEMMA Least ==
  ASSUME NEW T, T \subseteq Nat, T # {}
  PROVE  \E m \in T : \A n \in T : m <= n
<1>1. PICK m \in T : \A n \in T : ~ (<<n, m>> \in Less)
  BY LessWF, WFMin
<1>2. ASSUME NEW n \in T PROVE m <= n
  <2>1. <<n, m>> \notin Less
    BY <1>1
  <2>2. n \in Nat /\ m \in Nat
    OBVIOUS
  <2> QED
    BY <2>1, <2>2 DEF Less
<1> QED
  BY <1>2

LEMMA FirstLeast ==
  ASSUME NEW S, S \subseteq Slots, S # {}
  PROVE  First(S) \in S /\ \A j \in S : First(S) <= j
<1>1. S \subseteq Nat
  BY LinkLayerCacheAssumption DEF Slots
<1>2. \E m \in S : \A n \in S : m <= n
  BY <1>1, Least
<1> QED
  BY <1>2 DEF First

\* The search for the oldest entry ends at an entry.
LEMMA OldestSlot ==
  ASSUME \A i \in Slots : _link_layer_table[i].timestamp \in Nat
  PROVE  Oldest \in Slots
<1> DEFINE T == {_link_layer_table[i].timestamp : i \in Slots}
           S == {i \in Slots : \A j \in Slots :
                  _link_layer_table[i].timestamp <= _link_layer_table[j].timestamp}
<1>1. T \subseteq Nat
  OBVIOUS
<1>2. 0 \in Slots
  BY LinkLayerCacheAssumption DEF Slots
<1>3. T # {}
  BY <1>2
<1>4. PICK m \in T : \A n \in T : m <= n
  BY <1>1, <1>3, Least
<1>5. PICK i \in Slots : _link_layer_table[i].timestamp = m
  BY <1>4
<1>6. i \in S
  BY <1>4, <1>5
<1>7. S \subseteq Slots /\ S # {}
  BY <1>6
<1>8. First(S) \in Slots
  BY <1>7, FirstLeast
<1> QED
  BY <1>8 DEF Oldest

----------------------------------------------------------------------------
(* The table of link layer addresses.                                      *)

Entry == [ip : Ips \cup {NullIp}, timestamp : Nat, link_layer : Links \cup {NoLink}]

\* An entry in use has the last address of its host, and the last host heard
\* of has an entry.
CacheInv ==
  /\ _link_layer_table \in [Slots -> Entry]
  /\ now \in Nat /\ heard \in [Hosts -> Links \cup {NoLink}] /\ last \in Hosts \cup {NullIp}
  /\ OneEntry
  /\ \A i \in Slots : _link_layer_table[i].ip # NullIp =>
       _link_layer_table[i].link_layer = heard[_link_layer_table[i].ip]
       /\ _link_layer_table[i].link_layer # NoLink
  /\ last # NullIp => \E i \in Slots : _link_layer_table[i].ip = last

LEMMA CacheInvInit == CacheInit => CacheInv
BY LinkLayerCacheAssumption DEF CacheInit, CacheInv, OneEntry, Entry, Hosts, Slots

\* What an address answers: the entry of the host.
LEMMA CacheInvSound == CacheInv => CacheSound
<1> SUFFICES ASSUME CacheInv PROVE CacheSound
  OBVIOUS
<1>1. ASSUME NEW ip \in Hosts
      PROVE  get_link_layer_address(ip) \subseteq {heard[ip]} \ {NoLink}
  <2> DEFINE found == {i \in Slots : _link_layer_table[i].ip = ip}
  <2>1. CASE found = {}
    BY <2>1 DEF get_link_layer_address
  <2>2. CASE found # {}
    <3>1. First(found) \in found
      <4>1. found \subseteq Slots
        OBVIOUS
      <4> QED
        BY <2>2, <4>1, FirstLeast
    <3>2. _link_layer_table[First(found)].link_layer = heard[ip]
          /\ _link_layer_table[First(found)].link_layer # NoLink
      BY <3>1 DEF CacheInv, Hosts
    <3> QED
      BY <2>2, <3>2 DEF get_link_layer_address
  <2> QED
    BY <2>1, <2>2
<1>2. LastIsKnown
  BY DEF LastIsKnown, CacheInv, get_link_layer_address
<1>3. OneEntry
  BY DEF CacheInv
<1> QED
  BY <1>1, <1>2, <1>3 DEF CacheSound, AnswersLast

\* An address is stored in the entry of its host, in the first free one or in
\* the place of the oldest.
LEMMA StoredPlace ==
  ASSUME CacheInv, NEW ip \in Hosts, NEW link \in Links
  PROVE  \E k \in Slots :
           /\ Stored(ip, link) \in [Slots -> Entry]
           /\ \A i \in Slots \ {k} : Stored(ip, link)[i] = _link_layer_table[i]
           /\ Stored(ip, link)[k].ip = ip /\ Stored(ip, link)[k].link_layer = link
           /\ \A i \in Slots : i < k => _link_layer_table[i].ip # NullIp
           /\ \A i \in Slots \ {k} : _link_layer_table[i].ip # ip
<1>1. \A i \in Slots : _link_layer_table[i] \in Entry
  BY DEF CacheInv
<1>2. NOW \in Nat
  BY DEF NOW, CacheInv
<1>3. CASE Matching(ip) # {}
  <2> DEFINE k == First(Matching(ip))
             e == [ip |-> ip, timestamp |-> NOW, link_layer |-> link]
  <2>1. k \in Matching(ip) /\ \A j \in Matching(ip) : k <= j
    <3>1. Matching(ip) \subseteq Slots
      BY DEF Matching
    <3> QED
      BY <1>3, <3>1, FirstLeast
  <2>2. k \in Slots /\ _link_layer_table[k].ip \in {ip, NullIp}
        /\ \A j \in Slots : _link_layer_table[j].ip \in {ip, NullIp} => k <= j
    BY <2>1 DEF Matching
  <2> HIDE DEF k
  <2>3. e \in Entry /\ e.ip = ip /\ e.link_layer = link
    BY <1>2 DEF Entry, Hosts
  <2>4. Stored(ip, link) = [_link_layer_table EXCEPT ![k] = e]
    BY <1>3 DEF Stored, k
  <2> HIDE DEF e
  <2>5. /\ Stored(ip, link) \in [Slots -> Entry] /\ Stored(ip, link)[k] = e
        /\ \A i \in Slots \ {k} : Stored(ip, link)[i] = _link_layer_table[i]
    BY <2>2, <2>3, <2>4 DEF CacheInv
  <2>6. ASSUME NEW i \in Slots, i < k
        PROVE  _link_layer_table[i].ip # NullIp
    <3>1. i \in Int /\ k \in Int
      BY <2>2, LinkLayerCacheAssumption DEF Slots
    <3> QED
      BY <2>2, <2>6, <3>1
  <2>7. ASSUME NEW i \in Slots \ {k}
        PROVE  _link_layer_table[i].ip # ip
    <3>1. i \in Int /\ k \in Int
      BY <2>2, LinkLayerCacheAssumption DEF Slots
    <3>2. SUFFICES ASSUME _link_layer_table[i].ip = ip PROVE FALSE
      OBVIOUS
    <3>3. k < i
      BY <2>2, <3>1, <3>2
    <3>4. _link_layer_table[i].ip # NullIp
      BY <3>2 DEF Hosts
    <3>5. _link_layer_table[k].ip # NullIp
      BY <2>2, <3>3, <3>4 DEF CacheInv, OneEntry
    <3>6. _link_layer_table[k].ip = _link_layer_table[i].ip
      BY <2>2, <3>2, <3>5
    <3> QED
      BY <2>2, <3>4, <3>6 DEF CacheInv, OneEntry
  <2> QED
    BY <2>2, <2>3, <2>5, <2>6, <2>7
<1>4. CASE Matching(ip) = {}
  <2> DEFINE k == Oldest
  <2>1. k \in Slots
    BY <1>1, OldestSlot DEF Entry
  <2>2. Stored(ip, link) = [_link_layer_table EXCEPT ![k].ip = ip, ![k].link_layer = link]
    BY <1>4 DEF Stored
  <2> HIDE DEF k
  <2>3. /\ Stored(ip, link) \in [Slots -> Entry]
        /\ Stored(ip, link)[k].ip = ip /\ Stored(ip, link)[k].link_layer = link
        /\ \A i \in Slots \ {k} : Stored(ip, link)[i] = _link_layer_table[i]
    <3> DEFINE t == [_link_layer_table EXCEPT ![k].ip = ip]
               e == [_link_layer_table[k] EXCEPT !.ip = ip]
    <3>1. t \in [Slots -> Entry] /\ t[k] = e /\ e \in Entry /\ e.ip = ip
          /\ \A i \in Slots \ {k} : t[i] = _link_layer_table[i]
      <4>1. e \in Entry /\ e.ip = ip
        BY <1>1, <2>1 DEF Entry, Hosts
      <4>2. t = [_link_layer_table EXCEPT ![k] = e]
        OBVIOUS
      <4> HIDE DEF e, t
      <4> QED
        BY <2>1, <4>1, <4>2 DEF CacheInv
    <3>2. Stored(ip, link) = [t EXCEPT ![k] = [e EXCEPT !.link_layer = link]]
      BY <2>1, <2>2, <3>1
    <3> HIDE DEF t
    <3>3. [e EXCEPT !.link_layer = link] \in Entry
          /\ [e EXCEPT !.link_layer = link].ip = ip
          /\ [e EXCEPT !.link_layer = link].link_layer = link
      <4> HIDE DEF e
      <4> QED
        BY <3>1 DEF Entry
    <3> HIDE DEF e
    <3> QED
      BY <2>1, <3>1, <3>2, <3>3
  <2>4. \A i \in Slots : _link_layer_table[i].ip \notin {ip, NullIp}
    BY <1>4 DEF Matching
  <2> QED
    BY <2>1, <2>3, <2>4
<1> QED
  BY <1>3, <1>4

LEMMA AddStep ==
  ASSUME CacheInv, NEW ip \in Hosts, NEW link \in Links, add_link_layer_address(ip, link)
  PROVE  CacheInv'
<1>1. PICK k \in Slots :
           /\ Stored(ip, link) \in [Slots -> Entry]
           /\ \A i \in Slots \ {k} : Stored(ip, link)[i] = _link_layer_table[i]
           /\ Stored(ip, link)[k].ip = ip /\ Stored(ip, link)[k].link_layer = link
           /\ \A i \in Slots : i < k => _link_layer_table[i].ip # NullIp
           /\ \A i \in Slots \ {k} : _link_layer_table[i].ip # ip
  BY StoredPlace
<1>2. /\ _link_layer_table' = Stored(ip, link) /\ heard' = [heard EXCEPT ![ip] = link]
      /\ last' = ip /\ now' \in Nat /\ ip # NullIp
  BY DEF add_link_layer_address, CacheInv, NOW, Hosts
<1>3. /\ _link_layer_table' \in [Slots -> Entry]
      /\ \A i \in Slots \ {k} : _link_layer_table'[i] = _link_layer_table[i]
      /\ _link_layer_table'[k].ip = ip /\ _link_layer_table'[k].link_layer = link
  BY <1>1, <1>2
<1>4. heard' \in [Hosts -> Links \cup {NoLink}] /\ heard'[ip] = link
      /\ \A q \in Hosts \ {ip} : heard'[q] = heard[q]
  BY <1>2 DEF CacheInv
<1>5. OneEntry'
  <2> SUFFICES ASSUME NEW i \in Slots, NEW j \in Slots
               PROVE  /\ _link_layer_table'[i].ip = _link_layer_table'[j].ip /\ i # j
                            => _link_layer_table'[i].ip = NullIp
                      /\ i < j /\ _link_layer_table'[j].ip # NullIp
                            => _link_layer_table'[i].ip # NullIp
    BY DEF OneEntry, Slots
  <2>1. /\ _link_layer_table[i].ip = _link_layer_table[j].ip /\ i # j
             => _link_layer_table[i].ip = NullIp
        /\ i < j /\ _link_layer_table[j].ip # NullIp => _link_layer_table[i].ip # NullIp
    BY DEF CacheInv, OneEntry
  <2> QED
    BY <1>1, <1>2, <1>3, <2>1
<1>6. ASSUME NEW i \in Slots, _link_layer_table'[i].ip # NullIp
      PROVE  /\ _link_layer_table'[i].link_layer = heard'[_link_layer_table'[i].ip]
             /\ _link_layer_table'[i].link_layer # NoLink
  <2>1. CASE i = k
    BY <1>3, <1>4, <2>1, LinkLayerCacheAssumption
  <2>2. CASE i # k
    <3>1. _link_layer_table'[i] = _link_layer_table[i]
      BY <1>3, <2>2
    <3>2. _link_layer_table[i] \in Entry
      BY DEF CacheInv
    <3>3. _link_layer_table[i].ip \in Hosts \ {ip}
      BY <1>1, <1>6, <2>2, <3>1, <3>2 DEF Entry, Hosts
    <3> QED
      BY <1>4, <1>6, <3>1, <3>3 DEF CacheInv
  <2> QED
    BY <2>1, <2>2
<1> QED
  BY <1>2, <1>3, <1>4, <1>5, <1>6 DEF CacheInv, Slots, Entry, Hosts

----------------------------------------------------------------------------
(* The receive ring, and the steps that change what it or the table holds. *)

RxInv == rx \in Seq(Traffic) /\ toCome \subseteq Traffic

LEMMA RxHead ==
  ASSUME RxInv, rx # << >>
  PROVE  Head(rx) \in Traffic
BY DEF RxInv

LEMMA RxSteps ==
  ASSUME [Next]_vars
  PROVE  \/ UNCHANGED <<rx, toCome>>
         \/ Arrive
         \/ rx # << >> /\ rx' = Tail(rx) /\ toCome' = toCome
BY DEF Next, Interrupt, Loop, Time, vars, rxVars, txVars, hwVars, Transmit, eth_irq_handler, IsrFrame,
   mbed_process_input, IsrSent, IsrEnd, mbed_eth_byte_available, mbed_eth_get_byte, FrameNull,
   FrameZero, FrameDone, FrameTrigger, mbed_eth_prepare_output, Damaged,
   get_link_layer_address_compare, get_link_layer_address_copy, mbed_eth_fill_header,
   mbed_eth_prepare_fragment, Fragment, mbed_eth_output_done

LEMMA RxInvStep ==
  ASSUME RxInv, [Next]_vars
  PROVE  RxInv'
<1>1. CASE UNCHANGED <<rx, toCome>>
  BY <1>1 DEF RxInv
<1>2. CASE Arrive
  BY <1>2, AppendProperties DEF RxInv, Arrive
<1>3. CASE rx # << >> /\ rx' = Tail(rx) /\ toCome' = toCome
  BY <1>3 DEF RxInv
<1> QED
  BY <1>1, <1>2, <1>3, RxSteps

LEMMA CacheSteps ==
  ASSUME [Next]_vars
  PROVE  \/ UNCHANGED cache
         \/ TimePasses
         \/ rx # << >> /\ add_link_layer_address(Head(rx).ip, Head(rx).link)
BY DEF Next, Interrupt, Loop, Time, vars, Arrive, Transmit, eth_irq_handler, IsrFrame,
   mbed_process_input, mbed_process_arp, IsrSent, IsrEnd, mbed_eth_byte_available, mbed_eth_get_byte,
   FrameNull, FrameZero, FrameDone, FrameTrigger, mbed_eth_prepare_output, Damaged,
   get_link_layer_address_compare, get_link_layer_address_copy, mbed_eth_fill_header,
   mbed_eth_prepare_fragment, Fragment, mbed_eth_output_done

LEMMA CacheInvStep ==
  ASSUME HostsHeard, RxInv, CacheInv, [Next]_vars
  PROVE  CacheInv'
<1>1. CASE UNCHANGED cache
  BY <1>1 DEF CacheInv, OneEntry, cache, Slots, Entry, Hosts
<1>2. CASE TimePasses
  BY <1>2 DEF CacheInv, OneEntry, TimePasses, Slots, Entry, Hosts
<1>3. CASE rx # << >> /\ add_link_layer_address(Head(rx).ip, Head(rx).link)
  BY <1>3, RxHead, AddStep DEF HostsHeard
<1> QED
  BY <1>1, <1>2, <1>3, CacheSteps

\* If every frame comes from a host that has an address, a host has at most
\* one entry in the table, the entries in use come first, the table answers
\* with the last link layer address of a host or not at all, and it answers
\* for the last host heard of: for a table of any size, with time stamps of
\* any kind, and whatever the order of the frames.
THEOREM EthernetCacheSound == HostsHeard => (Spec => []CacheSound)
<1> SUFFICES ASSUME HostsHeard PROVE Spec => []CacheSound
  OBVIOUS
<1>1. EthInit => RxInv /\ CacheInv
  BY CacheInvInit DEF EthInit, RxInv
<1>2. RxInv /\ CacheInv /\ [Next]_vars => RxInv' /\ CacheInv'
  BY RxInvStep, CacheInvStep
<1>3. CacheInv => CacheSound
  BY CacheInvSound
<1> QED
  BY <1>1, <1>2, <1>3, PTL DEF Spec

----------------------------------------------------------------------------
(* The frame that the main loop reads.                                     *)

\* No frame arrives between current_rx_frame = NULL and the return of the
\* descriptor.
ReturnSpared == {"zero", "done"} \subseteq Spared

\* In that window the handler does not look at the ring.
FrameInv ==
  /\ FrameKept
  /\ pc \in {"zero", "done"} => current_rx_frame = NoFrame /\ "RX" \notin irq /\ isr # "rx"

LEMMA FrameInvStep ==
  ASSUME ReturnSpared, RxInv, FrameInv, [Next]_vars
  PROVE  FrameInv'
<1> USE DEF FrameInv, FrameKept
<1>1. CASE Arrive
  <2>1. pc \notin {"zero", "done"} /\ pc' = pc /\ current_rx_frame' = current_rx_frame
    BY <1>1 DEF Arrive, ReturnSpared
  <2>2. rx # << >> => rx' # << >> /\ Head(rx') = Head(rx)
    <3>1. PICK f \in toCome : rx' = Append(rx, f)
      BY <1>1 DEF Arrive
    <3>2. rx \in Seq(Traffic) /\ f \in Traffic
      BY <3>1 DEF RxInv
    <3> QED
      BY <3>1, <3>2
  <2> QED
    BY <2>1, <2>2
<1>2. CASE Transmit
  BY <1>2 DEF Transmit, rxVars, handler
<1>3. CASE eth_irq_handler
  BY <1>3 DEF eth_irq_handler, rxVars
<1>4. CASE IsrFrame
  <2>1. isr = "rx" /\ pc' = pc
    BY <1>4 DEF IsrFrame
  <2>2. pc' \notin {"zero", "done"}
    BY <2>1
  <2>3. current_rx_frame' # NoFrame => rx' # << >> /\ Head(rx') = current_rx_frame'
    BY <1>4 DEF IsrFrame, mbed_process_input, rxVars
  <2> QED
    BY <2>2, <2>3
<1>5. CASE IsrEnd
  BY <1>5 DEF IsrEnd, rxVars
<1>6. CASE IsrSent
  BY <1>6 DEF IsrSent, rxVars
<1>7. CASE mbed_eth_byte_available
  BY <1>7 DEF mbed_eth_byte_available, rxVars
<1>8. CASE mbed_eth_get_byte
  <2>1. pc' \in {"null", "packet", "get"}
    <3>1. CASE current_rx_frame = NoFrame
      BY <1>8, <3>1 DEF mbed_eth_get_byte
    <3>2. CASE current_rx_frame # NoFrame /\ current_rx_frame_idx' >= current_rx_frame_size
      BY <1>8, <3>2 DEF mbed_eth_get_byte
    <3>3. CASE current_rx_frame # NoFrame /\ ~ (current_rx_frame_idx' >= current_rx_frame_size)
      BY <1>8, <3>3 DEF mbed_eth_get_byte
    <3> QED
      BY <3>1, <3>2, <3>3
  <2>2. UNCHANGED <<rx, current_rx_frame>>
    BY <1>8 DEF mbed_eth_get_byte
  <2> QED
    BY <2>1, <2>2
<1>9. CASE FrameNull
  BY <1>9 DEF FrameNull, AtMain, Main, handler
<1>10. CASE FrameZero
  BY <1>10 DEF FrameZero, AtMain, handler
<1>11. CASE FrameDone
  BY <1>11 DEF FrameDone, AtMain
<1>12. CASE FrameTrigger
  BY <1>12 DEF FrameTrigger, AtMain, rxVars
<1>13. CASE mbed_eth_prepare_output
  BY <1>13 DEF mbed_eth_prepare_output, rxVars
<1>14. CASE Damaged
  BY <1>14 DEF Damaged, rxVars
<1>15. CASE get_link_layer_address_compare
  BY <1>15 DEF get_link_layer_address_compare, rxVars
<1>16. CASE get_link_layer_address_copy
  BY <1>16 DEF get_link_layer_address_copy, AtMain, rxVars
<1>17. CASE mbed_eth_fill_header
  BY <1>17 DEF mbed_eth_fill_header, AtMain, rxVars
<1>18. CASE mbed_eth_prepare_fragment
  BY <1>18 DEF mbed_eth_prepare_fragment, Fragment, AtMain, rxVars
<1>19. CASE mbed_eth_output_done
  BY <1>19 DEF mbed_eth_output_done, AtMain, rxVars
<1>20. CASE Time
  BY <1>20 DEF Time, rxVars, handler
<1>21. CASE UNCHANGED vars
  BY <1>21 DEF vars, rxVars, handler
<1> QED
  BY <1>1, <1>2, <1>3, <1>4, <1>5, <1>6, <1>7, <1>8, <1>9, <1>10, <1>11, <1>12, <1>13, <1>14, <1>15,
     <1>16, <1>17, <1>18, <1>19, <1>20, <1>21 DEF Next, Interrupt, Loop

\* If no frame arrives in the two steps between the end of a frame and the
\* return of its descriptor, the frame that the main loop reads is always the
\* one at the head of the receive ring: the controller cannot overwrite it,
\* for rings of any length, any traffic and whatever the handler preempts.
THEOREM EthernetFrameKept == ReturnSpared => (Spec => []FrameKept)
<1> SUFFICES ASSUME ReturnSpared PROVE Spec => []FrameKept
  OBVIOUS
<1>1. EthInit => RxInv /\ FrameInv
  BY DEF EthInit, RxInv, FrameInv, FrameKept
<1>2. RxInv /\ FrameInv /\ [Next]_vars => RxInv' /\ FrameInv'
  BY RxInvStep, FrameInvStep
<1>3. FrameInv => FrameKept
  BY DEF FrameInv
<1> QED
  BY <1>1, <1>2, <1>3, PTL DEF Spec

=============================================================================

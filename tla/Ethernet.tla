------------------------------ MODULE Ethernet ------------------------------
(***************************************************************************)
(* The driver of mbed_ethernet.  The controller puts the frames it         *)
(* receives in a ring; the interrupt handler answers ARP requests, stores  *)
(* link layer addresses and gives IP packets one at a time to the main     *)
(* loop, which reads them byte by byte and returns the frame to the ring   *)
(* with the last one.  Answers go out as two fragments of a second ring,   *)
(* which the handler uses too.  The handler preempts the main loop between *)
(* any two steps; the two share the rings without any lock.                *)
(*                                                                         *)
(* The controller and the functions rflpc_ of its library are external.    *)
(***************************************************************************)
EXTENDS LinkLayerCache, Sequences, SequencesExt, FiniteSets

CONSTANTS Traffic,         \* the frames the hosts send, in any order
          RX_DESCRIPTORS, TX_DESCRIPTORS,
          TX_BUFFER_COUNT,
          DEV_MTU,
          Spared,          \* where the main loop is not when a frame arrives
          Prompt           \* what a frame is made of is sent before it is written again

ASSUME EthernetAssumption ==
  /\ {RX_DESCRIPTORS, TX_DESCRIPTORS, TX_BUFFER_COUNT, DEV_MTU} \subseteq Nat \ {0}
  /\ TX_DESCRIPTORS > 2
  /\ Prompt \in BOOLEAN

PROTO_MAC_HLEN == 1  \* one byte stands for the header of a frame
NULL == 0
NoFrame == [n |-> 0]
Void == [void |-> TRUE]  \* what is sent from a descriptor that points nowhere

\* What a descriptor points to: a transmission buffer, or one of these.
HEADER == -1
ARP_REPLY == -2

Broadcast == "ff:ff"
MAGIC == "being sent"

VARIABLES
  toCome,           \* the frames not received yet
  rx,               \* the receive ring, from the descriptor to consume
  irq,              \* the status of the interrupts
  isr,              \* where the handler is
  looked,           \* and how many frames it has seen
  current_rx_frame, current_rx_frame_size, current_rx_frame_idx,
  pc,               \* where the main loop is
  read,             \* what it has read of a packet
  spoiled,          \* the frames whose bytes it took for those of another one
  slot, dst_addr,   \* the search for the destination
  current_buffer,
  in_use,           \* of each transmission buffer
  buff,             \* and what it holds: the frame that is answered
  ethernet_header,  \* the destination in the header, shared by all frames
  arp_reply,        \* _arp_reply_buffer
  tx,               \* the descriptors of the transmit ring
  produce, consume, \* and its indices
  emitted,          \* the last frame sent, fragment by fragment
  answered          \* the frames handled to their end

rxVars == <<rx, current_rx_frame, current_rx_frame_size, current_rx_frame_idx>>
txVars == <<tx, produce>>
reading == <<read, spoiled>>
search == <<slot, dst_addr>>
outVars == <<search, current_buffer, in_use, buff, ethernet_header>>
hwVars == <<consume, emitted>>
handler == <<isr, looked>>
vars == <<cache, toCome, rxVars, irq, handler, pc, reading, outVars, arp_reply, txVars, hwVars, answered>>

Buffers == 1 .. TX_BUFFER_COUNT
Descriptors == 0 .. TX_DESCRIPTORS - 1
Ring(i) == i % TX_DESCRIPTORS
NoRead == [of |-> NoFrame, size |-> 0, bytes |-> 0, whole |-> FALSE]
Whole(f) == f.type = "IP" => f.size + PROTO_MAC_HLEN <= DEV_MTU

EthInit ==
  /\ CacheInit
  /\ toCome = Traffic
  /\ rx = << >> /\ irq = {} /\ isr = "out" /\ looked = 0
  /\ current_rx_frame = NoFrame /\ current_rx_frame_size = 0 /\ current_rx_frame_idx = 0
  /\ pc = "idle" /\ read = NoRead /\ spoiled = {}
  /\ slot = 0 /\ dst_addr = NoLink
  /\ current_buffer = NULL
  /\ in_use = [b \in Buffers |-> FALSE] /\ buff = [b \in Buffers |-> NoFrame]
  /\ ethernet_header = NoLink /\ arp_reply = Void
  /\ tx = [i \in Descriptors |-> [packet |-> NULL, status |-> "sent", last |-> TRUE]]
  /\ produce = 0 /\ consume = 0
  /\ emitted = << >> /\ answered = {}

-----------------------------------------------------------------------------
\* The library: a descriptor of the transmit ring, if one is free, and the
\* hand over of n of them.

FreeDescriptor(idx) == Ring(produce + idx + 1) # consume /\ (idx = 0 \/ Ring(produce + 1) # consume)
rflpc_eth_done_process_tx_packet(n) == produce' = Ring(produce + n)

\* The frames handed over that are not sent, and the ARP replies among them.
Sent == consume = produce
Pending == {i \in Descriptors : Ring(i - consume) < Ring(produce - consume)}
Replied == \A i \in Pending : tx[i].packet # ARP_REPLY

\* The interrupt handler runs before the main loop goes on.  If the controller
\* is Prompt it has sent an ARP reply before either does.
Software == Prompt => Replied
Main == Software /\ irq = {} /\ isr = "out"

-----------------------------------------------------------------------------
\* The controller.

Arrive ==
  /\ Len(rx) < RX_DESCRIPTORS - 1
  /\ pc \notin Spared
  /\ \E f \in toCome : rx' = Append(rx, f) /\ toCome' = toCome \ {f}
  /\ irq' = irq \cup {"RX"}
  /\ UNCHANGED <<cache, current_rx_frame, current_rx_frame_size, current_rx_frame_idx, handler, pc,
                 reading, outVars, arp_reply, txVars, hwVars, answered>>

\* The fragments of the next frame, whose buffers are read now.
Transmit ==
  LET n == IF tx[consume].last THEN 1 ELSE 2
      Content(p) == CASE p = HEADER -> [dst |-> ethernet_header]
                      [] p = ARP_REPLY -> arp_reply
                      [] p \in Buffers -> [of |-> buff[p]]
                      [] p = NULL -> Void IN
  /\ ~Sent
  /\ emitted' = [i \in 1 .. n |-> Content(tx[Ring(consume + i - 1)].packet)]
  /\ tx' = [i \in Descriptors |->
              IF \E j \in 1 .. n : i = Ring(consume + j - 1)
              THEN [tx[i] EXCEPT !.status = "sent"] ELSE tx[i]]
  /\ consume' = Ring(consume + n)
  /\ irq' = irq \cup {"TX"}
  /\ UNCHANGED <<cache, toCome, rxVars, handler, pc, reading, outVars, arp_reply, produce, answered>>

-----------------------------------------------------------------------------
\* The interrupt handler.

eth_irq_handler ==
  /\ Software /\ isr = "out" /\ irq # {}
  /\ isr' = IF "RX" \in irq THEN "rx" ELSE "tx"
  /\ looked' = 0
  /\ UNCHANGED <<cache, toCome, rxVars, irq, pc, reading, outVars, arp_reply, txVars, hwVars, answered>>

\* The reply is written in the one buffer there is and handed over; the
\* status of its descriptor is left as it was.
mbed_process_arp(f) ==
  IF f.target # "me" THEN UNCHANGED <<cache, arp_reply, txVars>>
  ELSE IF f.opcode = 1 /\ ~FreeDescriptor(0) THEN UNCHANGED <<cache, arp_reply, txVars>>
  ELSE /\ add_link_layer_address(f.ip, f.link)
       /\ IF f.opcode # 1 THEN UNCHANGED <<arp_reply, txVars>>
          ELSE /\ arp_reply' = [dst |-> f.link, of |-> f]
               /\ tx' = [tx EXCEPT ![produce].packet = ARP_REPLY, ![produce].last = TRUE]
               /\ rflpc_eth_done_process_tx_packet(1)

\* The size of the frame includes the header, and is compared with the MTU.
mbed_process_input(f) ==
  \/ /\ f = current_rx_frame
     /\ isr' = "tx"
     /\ UNCHANGED <<cache, rxVars, arp_reply, txVars, answered>>
  \/ /\ f # current_rx_frame
     /\ f.type = "ARP"
     /\ mbed_process_arp(f)
     /\ rx' = Tail(rx)
     /\ answered' = answered \cup {f}
     /\ UNCHANGED <<current_rx_frame, current_rx_frame_size, current_rx_frame_idx, isr>>
  \/ /\ f # current_rx_frame
     /\ f.type = "IP" => f.dst = "other"
     /\ f.type # "ARP"
     /\ rx' = Tail(rx)
     /\ answered' = answered \cup {f}
     /\ UNCHANGED <<cache, current_rx_frame, current_rx_frame_size, current_rx_frame_idx, isr,
                    arp_reply, txVars>>
  \/ /\ f # current_rx_frame
     /\ f.type = "IP" /\ f.dst # "other"
     /\ add_link_layer_address(f.ip, f.link)
     /\ current_rx_frame' = f
     /\ current_rx_frame_size' = IF f.size + PROTO_MAC_HLEN >= DEV_MTU THEN DEV_MTU
                                 ELSE f.size + PROTO_MAC_HLEN
     /\ current_rx_frame_idx' = PROTO_MAC_HLEN
     /\ isr' = "tx"
     /\ UNCHANGED <<rx, arp_reply, txVars, answered>>

IsrFrame ==
  /\ Software /\ isr = "rx"
  /\ \/ /\ rx = << >> \/ looked = TX_DESCRIPTORS
        /\ isr' = "tx" /\ looked' = 0
        /\ UNCHANGED <<cache, rxVars, arp_reply, txVars, answered>>
     \/ /\ rx # << >> /\ looked < TX_DESCRIPTORS
        /\ mbed_process_input(Head(rx))
        /\ looked' = IF isr' = "tx" THEN 0 ELSE looked + 1
  /\ UNCHANGED <<toCome, irq, pc, reading, outVars, hwVars>>

Garbage(i) == tx[i].status # MAGIC /\ tx[i].packet # NULL

mbed_eth_garbage_tx_buffers ==
  /\ in_use' = [b \in Buffers |-> in_use[b] /\ ~\E i \in Descriptors : Garbage(i) /\ tx[i].packet = b]
  /\ tx' = [i \in Descriptors |-> IF Garbage(i) THEN [tx[i] EXCEPT !.packet = NULL] ELSE tx[i]]

IsrSent ==
  /\ Software /\ isr = "tx"
  /\ IF "TX" \in irq THEN mbed_eth_garbage_tx_buffers ELSE UNCHANGED <<in_use, tx>>
  /\ isr' = "clear"
  /\ UNCHANGED <<cache, toCome, rxVars, irq, looked, pc, reading, search, current_buffer, buff,
                 ethernet_header, arp_reply, produce, hwVars, answered>>

\* The status is read again: whatever happened since the handler looked is
\* cleared with the rest.
IsrEnd ==
  /\ Software /\ isr = "clear"
  /\ irq' = {}
  /\ isr' = "out"
  /\ UNCHANGED <<cache, toCome, rxVars, looked, pc, reading, outVars, arp_reply, txVars, hwVars,
                 answered>>

-----------------------------------------------------------------------------
\* The main loop: smews_receive reads a packet byte by byte.

AtMain(here, there) == Main /\ pc = here /\ pc' = there


\* A frame that was received and not handled raises its interrupt again.
Trigger == irq' = IF rx # << >> THEN irq \cup {"RX"} ELSE irq

\* A frame that is not read from its beginning says anything of its size.
mbed_eth_byte_available ==
  /\ Main /\ pc = "idle"
  /\ \/ /\ current_rx_frame = NoFrame /\ rx # << >>
        /\ Trigger
        /\ UNCHANGED <<pc, read>>
     \/ /\ current_rx_frame # NoFrame
        /\ LET begins == current_rx_frame_idx = PROTO_MAC_HLEN IN
           \E n \in IF begins THEN {current_rx_frame.size} ELSE 1 .. DEV_MTU :
             read' = [of |-> current_rx_frame, size |-> n, bytes |-> 0, whole |-> begins]
        /\ pc' = "get"
        /\ UNCHANGED irq
  /\ UNCHANGED <<cache, toCome, rxVars, handler, spoiled, outVars, arp_reply, txVars, hwVars, answered>>

\* smews_receive takes the bytes it wants from whatever frame there is.
\* Without a frame the byte is -1, and what was read is not the packet.
mbed_eth_get_byte ==
  LET taken == IF current_rx_frame = NoFrame THEN read.bytes ELSE read.bytes + 1 IN
  /\ Main /\ pc = "get"
  /\ read' = [read EXCEPT !.bytes = taken, !.whole = @ /\ current_rx_frame = read.of]
  /\ spoiled' = spoiled \cup ({current_rx_frame} \ {NoFrame, read.of})
  /\ current_rx_frame_idx' = IF current_rx_frame = NoFrame THEN current_rx_frame_idx
                             ELSE current_rx_frame_idx + 1
  /\ pc' = CASE current_rx_frame = NoFrame -> "packet"
             [] /\ current_rx_frame # NoFrame
                /\ current_rx_frame_idx' >= current_rx_frame_size -> "null"
             [] OTHER -> IF taken = read.size THEN "packet" ELSE "get"
  /\ UNCHANGED <<cache, toCome, rx, current_rx_frame, current_rx_frame_size, irq, handler, outVars,
                 arp_reply, txVars, hwVars, answered>>

\* Mutant: the frame goes back to the ring before it is forgotten.
FrameNullLast ==
  /\ AtMain("null", "zero")
  /\ rx' = Tail(rx)
  /\ UNCHANGED <<cache, toCome, current_rx_frame, current_rx_frame_size, current_rx_frame_idx, irq,
                 handler, reading, outVars, arp_reply, txVars, hwVars, answered>>

\* The end of the frame, one assignment at a time.
FrameNull ==
  /\ AtMain("null", "zero")
  /\ current_rx_frame' = NoFrame
  /\ UNCHANGED <<cache, toCome, rx, current_rx_frame_size, current_rx_frame_idx, irq, handler, reading,
                 outVars, arp_reply, txVars, hwVars, answered>>
FrameZero ==
  /\ AtMain("zero", "done")
  /\ current_rx_frame_size' = 0 /\ current_rx_frame_idx' = 0
  /\ UNCHANGED <<cache, toCome, rx, current_rx_frame, irq, handler, reading, outVars, arp_reply, txVars,
                 hwVars, answered>>
FrameDone ==
  /\ AtMain("done", "trigger")
  /\ rx' = IF rx = << >> THEN rx ELSE Tail(rx)
  /\ UNCHANGED <<cache, toCome, current_rx_frame, current_rx_frame_size, current_rx_frame_idx, irq,
                 handler, reading, outVars, arp_reply, txVars, hwVars, answered>>
\* The byte is returned.  After a frame that was cut there is more to read.
FrameTrigger ==
  /\ AtMain("trigger", IF read.bytes = read.size THEN "packet" ELSE "get")
  /\ Trigger
  /\ UNCHANGED <<cache, toCome, rxVars, handler, reading, outVars, arp_reply, txVars, hwVars, answered>>

-----------------------------------------------------------------------------
\* smews_send writes the answer, if the packet was read whole.

mbed_eth_get_tx_buffer ==
  LET b == CHOOSE b \in Buffers : ~in_use[b] /\ \A c \in Buffers : ~in_use[c] => b <= c IN
  /\ current_buffer' = b
  /\ in_use' = [in_use EXCEPT ![b] = TRUE]
  /\ buff' = [buff EXCEPT ![b] = read.of]

mbed_eth_prepare_output ==
  /\ Main /\ pc = "packet" /\ read.bytes = read.size /\ read.whole
  /\ IF \A b \in Buffers : in_use[b]
     THEN mbed_eth_garbage_tx_buffers /\ UNCHANGED <<pc, current_buffer, buff>>
     ELSE mbed_eth_get_tx_buffer /\ pc' = "fill" /\ UNCHANGED tx
  /\ UNCHANGED <<cache, toCome, rxVars, irq, handler, reading, search, ethernet_header, arp_reply,
                 produce, hwVars, answered>>

Damaged ==
  /\ Main /\ pc = "packet" /\ ~ (read.bytes = read.size /\ read.whole)
  /\ pc' = "idle" /\ read' = NoRead
  /\ UNCHANGED <<cache, toCome, rxVars, irq, handler, spoiled, outVars, arp_reply, txVars, hwVars, answered>>

\* One entry of the table is compared.
get_link_layer_address_compare ==
  LET ip == read.of.ip IN
  /\ Main /\ pc = "fill"
  /\ \/ /\ slot = LINK_LAYER_CACHE_MAX_ENTRY
        /\ dst_addr' = Broadcast /\ pc' = "put" /\ UNCHANGED slot
     \/ /\ slot < LINK_LAYER_CACHE_MAX_ENTRY /\ _link_layer_table[slot].ip = ip
        /\ pc' = "copy" /\ UNCHANGED search
     \/ /\ slot < LINK_LAYER_CACHE_MAX_ENTRY /\ _link_layer_table[slot].ip # ip
        /\ slot' = slot + 1 /\ UNCHANGED <<pc, dst_addr>>
  /\ UNCHANGED <<cache, toCome, rxVars, irq, handler, reading, current_buffer, in_use, buff,
                 ethernet_header, arp_reply, txVars, hwVars, answered>>

\* Then its address is copied: it may be that of another host by now.
get_link_layer_address_copy ==
  /\ AtMain("copy", "put")
  /\ dst_addr' = _link_layer_table[slot].link_layer
  /\ UNCHANGED <<cache, toCome, rxVars, irq, handler, reading, slot, current_buffer, in_use, buff,
                 ethernet_header, arp_reply, txVars, hwVars, answered>>

\* Mutant: the destination is filled in with the rest of the first header.
mbed_eth_fill_header_first ==
  /\ AtMain("put", "first")
  /\ Prompt => Sent
  /\ ethernet_header' = IF ethernet_header = NoLink THEN dst_addr ELSE ethernet_header
  /\ slot' = 0 /\ dst_addr' = NoLink
  /\ UNCHANGED <<cache, toCome, rxVars, irq, handler, reading, current_buffer, in_use, buff, arp_reply,
                 txVars, hwVars, answered>>

\* There is one header, which a frame that is not sent yet may still need: a
\* Prompt controller has sent it.
mbed_eth_fill_header ==
  /\ AtMain("put", "first")
  /\ Prompt => Sent
  /\ ethernet_header' = dst_addr
  /\ slot' = 0 /\ dst_addr' = NoLink
  /\ UNCHANGED <<cache, toCome, rxVars, irq, handler, reading, current_buffer, in_use, buff, arp_reply,
                 txVars, hwVars, answered>>

\* A fragment is stored in two steps, its buffer and then its status.
Fragment(idx, packet, isLast, here, status, there) ==
  /\ FreeDescriptor(idx)
  /\ \/ /\ AtMain(here, status)
        /\ tx' = [tx EXCEPT ![Ring(produce + idx)].packet = packet]
     \/ /\ AtMain(status, there)
        /\ tx' = [tx EXCEPT ![Ring(produce + idx)].status = MAGIC, ![Ring(produce + idx)].last = isLast]
  /\ UNCHANGED <<cache, toCome, rxVars, irq, handler, reading, outVars, arp_reply, produce, hwVars, answered>>

mbed_eth_prepare_fragment ==
  \/ Fragment(0, HEADER, FALSE, "first", "first status", "second")
  \/ Fragment(1, current_buffer, TRUE, "second", "second status", "give")

mbed_eth_output_done ==
  /\ AtMain("give", "idle")
  /\ rflpc_eth_done_process_tx_packet(2)
  /\ current_buffer' = NULL
  /\ answered' = answered \cup {read.of}
  /\ read' = NoRead
  /\ UNCHANGED <<cache, toCome, rxVars, irq, handler, spoiled, search, in_use, buff, ethernet_header,
                 arp_reply, tx, hwVars>>

-----------------------------------------------------------------------------
Interrupt == eth_irq_handler \/ IsrFrame \/ IsrSent \/ IsrEnd
Loop == \/ mbed_eth_byte_available \/ mbed_eth_get_byte
        \/ FrameNull \/ FrameZero \/ FrameDone \/ FrameTrigger
        \/ mbed_eth_prepare_output \/ Damaged \/ get_link_layer_address_compare
        \/ get_link_layer_address_copy \/ mbed_eth_fill_header \/ mbed_eth_prepare_fragment \/ mbed_eth_output_done
Time == TimePasses /\ UNCHANGED <<toCome, rxVars, irq, handler, pc, reading, outVars, arp_reply, txVars,
                                  hwVars, answered>>
Next == Arrive \/ Transmit \/ Interrupt \/ Loop \/ Time

Spec == EthInit /\ [][Next]_vars
        /\ WF_vars(Transmit) /\ WF_vars(Interrupt) /\ WF_vars(Loop)

-----------------------------------------------------------------------------
\* While the main loop reads a frame its descriptor is not given back: the
\* frame is the one the receive ring stands at, and it is whole.
FrameKept == current_rx_frame # NoFrame => rx # << >> /\ Head(rx) = current_rx_frame

\* Every frame sent is whole and goes to the host it answers: an ARP reply to
\* the one that asked, an IP packet to an address its host was heard with, or
\* to all.
Destined(e) ==
  IF Len(e) = 1 THEN e[1] # Void /\ e[1].dst = e[1].of.link /\ e[1].of.type = "ARP"
  ELSE /\ e[1] # Void /\ e[2] # Void
       /\ e[2].of.type = "IP"
       /\ e[1].dst \in {f.link : f \in {f \in Traffic : f.ip = e[2].of.ip}} \cup {Broadcast}
AnswersReachHosts == emitted # << >> => Destined(emitted)


=============================================================================

-------------------------------- MODULE Slip --------------------------------
(***************************************************************************)
(* The serial targets.  A host program (panManager with its slip plugin,   *)
(* tunToSlip6 or panManagerWindows) frames with SLIP the packets of a tun  *)
(* interface; the interrupt handler of the device unescapes the bytes and  *)
(* puts them in a ring buffer, from which dev_get reads while              *)
(* smews_receive waits at most TIMEOUT for each byte.  The ends of the     *)
(* frames are dropped by the handler: where a packet begins is known only  *)
(* from the lengths read so far, and from the silence of the line.         *)
(***************************************************************************)
EXTENDS Integers, Sequences, SequencesExt

CONSTANTS Drivers,    \* the serial drivers, records as those below
          Hosts,      \* the host programs, records as those below
          Traffic,    \* what the tun interface passes and what Smews sends
          INBUF_SIZE, \* of the ring buffer
          DEV_MTU     \* of the buffers of the host

ASSUME SlipAssumption == {INBUF_SIZE, DEV_MTU} \subseteq Nat \ {0}

SLIP_END == 192
SLIP_ESC == 219
SLIP_ESC_END == 220
SLIP_ESC_ESC == 221
IPV4 == 69          \* 0x45, the first byte of every packet accepted
NULL == -1

\* What tells the drivers apart: dev_get masks the interrupt while it moves
\* the pointers, the handler unmasks it on every path, and it looks at
\* writePtr before it writes.
Arduino_slip == [masks |-> TRUE, unmasks |-> TRUE, looks |-> TRUE]
MicaZ == [masks |-> TRUE, unmasks |-> TRUE, looks |-> TRUE]
GBA == [masks |-> TRUE, unmasks |-> FALSE, looks |-> TRUE]
WSN430 == [masks |-> FALSE, unmasks |-> TRUE, looks |-> TRUE]
mbed_slip == [masks |-> FALSE, unmasks |-> TRUE, looks |-> FALSE]

\* And the hosts: how many of the DEV_MTU bytes read from the tun interface
\* are its own header, and whether a packet from the device is cut at DEV_MTU.
panManager == [header |-> 4, cuts |-> TRUE]
tunToSlip6 == [header |-> 4, cuts |-> TRUE]
panManagerWindows == [header |-> 0, cuts |-> FALSE]

VARIABLES driver, host,
          tunIn,       \* the packets the tun interface has for the host
          lineIn,      \* the bytes on the line towards the device
          irq,         \* the receive interrupt is enabled
          slip_state,  \* of the handler
          serial_line, \* the ring buffer: the pointers are places or NULL
          rpc, c,      \* where dev_get is, and the byte it fetched
          rx,          \* what smews_receive has read of a packet
          outbox,      \* the packets Smews will send
          lineOut,     \* the bytes on the line towards the host
          host_state,  \* slip_state of the host
          dbuffer,     \* what read_from_slip has of a packet
          tunOut,      \* the packets passed to the tun interface
          accepted,    \* the bytes the handler had room for
          got,         \* the bytes dev_get returned
          handled,     \* the packets smews_receive read to their end
          quiet,       \* the packets that found line and device idle
          sent,        \* the packets Smews sent
          fault        \* the handler wrote through NULL

drivers == <<driver, host>>
towards == <<tunIn, lineIn, quiet>>
ring == <<irq, slip_state, serial_line, accepted, fault>>
reader == <<rpc, c, rx, got, handled>>
back == <<outbox, lineOut, host_state, dbuffer, tunOut, sent>>
vars == <<drivers, towards, ring, reader, back>>

Places == 0 .. INBUF_SIZE - 1

dev_init ==
  /\ irq = TRUE
  /\ slip_state = "slip_in"
  /\ serial_line = [buffer |-> [i \in Places |-> 0], writePtr |-> 0, readPtr |-> NULL]

Init ==
  /\ driver \in Drivers /\ host \in Hosts
  /\ \E t \in Traffic : tunIn = t.in /\ outbox = t.out
  /\ lineIn = << >> /\ quiet = {}
  /\ dev_init /\ accepted = << >> /\ fault = FALSE
  /\ rpc = "idle" /\ c = 0 /\ rx = << >> /\ got = << >> /\ handled = << >>
  /\ lineOut = << >> /\ sent = << >>
  /\ host_state = "slip_in" /\ dbuffer = << >> /\ tunOut = << >>

-----------------------------------------------------------------------------
(* The encoding, the same in every file. *)

\* Mutant: the byte SLIP_ESC is sent as it is.
EscapedEnd(b) == IF b = SLIP_END THEN <<SLIP_ESC, SLIP_ESC_END>> ELSE <<b>>

Escaped(b) ==
  CASE b = SLIP_END -> <<SLIP_ESC, SLIP_ESC_END>>
    [] b = SLIP_ESC -> <<SLIP_ESC, SLIP_ESC_ESC>>
    [] OTHER -> <<b>>

Encoded(p) == <<SLIP_END>> \o FlattenSeq([i \in DOMAIN p |-> Escaped(p[i])]) \o <<SLIP_END>>

\* The switch of the handler: the byte that b stands for in a state, and the
\* state after it.  Only an escape code leaves slip_escaped.
Unescaped(b, state) ==
  CASE state = "slip_escaped" /\ b = SLIP_ESC_END -> SLIP_END
    [] state = "slip_escaped" /\ b = SLIP_ESC_ESC -> SLIP_ESC
    [] OTHER -> b

StateAfter(b, state) ==
  CASE b = SLIP_ESC -> "slip_escaped"
    [] b \in {SLIP_ESC_END, SLIP_ESC_ESC} -> "slip_in"
    [] OTHER -> state

-----------------------------------------------------------------------------
(* From the host to the ring buffer. *)

\* tun_input reads DEV_MTU bytes at most, header included.
Truncated(p) == SubSeq(p, 1, Min({Len(p), DEV_MTU - host.header}))

\* tun_input and forward_to_slip: one packet, written to its end.
forward_to_slip ==
  /\ tunIn # << >>
  /\ lineIn' = lineIn \o Encoded(Truncated(Head(tunIn)))
  /\ quiet' = IF /\ lineIn = << >> /\ rpc = "idle" /\ serial_line.readPtr = NULL
                 /\ Len(Head(tunIn)) <= INBUF_SIZE
                 /\ Len(Head(tunIn)) <= DEV_MTU - host.header
              THEN quiet \cup {Head(tunIn)}
              ELSE quiet
  /\ tunIn' = Tail(tunIn)
  /\ UNCHANGED <<drivers, ring, reader, back>>

Next1(place) == IF place + 1 = INBUF_SIZE THEN 0 ELSE place + 1

\* The byte is written; a buffer that has become full is marked with NULL.
Stored(b) ==
  LET r == IF serial_line.readPtr = NULL THEN serial_line.writePtr ELSE serial_line.readPtr
      w == Next1(serial_line.writePtr)
  IN [buffer |-> [serial_line.buffer EXCEPT ![serial_line.writePtr] = b],
      readPtr |-> r,
      writePtr |-> IF w = r THEN NULL ELSE w]

\* The handler for the end of a frame or an escape: it returns at once.
uart_irq_end ==
  /\ irq /\ lineIn # << >>
  /\ Head(lineIn) \in {SLIP_END, SLIP_ESC}
  /\ slip_state' = StateAfter(Head(lineIn), slip_state)
  /\ irq' = driver.unmasks
  /\ lineIn' = Tail(lineIn)
  /\ UNCHANGED <<drivers, tunIn, quiet, serial_line, accepted, fault, reader, back>>

\* The handler for a byte.  One that finds the buffer full is lost.
uart_irq ==
  /\ irq /\ lineIn # << >>
  /\ Head(lineIn) \notin {SLIP_END, SLIP_ESC}
  /\ LET b == Unescaped(Head(lineIn), slip_state)
     IN IF serial_line.writePtr # NULL
        THEN /\ serial_line' = Stored(b)
             /\ accepted' = Append(accepted, b)
             /\ UNCHANGED fault
        ELSE /\ fault' = (fault \/ ~driver.looks)
             /\ UNCHANGED <<serial_line, accepted>>
  /\ slip_state' = StateAfter(Head(lineIn), slip_state)
  /\ lineIn' = Tail(lineIn)
  /\ UNCHANGED <<drivers, tunIn, quiet, irq, reader, back>>

-----------------------------------------------------------------------------
(* dev_get, one step for each access of read_byte_from_buffer.             *)

\* Mutant: the interrupt is not masked.
dev_getOpen ==
  /\ rpc \in {"idle", "wait"}
  /\ serial_line.readPtr # NULL
  /\ rpc' = "refill?"
  /\ UNCHANGED <<drivers, towards, ring, c, rx, got, handled, back>>

\* smews_receive is called with DEV_DATA_TO_READ, or goes on with a packet.
dev_get ==
  /\ rpc \in {"idle", "wait"}
  /\ serial_line.readPtr # NULL
  /\ rpc' = "refill?"
  /\ irq' = (irq /\ ~driver.masks)
  /\ UNCHANGED <<drivers, towards, slip_state, serial_line, accepted, fault,
                 c, rx, got, handled, back>>

At(place, next) == rpc = place /\ rpc' = next

\* if (writePtr == NULL) writePtr = readPtr
Refill ==
  /\ \/ /\ At("refill?", "refill")
        /\ serial_line.writePtr = NULL
        /\ UNCHANGED serial_line
     \/ /\ At("refill?", "fetch")
        /\ serial_line.writePtr # NULL
        /\ UNCHANGED serial_line
     \/ /\ At("refill", "fetch")
        /\ serial_line' = [serial_line EXCEPT !.writePtr = serial_line.readPtr]
  /\ UNCHANGED <<drivers, towards, irq, slip_state, accepted, fault,
                 c, rx, got, handled, back>>

\* c = *readPtr++
Fetch ==
  /\ At("fetch", "wrap")
  /\ c' = serial_line.buffer[serial_line.readPtr]
  /\ serial_line' = [serial_line EXCEPT !.readPtr = @ + 1]
  /\ UNCHANGED <<drivers, towards, irq, slip_state, accepted, fault,
                 rx, got, handled, back>>

\* if (readPtr == buffer + INBUF_SIZE) readPtr = buffer
Wrap ==
  /\ At("wrap", "empty?")
  /\ serial_line' = [serial_line EXCEPT !.readPtr = @ % INBUF_SIZE]
  /\ UNCHANGED <<drivers, towards, irq, slip_state, accepted, fault,
                 c, rx, got, handled, back>>

\* if (readPtr == writePtr) readPtr = NULL
Empty ==
  /\ \/ /\ At("empty?", "empty")
        /\ serial_line.readPtr = serial_line.writePtr
        /\ UNCHANGED serial_line
     \/ /\ At("empty?", "return")
        /\ serial_line.readPtr # serial_line.writePtr
        /\ UNCHANGED serial_line
     \/ /\ At("empty", "return")
        /\ serial_line' = [serial_line EXCEPT !.readPtr = NULL]
  /\ UNCHANGED <<drivers, towards, irq, slip_state, accepted, fault,
                 c, rx, got, handled, back>>

\* The first byte is the version, the second stands for the length.
Takes(p) == p[1] = IPV4

Whole(p) == Len(p) >= 2 /\ Len(p) >= p[2]

\* The byte is returned to smews_receive, which drops a packet that does not
\* begin as IPv4, and reads another one to the length that it announces.
Return ==
  /\ rpc = "return"
  /\ irq' = TRUE
  /\ got' = Append(got, c)
  /\ LET p == Append(rx, c)
     IN IF ~Takes(p) \/ Whole(p)
        THEN /\ rpc' = "idle" /\ rx' = << >>
             /\ handled' = IF Takes(p) THEN Append(handled, p) ELSE handled
        ELSE rpc' = "wait" /\ rx' = p /\ UNCHANGED handled
  /\ UNCHANGED <<drivers, towards, slip_state, serial_line, accepted, fault, c, back>>

\* Mutant: what was read of the packet is kept.
TimeoutKeeps ==
  /\ rpc = "wait" /\ serial_line.readPtr = NULL
  /\ lineIn = << >>
  /\ rpc' = "idle"
  /\ UNCHANGED <<drivers, towards, ring, c, rx, got, handled, back>>

\* dev_get waits for TIMEOUT and returns -1: smews_receive gives the packet
\* up.  The host sends the bytes of a packet faster than this, so that the
\* line is silent.
Timeout ==
  /\ rpc = "wait" /\ serial_line.readPtr = NULL
  /\ lineIn = << >>
  /\ rpc' = "idle" /\ rx' = << >>
  /\ UNCHANGED <<drivers, towards, ring, c, got, handled, back>>

-----------------------------------------------------------------------------
(* From Smews to the tun interface. *)

\* DEV_PREPARE_OUTPUT, a dev_put for each byte and DEV_OUTPUT_DONE.
dev_put ==
  /\ rpc = "idle" /\ outbox # << >>
  /\ lineOut' = lineOut \o Encoded(Head(outbox))
  /\ sent' = Append(sent, Head(outbox))
  /\ outbox' = Tail(outbox)
  /\ UNCHANGED <<drivers, towards, ring, reader, host_state, dbuffer, tunOut>>

\* The host reads an end: it passes the packet to the tun interface.
read_end ==
  /\ lineOut # << >> /\ Head(lineOut) = SLIP_END
  /\ tunOut' = IF dbuffer # << >> THEN Append(tunOut, dbuffer) ELSE tunOut
  /\ dbuffer' = << >>
  /\ lineOut' = Tail(lineOut)
  /\ UNCHANGED <<drivers, towards, ring, reader, outbox, host_state, sent>>

\* It reads an escape or a byte, which it keeps if there is room, or without
\* looking: what it then writes over, past its buffer, is not modelled.
read_from_slip ==
  /\ lineOut # << >> /\ Head(lineOut) # SLIP_END
  /\ host_state' = StateAfter(Head(lineOut), host_state)
  /\ dbuffer' = IF Head(lineOut) # SLIP_ESC /\ (host.cuts => Len(dbuffer) < DEV_MTU)
                THEN Append(dbuffer, Unescaped(Head(lineOut), host_state))
                ELSE dbuffer
  /\ lineOut' = Tail(lineOut)
  /\ UNCHANGED <<drivers, towards, ring, reader, outbox, tunOut, sent>>

-----------------------------------------------------------------------------
Handler == uart_irq_end \/ uart_irq
Device == dev_get \/ Refill \/ Fetch \/ Wrap \/ Empty \/ Return \/ Timeout
Host == forward_to_slip \/ read_end \/ read_from_slip

\* Nothing is left to do.
Done ==
  /\ tunIn = << >> /\ lineIn = << >> /\ outbox = << >> /\ lineOut = << >>
  /\ rpc = "idle" /\ serial_line.readPtr = NULL
  /\ UNCHANGED vars

Next == Handler \/ Device \/ dev_put \/ Host \/ Done

\* A byte on the line raises its interrupt, the main loop of the device runs
\* for ever and so does that of the host, which looks at both its sides.
Spec == Init /\ [][Next]_vars /\ WF_vars(Handler) /\ WF_vars(Device) /\ WF_vars(dev_put)
             /\ WF_vars(forward_to_slip) /\ WF_vars(read_end \/ read_from_slip)

-----------------------------------------------------------------------------
Content ==
  IF serial_line.readPtr = NULL THEN << >>
  ELSE LET n == IF serial_line.writePtr = NULL THEN INBUF_SIZE
                ELSE (serial_line.writePtr - serial_line.readPtr) % INBUF_SIZE
       IN [i \in 1 .. n |-> serial_line.buffer[(serial_line.readPtr + i - 1) % INBUF_SIZE]]

\* Whatever the interleaving of the interrupt handler with the reader, and
\* also after the buffer has been full, dev_get has returned the bytes that
\* the handler accepted, in their order, and the others are in the buffer.
BytesInOrder ==
  /\ ~fault
  /\ rpc \in {"idle", "wait"} => got \o Content = accepted

\* The receiver finds the packets again after any loss: a packet that comes
\* when line and device are idle is read whole by smews_receive, also when
\* earlier packets were cut by a full buffer or by the host, or were left in
\* the middle of their bytes.
QuietHandled ==
  \A p \in UNION {Range(t.in) : t \in Traffic} :
    p \in quiet ~> p \in Range(handled)

\* Every packet that Smews sends reaches the tun interface, with its bytes,
\* once, in order and apart from the others.
PacketsReachTun == <>[](outbox = << >> /\ tunOut = sent)
=============================================================================

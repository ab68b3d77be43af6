------------------------------ MODULE Checksum ------------------------------
(***************************************************************************)
(* The checksums of core/checksum.inl, in the order in which               *)
(* smews_send_packet (core/output.c) adds up a packet before it sends it,  *)
(* with the sums of static files precalculated by tools/GenApps.py, and in *)
(* which smews_receive (core/input.c) adds one up while it reads it.       *)
(*                                                                         *)
(* A packet is a record of the fields that vary.  Each HTTP header of a    *)
(* generated answer is replaced by two bytes of the same sum: its texts    *)
(* have even lengths.                                                      *)
(***************************************************************************)
EXTENDS Integers, Sequences, SequencesExt

CONSTANTS Packets,         \* what is sent
          CHUNCKS_NBITS    \* log2 of the size of the blocks of static files

ASSUME ChecksumAssumption == CHUNCKS_NBITS \in Nat \ {0}

\* checksum_flip.  S0 is the most significant byte.
S0 == 0
S1 == 1

High(val) == (val \div 256) % 256
Low(val)  == val % 256
Word(val) == <<High(val), Low(val)>>
Value(bytes) == bytes[1] * 256 + bytes[2]

----------------------------------------------------------------------------
\* checksum.inl.  c is the state of the sum.

checksum_init == [sum |-> <<0, 0>>, carry |-> 0, flip |-> S0]

AddAt(c, place, val) ==
  LET tmp_sum == c.sum[place + 1] + val + c.carry IN
  [c EXCEPT !.sum[place + 1] = tmp_sum % 256, !.carry = tmp_sum \div 256]

checksum_add(c, val) == [AddAt(c, c.flip, val) EXCEPT !.flip = 1 - @]
checksum_add16(c, val) == AddAt(AddAt(c, S0, High(val)), S1, Low(val))
checksum_add32(c, val) == AddAt(AddAt(c, S0, val[1] + val[3]), S1, val[2] + val[4])

----------------------------------------------------------------------------
\* What is sent.

BASIC_IP_CHK  == 34054   \* 0x8506
BASIC_TCP_CHK == 4182    \* 0x1056
SERVICE_HTTP_HEADER_CHK         == 6257    \* 0x1871
SERVICE_HTTP_HEADER_CHUNKED_CHK == 10358   \* 0x2876
CRLF == <<13, 10>>
TCP_SYN == 2

Digit(d) == IF d < 10 THEN 48 + d ELSE 87 + d
\* size digits of n, the least significant one first, as they are computed
Digits(n, base, size) == [i \in 1 .. size |-> Digit((n \div (base ^ (i - 1))) % base)]

\* content_length_buffer
LengthDigits(p) ==
  IF p.header = "standard" THEN Digits(Len(p.content), 10, 6) ELSE Digits(Len(p.content), 16, 4)

ServiceHeader(p) ==
  CASE p.header = "standard" -> Word(SERVICE_HTTP_HEADER_CHK) \o Reverse(LengthDigits(p))
    [] p.header = "chunks"   -> Word(SERVICE_HTTP_HEADER_CHUNKED_CHK)
                                \o Reverse(LengthDigits(p)) \o CRLF
    [] p.header = "none"     -> Reverse(LengthDigits(p)) \o CRLF

\* What follows the TCP header.
Payload(p) ==
  CASE p.type = "file"      -> p.content
    [] p.type = "generator" -> ServiceHeader(p) \o p.content
                               \o (IF p.header = "standard" THEN << >> ELSE CRLF)
    [] p.type = "control"   -> IF p.flags = TCP_SYN THEN <<2, 4>> \o Word(p.mss) ELSE << >>
    [] p.type = "gpip"      -> p.content

TcpLength(p) == IF p.type = "gpip" THEN Len(p.content) ELSE 20 + Len(Payload(p))

IpHeader(p, sum) ==
  <<69, 0>> \o Word(20 + TcpLength(p)) \o <<0, 0, 0, 0>>
  \o (IF p.type = "gpip" THEN <<255, p.protocol>> ELSE <<64, 6>>)
  \o sum \o p.local \o p.ip

Tcp(p, sum) ==
  <<0, 80>> \o p.port \o p.next_outseqno \o p.current_inseqno
  \o <<IF p.flags = TCP_SYN THEN 96 ELSE 80, p.flags>> \o <<16, 0>> \o sum \o <<0, 0>>
  \o Payload(p)

PseudoHeader(p) == p.local \o p.ip \o <<0, 6>> \o Word(TcpLength(p))

----------------------------------------------------------------------------
\* The order in which it is added up: a sequence of calls.

Set(val)   == [call |-> "set", val |-> val]
Add(val)   == [call |-> "checksum_add", val |-> val]
Add16(val) == [call |-> "checksum_add16", val |-> val]
Add32(val) == [call |-> "checksum_add32", val |-> val]

IpSum(p) ==
  (IF p.type = "gpip" THEN <<Add16(17664), Add16(0), Add16(0), Add16(65280 + p.protocol)>>
                      ELSE <<Set(BASIC_IP_CHK)>>)
  \o <<Add32(p.local), Add16(TcpLength(p) + 20), Add32(p.ip)>>

\* The length is on an odd byte so that its digits are added up from the last
\* one.
LengthSum(p) ==
  <<Add(0)>> \o [i \in DOMAIN LengthDigits(p) |-> Add(LengthDigits(p)[i])] \o <<Add(0)>>

\* Mutant: the end of a chunk is added up as if it were on an even byte.
GeneratorSumEven(p) ==
  <<Add16(Value(p.checksum))>>
  \o CASE p.header = "standard" -> <<Add16(SERVICE_HTTP_HEADER_CHK)>> \o LengthSum(p)
       [] p.header # "standard" ->
            (IF p.header = "chunks" THEN <<Add16(SERVICE_HTTP_HEADER_CHUNKED_CHK)>> ELSE << >>)
            \o LengthSum(p) \o <<Add16(3338), Add16(3338)>>

GeneratorSum(p) ==
  <<Add16(Value(p.checksum))>>
  \o CASE p.header = "standard" -> <<Add16(SERVICE_HTTP_HEADER_CHK)>> \o LengthSum(p)
       [] p.header # "standard" ->
            (IF p.header = "chunks" THEN <<Add16(SERVICE_HTTP_HEADER_CHUNKED_CHK)>> ELSE << >>)
            \o LengthSum(p)
            \o <<Add16(3338), Add16(IF Len(p.content) % 2 = 1 THEN 2573 ELSE 3338)>>

\* The sum of bytes, the first one on an even place, without a carry left.
Sum(bytes) ==
  FoldLeft(LAMBDA s, i : s + (IF i % 2 = 1 THEN bytes[i] * 256 ELSE bytes[i]),
           0, [i \in 1 .. Len(bytes) |-> i])
Folded(sum) == IF sum = 0 THEN 0 ELSE ((sum - 1) % 65535) + 1

\* generateStaticResource: the sums of the blocks of a file.
Chunck == 2 ^ CHUNCKS_NBITS
Blocks(content) ==
  [b \in 1 .. ((Len(content) + Chunck - 1) \div Chunck) |->
     Folded(Sum(SubSeq(content, (b - 1) * Chunck + 1,
                       IF b * Chunck < Len(content) THEN b * Chunck ELSE Len(content))))]

FileSum(p) ==
  LET tmp_sum == FoldLeft(LAMBDA s, b : s + b, 0, Blocks(p.content)) IN
  <<Add32(Word(tmp_sum \div 65536) \o Word(tmp_sum))>>

TcpSum(p) ==
  <<Set(BASIC_TCP_CHK), Add32(p.local), Add16(TcpLength(p)), Add32(p.next_outseqno),
    Add(IF p.flags = TCP_SYN THEN 96 ELSE 80), Add(p.flags), Add32(p.ip), Add16(Value(p.port)),
    Add32(p.current_inseqno)>>
  \o CASE p.type = "generator" -> GeneratorSum(p)
       [] p.type = "control"   -> IF p.flags = TCP_SYN THEN <<Add16(516), Add16(p.mss)>> ELSE << >>
       [] p.type = "file"      -> FileSum(p)

----------------------------------------------------------------------------
\* smews_receive adds up a packet of the same form.

ReadIpSum(b) ==
  <<Add(b[1]), Add(b[2]), Add16(Value(SubSeq(b, 3, 4))), Add16(Value(SubSeq(b, 5, 6))),
    Add16(Value(SubSeq(b, 7, 8))), Add16(Value(SubSeq(b, 9, 10))),
    Add16(Value(SubSeq(b, 11, 12))), Add32(SubSeq(b, 13, 16)), Add32(SubSeq(b, 17, 20))>>

\* Mutant: the last byte of the data is not added up.
ReadTcpSumShort(p, b) ==
  [i \in 1 .. 10 |-> Add16(Value(SubSeq(b, 2 * i - 1, 2 * i)))]
  \o <<Add32(p.local), Add32(p.ip), Add16(Len(b))>>
  \o [i \in 1 .. Len(b) - 21 |-> Add(b[20 + i])]

\* b is the TCP segment; the options are read by words.
ReadTcpSum(p, b) ==
  LET header == (b[13] \div 16) * 4
      option == IF header >= 24 THEN <<Add16(Value(SubSeq(b, 21, 22))),
                                       Add16(Value(SubSeq(b, 23, 24)))>> ELSE << >> IN
  <<Add16(Value(SubSeq(b, 1, 2))), Add16(Value(SubSeq(b, 3, 4))), Add32(SubSeq(b, 5, 8)),
    Add32(SubSeq(b, 9, 12)), Add(b[13]), Add(b[14]), Add16(Value(SubSeq(b, 15, 16))),
    Add32(SubSeq(b, 17, 20)), Add32(p.local), Add32(p.ip), Add16(Len(b))>>
  \o option \o [i \in 1 .. Len(b) - header |-> Add(b[header + i])]

TCP_CHK_CONSTANT_PART == 65529   \* 0xffff - 6

----------------------------------------------------------------------------
VARIABLES packet,   \* the packet of this behaviour
          damaged,  \* the bytes of the TCP segment as they are received
          phase,    \* what is being added up
          calls,    \* the calls still to make, checksum_end comes last
          chk,      \* current_checksum, checksum_carry and checksum_flip
          sums      \* the sums of the phases that have ended

sumVars == <<packet, damaged, phase, calls, chk, sums>>

Complement(bytes) == [i \in 1 .. 2 |-> 255 - bytes[i]]

\* What out_c adds up while the content is generated.
ContentSum(p) == IF p.type # "generator" THEN << >> ELSE [i \in DOMAIN p.content |-> Add(p.content[i])]

\* The calls of a phase, given the sums of the earlier ones.
Program(of, p, s, bytes) ==
  CASE of = "content"  -> ContentSum(p)
    [] of = "ip"       -> IpSum(p)
    [] of = "tcp"      -> TcpSum([p EXCEPT !.checksum = s["content"]])
    [] of = "read ip"  -> ReadIpSum(IpHeader(p, Complement(s["ip"])))
    [] of = "read tcp" -> ReadTcpSum(p, bytes)
    [] of = "done"     -> << >>

\* A packet that is not TCP has one sum.
After(of, p) ==
  CASE of = "content"  -> "ip"
    [] of = "ip"       -> IF p.type = "gpip" THEN "read ip" ELSE "tcp"
    [] of = "tcp"      -> "read ip"
    [] of = "read ip"  -> IF p.type = "gpip" THEN "done" ELSE "read tcp"
    [] of = "read tcp" -> "done"

\* The line may change a byte.
Damages(bytes) ==
  {bytes} \cup {[bytes EXCEPT ![i] = (@ + d) % 256] : i \in {2, 17, Len(bytes)}, d \in {1, 128}}

SumInit ==
  /\ packet \in Packets
  /\ damaged = << >> /\ phase = "content"
  /\ calls = ContentSum(packet)
  /\ chk = checksum_init
  /\ sums = [of \in {"content", "ip", "tcp", "read ip", "read tcp"} |-> <<0, 0>>]

\* One call.
Call ==
  /\ calls # << >>
  /\ LET c == Head(calls) IN
     chk' = CASE c.call = "set"            -> [chk EXCEPT !.sum = Word(c.val)]
              [] c.call = "checksum_add"   -> checksum_add(chk, c.val)
              [] c.call = "checksum_add16" -> checksum_add16(chk, c.val)
              [] c.call = "checksum_add32" -> checksum_add32(chk, c.val)
  /\ calls' = Tail(calls)
  /\ UNCHANGED <<packet, damaged, phase, sums>>

\* One turn of the loop.
checksum_end ==
  /\ calls = << >> /\ chk.carry # 0
  /\ chk' = checksum_add(chk, 0)
  /\ UNCHANGED <<packet, damaged, phase, calls, sums>>

\* The sum is used and the next one begins.
NextSum ==
  /\ phase # "done" /\ calls = << >> /\ chk.carry = 0
  /\ sums' = [sums EXCEPT ![phase] = chk.sum]
  /\ phase' = After(phase, packet)
  /\ IF phase = "tcp" THEN damaged' \in Damages(Tcp(packet, Complement(chk.sum)))
                      ELSE UNCHANGED damaged
  /\ calls' = Program(phase', packet, sums', damaged')
  /\ chk' = checksum_init
  /\ UNCHANGED packet

----------------------------------------------------------------------------
\* The packet that is sent has the checksums that its bytes call for, whatever
\* the parity of the lengths of its parts and the order in which they were
\* added up: core/output.c:397 to 552.
ChecksumsValid ==
  phase = "done" =>
    /\ Folded(Sum(IpHeader(packet, Complement(sums["ip"])))) = 65535
    /\ packet.type # "gpip" =>
         Folded(Sum(PseudoHeader(packet) \o Tcp(packet, Complement(sums["tcp"])))) = 65535

\* A packet is accepted if and only if no byte was changed on the way:
\* core/input.c:423 and 1371.
DamageDetected ==
  phase = "done" =>
    /\ sums["read ip"] = <<255, 255>>
    /\ packet.type # "gpip" =>
         ((Value(sums["read tcp"]) = TCP_CHK_CONSTANT_PART)
            <=> damaged = Tcp(packet, Complement(sums["tcp"])))
=============================================================================

----------------------------- MODULE Algorithms -----------------------------
(***************************************************************************)
(* The three algorithms of the server that have no state of their own, one *)
(* in each behaviour: the sums of a packet (Checksum), the comparison of   *)
(* IPv6 addresses (Addresses) and the search of a word (Blob).             *)
(***************************************************************************)
EXTENDS Checksum, Addresses, Blob

CONSTANTS Pairs,     \* pairs of addresses
          Searches,  \* lists of words and what is searched in them
          Garbage    \* what may lie after a tree

VARIABLES task,      \* the algorithm of this behaviour
          addresses, \* a pair of addresses
          words,     \* the references of the words
          tree,      \* the bytes of the tree
          asked,     \* what is searched
          text,      \* what is still to be read of it
          at         \* blob

vars == <<task, addresses, words, tree, asked, text, at, packet, damaged, phase, calls, chk, sums>>

\* genBlobTree: the references are the places of the words in the list.
References(symbols) == [w \in Range(symbols) |-> (CHOOSE i \in DOMAIN symbols : symbols[i] = w) - 1]

NoSum == /\ packet = [type |-> "none"] /\ damaged = << >> /\ phase = "none"
         /\ calls = << >> /\ chk = checksum_init /\ sums = << >>
NoWords == words = << >> /\ tree = << >> /\ asked = << >> /\ text = << >> /\ at = 1

Init ==
  \/ task = "sum" /\ SumInit /\ NoWords /\ addresses = << >>
  \/ task = "addresses" /\ addresses \in Pairs /\ NoWords /\ NoSum
  \/ /\ task = "words"
     /\ \E s \in Searches, g \in Garbage :
          /\ words = References(s.symbols)
          /\ tree = BLOB(References(s.symbols)) \o g
          /\ asked = s.text
     /\ text = asked /\ at = 1
     /\ addresses = << >> /\ NoSum

\* The address of a segment is compressed, and given back for the answer.
Compress ==
  /\ task = "addresses" /\ Len(addresses) = 2
  /\ addresses' = addresses \o <<copy_compressed_ip(compress_ip(addresses[1])),
                                 compress_ip(addresses[2])>>
  /\ UNCHANGED <<task, words, tree, asked, text, at, sumVars>>

ReadChar ==
  /\ task = "words" /\ text # << >> /\ at # NotFound
  /\ at' = WalkChar(tree, at, Head(text))
  /\ text' = Tail(text)
  /\ UNCHANGED <<task, addresses, words, tree, asked, sumVars>>

AddUp == /\ task = "sum"
         /\ (Call \/ checksum_end \/ NextSum)
         /\ UNCHANGED <<task, addresses, words, tree, asked, text, at>>

Next == Compress \/ ReadChar \/ AddUp
Spec == Init /\ [][Next]_vars

\* The address of a connection is the one that was compressed, and a segment
\* belongs to the connection if and only if the addresses are the same:
\* core/connections.c:63 to 119.
SameAddress ==
  Len(addresses) = 4 =>
    /\ decompress_ip(addresses[3]) = addresses[1]
    /\ ipcmp(addresses[3], addresses[4]) <=> addresses[1] = addresses[2]

\* A text is found if and only if it is one of the words, with its reference,
\* whatever lies after the tree in memory: core/input.c:1212 to 1281.
FindsWords ==
  task = "words" /\ (text = << >> \/ at = NotFound) =>
    Reference(tree, at) = IF asked \in DOMAIN words THEN words[asked] ELSE -1
=============================================================================

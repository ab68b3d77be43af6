--------------------------- MODULE ConnectionList ---------------------------
(***************************************************************************)
(* What the circular list of connections promises to the rest of the       *)
(* server: a sequence, read from the head on, to which a connection is     *)
(* added at the end, and in which the head moves after the connection that *)
(* has sent or has been freed.  Smews uses the list in this way.           *)
(***************************************************************************)
EXTENDS Integers, Sequences

CONSTANT Cells

VARIABLE list

Init == list = << >>

Before(i) == SubSeq(list, 1, i - 1)
After(i) == SubSeq(list, i + 1, Len(list))

Add(c) ==
  /\ \A i \in 1 .. Len(list) : list[i] # c
  /\ list' = Append(list, c)

Free(i) == list' = After(i) \o Before(i)

Turn(i) == list' = After(i) \o Append(Before(i), list[i])

Next == \/ \E c \in Cells : Add(c)
        \/ \E i \in 1 .. Len(list) : Free(i) \/ Turn(i)

ListSpec == Init /\ [][Next]_list
=============================================================================

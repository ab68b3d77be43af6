------------------------------ MODULE Addresses -----------------------------
(***************************************************************************)
(* The compressed IPv6 addresses of core/connections.c: the longest run of *)
(* zeros is left out, and a first byte says where it was.  An address is a *)
(* sequence of ADDRESS_SIZE bytes, 16 in the code; that first byte is a    *)
(* pair here, the halves of which are large enough in the code.            *)
(***************************************************************************)
EXTENDS Integers, Sequences, FiniteSets, SequencesExt

CONSTANT ADDRESS_SIZE

ASSUME AddressAssumption == ADDRESS_SIZE \in Nat \ {0}

\* Mutant: the count goes on after the longest run so far.
ScanNoReset(full) ==
  FoldLeft(LAMBDA s, i :
             IF full[i + 1] = 0
             THEN [s EXCEPT !.curr_index = IF s.curr_nb = 0 THEN i ELSE @, !.curr_nb = @ + 1]
             ELSE IF s.curr_nb > s.max_nb
             THEN [s EXCEPT !.max_nb = s.curr_nb, !.max_index = s.curr_index]
             ELSE s,
           [curr_index |-> 0, max_index |-> 0, curr_nb |-> 0, max_nb |-> 0],
           [i \in 1 .. ADDRESS_SIZE |-> i - 1])

\* The loop of compress_ip that looks for the run, from byte 0.
Scan(full) ==
  FoldLeft(LAMBDA s, i :
             IF full[i + 1] = 0
             THEN [s EXCEPT !.curr_index = IF s.curr_nb = 0 THEN i ELSE @, !.curr_nb = @ + 1]
             ELSE IF s.curr_nb > s.max_nb
             THEN [s EXCEPT !.max_nb = s.curr_nb, !.max_index = s.curr_index, !.curr_nb = 0]
             ELSE s,
           [curr_index |-> 0, max_index |-> 0, curr_nb |-> 0, max_nb |-> 0],
           [i \in 1 .. ADDRESS_SIZE |-> i - 1])

\* What follows the bytes that are kept is 0.
compress_ip(full) ==
  LET run == Scan(full) IN
  [indexes |-> [start |-> run.max_index, zeros |-> run.max_nb],
   bytes   |-> [i \in 1 .. ADDRESS_SIZE |->
                  CASE i <= run.max_index -> full[i]
                    [] i > run.max_index /\ i <= ADDRESS_SIZE - run.max_nb -> full[i + run.max_nb]
                    [] OTHER -> 0]]

decompress_ip(comp) ==
  LET start == comp.indexes.start
      zeros == comp.indexes.zeros IN
  [i \in 1 .. ADDRESS_SIZE |->
     CASE i <= start -> comp.bytes[i]
       [] i > start /\ i <= start + zeros -> 0
       [] i > start + zeros -> comp.bytes[i - zeros]]

\* compressed_ip_size bytes are copied into a connection and compared: the
\* indexes and the bytes that are kept.
copy_compressed_ip(comp) ==
  [comp EXCEPT !.bytes = SubSeq(@, 1, ADDRESS_SIZE - comp.indexes.zeros)]

ipcmp(source, check) ==
  /\ source.indexes = check.indexes
  /\ \A i \in 1 .. ADDRESS_SIZE - source.indexes.zeros : source.bytes[i] = check.bytes[i]

=============================================================================

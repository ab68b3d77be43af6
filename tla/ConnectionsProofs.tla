------------------------- MODULE ConnectionsProofs -------------------------
(***************************************************************************)
(* The list of connections stays sound, and implements the sequence of     *)
(* ConnectionList, for any number of cells, if no handler that runs inside *)
(* smews_receive on a copied connection adds one.                          *)
(***************************************************************************)
EXTENDS Connections, TLAPS, FiniteSetTheorems, SequenceTheorems, WellFoundedInduction

\* add_connection keeps the list sound, and the pointers of a connection
\* other than the last one and the head.
LEMMA AddSound ==
  ASSUME TypeOK, RingOK,
         NEW c \in Cells, kind[c] = "free",
         NEW k \in {"http", "gpip"}, add_connection(c, k)
  PROVE  /\ RingOK'
         /\ all_connections' \in Pointers
         /\ next' \in [Cells -> Pointers]
         /\ prev' \in [Cells -> Pointers]
         /\ kind' \in [Cells -> {"free", "http", "gpip"}]
         /\ Listed' = Listed \cup {c}
<1>1. /\ Listed' = Listed \cup {c}
      /\ c \notin Listed
      /\ kind' \in [Cells -> {"free", "http", "gpip"}]
  BY DEF TypeOK, add_connection, Listed
<1>2. CASE all_connections = NULL
  <2>1. Listed = {}
    BY <1>2, ConnectionsAssumption DEF RingOK, Listed
  <2>2. /\ next' = [next EXCEPT ![c] = c]
        /\ prev' = [prev EXCEPT ![c] = c]
        /\ all_connections' = c
    BY <1>2 DEF add_connection
  <2>3. next'[c] = c /\ prev'[c] = c
    BY <2>2 DEF TypeOK
  <2>4. Listed' = {c}
    BY <1>1, <2>1
  <2>5. RingOK'
    BY <2>2, <2>3, <2>4 DEF RingOK, OneCircle
  <2> QED
    BY <1>1, <2>2, <2>5 DEF TypeOK, Pointers
<1>3. CASE all_connections # NULL
  <2> DEFINE h == all_connections
             last == prev[h]
  <2>1. h \in Listed /\ last \in Listed /\ next[last] = h
    BY <1>3 DEF RingOK
  <2>2. /\ prev' = [prev EXCEPT ![c] = last, ![h] = c]
        /\ next' = [next EXCEPT ![last] = c, ![c] = h]
        /\ all_connections' = h
    BY <1>3 DEF add_connection
  <2>3. /\ next' \in [Cells -> Pointers]
        /\ prev' \in [Cells -> Pointers]
    BY <2>1, <2>2 DEF TypeOK, Pointers, Listed
  <2>4. /\ next'[c] = h /\ prev'[c] = last
        /\ next'[last] = c /\ prev'[h] = c
        /\ \A d \in Listed : d # last => next'[d] = next[d]
        /\ \A d \in Listed : d # h => prev'[d] = prev[d]
    BY <1>1, <2>1, <2>2 DEF TypeOK, Listed
  <2>5. ASSUME NEW d \in Listed'
        PROVE  /\ next'[d] \in Listed' /\ prev'[next'[d]] = d
               /\ prev'[d] \in Listed' /\ next'[prev'[d]] = d
    <3>1. CASE d = c
      BY <1>1, <2>1, <2>4, <3>1
    <3>2. CASE d \in Listed
      <4>1. /\ next[d] \in Listed /\ prev[next[d]] = d
            /\ prev[d] \in Listed /\ next[prev[d]] = d
        BY <3>2 DEF RingOK
      <4>2. next'[d] \in Listed' /\ prev'[next'[d]] = d
        <5>1. CASE d = last
          BY <1>1, <2>4, <5>1
        <5>2. CASE d # last
          <6>1. next'[d] = next[d]
            BY <2>4, <3>2, <5>2
          <6>2. next[d] # h
            BY <4>1, <5>2
          <6> QED
            BY <1>1, <2>4, <4>1, <6>1, <6>2
        <5> QED
          BY <5>1, <5>2
      <4>3. prev'[d] \in Listed' /\ next'[prev'[d]] = d
        <5>1. CASE d = h
          BY <1>1, <2>4, <5>1
        <5>2. CASE d # h
          <6>1. prev'[d] = prev[d]
            BY <2>4, <3>2, <5>2
          <6>2. prev[d] # last
            BY <2>1, <4>1, <5>2
          <6> QED
            BY <1>1, <2>4, <4>1, <6>1, <6>2
        <5> QED
          BY <5>1, <5>2
      <4> QED
        BY <4>2, <4>3
    <3> QED
      BY <1>1, <3>1, <3>2
  <2>6. Listed' # {} /\ all_connections' \in Listed'
    BY <1>1, <2>1, <2>2
  <2>7. ASSUME NEW S \in SUBSET Listed', S # {}, \A d \in S : next'[d] \in S
        PROVE  S = Listed'
    <3>1. CASE c \in S
      <4> DEFINE T == S \ {c}
      <4>1. T \in SUBSET Listed /\ h \in T
        BY <1>1, <2>1, <2>4, <2>7, <3>1
      <4>2. ASSUME NEW d \in T PROVE next[d] \in T
        <5>1. CASE d = last
          BY <2>1, <4>1, <5>1
        <5>2. CASE d # last
          <6>1. next'[d] = next[d] /\ next[d] \in Listed
            BY <2>4, <4>1, <5>2 DEF RingOK
          <6> QED
            BY <1>1, <2>7, <6>1
        <5> QED
          BY <5>1, <5>2
      <4>3. T = Listed
        BY <4>1, <4>2 DEF RingOK, OneCircle
      <4> QED
        BY <1>1, <3>1, <4>3
    <3>2. CASE c \notin S
      <4>1. last \notin S /\ S \in SUBSET Listed
        BY <1>1, <2>4, <2>7, <3>2
      <4>2. ASSUME NEW d \in S PROVE next[d] \in S
        BY <2>4, <2>7, <4>1
      <4>3. S = Listed
        BY <2>7, <4>1, <4>2 DEF RingOK, OneCircle
      <4> QED
        BY <2>1, <4>1, <4>3
    <3> QED
      BY <3>1, <3>2
  <2>8. OneCircle'
    BY <2>7 DEF OneCircle
  <2>9. RingOK'
    BY <2>5, <2>6, <2>8 DEF RingOK
  <2> QED
    BY <1>1, <2>2, <2>3, <2>9 DEF TypeOK
<1> QED
  BY <1>2, <1>3

\* free_connection keeps the list sound.
LEMMA FreeSound ==
  ASSUME TypeOK, RingOK, NEW c \in Listed, free_connection(c)
  PROVE  /\ RingOK'
         /\ all_connections' \in Pointers
         /\ next' \in [Cells -> Pointers]
         /\ prev' \in [Cells -> Pointers]
         /\ kind' \in [Cells -> {"free", "http", "gpip"}]
<1> DEFINE n == next[c]
           p == prev[c]
<1>1. /\ c \in Cells
      /\ Listed' = Listed \ {c}
      /\ kind' \in [Cells -> {"free", "http", "gpip"}]
  BY DEF TypeOK, free_connection, Listed
<1>2. n \in Listed /\ p \in Listed /\ prev[n] = c /\ next[p] = c
  BY DEF RingOK
<1>3. /\ next' = [next EXCEPT ![p] = n]
      /\ prev' = [prev EXCEPT ![n] = p]
      /\ all_connections' = IF n = c THEN NULL ELSE n
  BY DEF free_connection
<1>4. /\ next' \in [Cells -> Pointers]
      /\ prev' \in [Cells -> Pointers]
      /\ all_connections' \in Pointers
  BY <1>2, <1>3 DEF TypeOK, Pointers, Listed
<1>5. /\ next'[p] = n /\ prev'[n] = p
      /\ \A d \in Listed : d # p => next'[d] = next[d]
      /\ \A d \in Listed : d # n => prev'[d] = prev[d]
  BY <1>2, <1>3 DEF TypeOK, Listed
<1>6. ASSUME NEW d \in Listed, d # c
      PROVE  /\ next'[d] \in Listed' /\ prev'[next'[d]] = d
             /\ prev'[d] \in Listed' /\ next'[prev'[d]] = d
  <2>1. /\ next[d] \in Listed /\ prev[next[d]] = d
        /\ prev[d] \in Listed /\ next[prev[d]] = d
    BY DEF RingOK
  <2>2. next'[d] \in Listed' /\ prev'[next'[d]] = d
    <3>1. CASE d = p
      <4>1. n # c
        BY <1>2, <1>6, <3>1
      <4> QED
        BY <1>1, <1>2, <1>5, <3>1, <4>1
    <3>2. CASE d # p
      <4>1. next[d] # c /\ next[d] # n
        BY <1>2, <1>6, <2>1, <3>2
      <4> QED
        BY <1>1, <1>5, <2>1, <3>2, <4>1
    <3> QED
      BY <3>1, <3>2
  <2>3. prev'[d] \in Listed' /\ next'[prev'[d]] = d
    <3>1. CASE d = n
      <4>1. p # c
        BY <1>2, <1>6, <3>1
      <4> QED
        BY <1>1, <1>2, <1>5, <3>1, <4>1
    <3>2. CASE d # n
      <4>1. prev[d] # c /\ prev[d] # p
        BY <1>2, <1>6, <2>1, <3>2
      <4> QED
        BY <1>1, <1>5, <2>1, <3>2, <4>1
    <3> QED
      BY <3>1, <3>2
  <2> QED
    BY <2>2, <2>3
<1>7. IF Listed' = {} THEN all_connections' = NULL ELSE all_connections' \in Listed'
  <2>1. CASE n = c
    <3>1. all_connections' = NULL
      BY <1>3, <2>1
    <3>2. Listed = {c}
      <4>1. {c} \in SUBSET Listed /\ {c} # {} /\ \A d \in {c} : next[d] \in {c}
        BY <2>1
      <4> QED
        BY <4>1 DEF RingOK, OneCircle
    <3> QED
      BY <1>1, <3>1, <3>2
  <2>2. CASE n # c
    BY <1>1, <1>2, <1>3, <2>2
  <2> QED
    BY <2>1, <2>2
<1>8. ASSUME NEW S \in SUBSET Listed', S # {}, \A d \in S : next'[d] \in S
      PROVE  S = Listed'
  <2>1. S \in SUBSET Listed /\ c \notin S
    BY <1>1, <1>8
  <2>2. CASE p \in S
    <3> DEFINE T == S \cup {c}
    <3>1. T \in SUBSET Listed /\ T # {}
      BY <2>1
    <3>2. ASSUME NEW d \in T PROVE next[d] \in T
      <4>1. CASE d = c
        BY <1>5, <1>8, <2>2, <4>1
      <4>2. CASE d = p
        BY <1>2, <4>2
      <4>3. CASE d # c /\ d # p
        BY <1>5, <1>8, <2>1, <4>3
      <4> QED
        BY <4>1, <4>2, <4>3
    <3>3. T = Listed
      BY <3>1, <3>2 DEF RingOK, OneCircle
    <3> QED
      BY <1>1, <2>1, <3>3
  <2>3. CASE p \notin S
    <3>1. ASSUME NEW d \in S PROVE next[d] \in S
      BY <1>5, <1>8, <2>1, <2>3
    <3>2. S = Listed
      BY <1>8, <2>1, <3>1 DEF RingOK, OneCircle
    <3> QED
      BY <2>1, <3>2
  <2> QED
    BY <2>2, <2>3
<1>9. RingOK'
  BY <1>1, <1>6, <1>7, <1>8 DEF RingOK, OneCircle
<1> QED
  BY <1>1, <1>4, <1>9

----------------------------------------------------------------------------
\* Each step keeps the inductive invariant, if no handler adds a connection
\* while smews_receive works on a copy.
LEMMA StepKeepsInv ==
  ASSUME "receive" \notin Callers, Inv, [Next]_vars
  PROVE  Inv'
<1> USE DEF Inv
<1>1. ASSUME NEW c \in Cells, ReceiveNew(c) PROVE Inv'
  <2>1. add_connection(c, "http") /\ kind[c] = "free"
    BY <1>1 DEF ReceiveNew
  <2>2. /\ RingOK'
        /\ all_connections' \in Pointers
        /\ next' \in [Cells -> Pointers]
        /\ prev' \in [Cells -> Pointers]
        /\ kind' \in [Cells -> {"free", "http", "gpip"}]
    BY <2>1, AddSound
  <2> QED
    BY <1>1, <2>2 DEF ReceiveNew, TypeOK, ContextOK
<1>2. ASSUME NEW c \in Cells, ReceiveKnown(c) PROVE Inv'
  <2>1. RingOK'
    BY <1>2 DEF ReceiveKnown, RingOK, OneCircle, Listed
  <2>2. TypeOK'
    BY <1>2 DEF ReceiveKnown, TypeOK, Contexts, Pointers
  <2>3. ContextOK'
    BY <1>2 DEF ReceiveKnown, ContextOK, Listed
  <2> QED
    BY <2>1, <2>2, <2>3
<1>3. ASSUME NEW c \in Cells, ReceivePacket(c) PROVE Inv'
  <2>1. add_connection(c, "gpip") /\ kind[c] = "free"
    BY <1>3 DEF ReceivePacket
  <2>2. /\ RingOK'
        /\ all_connections' \in Pointers
        /\ next' \in [Cells -> Pointers]
        /\ prev' \in [Cells -> Pointers]
        /\ kind' \in [Cells -> {"free", "http", "gpip"}]
        /\ Listed' = Listed \cup {c}
    BY <2>1, AddSound
  <2> QED
    BY <1>3, <2>2 DEF ReceivePacket, TypeOK, ContextOK, Contexts, Pointers
<1>4. ASSUME NEW c \in Cells, SendStart(c) PROVE Inv'
  <2>1. c \in Listed /\ next[c] \in Listed
    BY <1>4 DEF SendStart, RingOK, Listed
  <2>2. Listed' = Listed
    BY <1>4 DEF SendStart, Listed
  <2>3. RingOK'
    BY <1>4, <2>1, <2>2 DEF SendStart, RingOK, OneCircle
  <2>4. TypeOK'
    BY <1>4 DEF SendStart, TypeOK, Contexts, Pointers
  <2>5. ContextOK'
    BY <1>4, <2>1, <2>2 DEF SendStart, ContextOK
  <2> QED
    BY <2>3, <2>4, <2>5
<1>5. ASSUME NEW c \in Cells, request_packet_out_call(c) PROVE Inv'
  <2>1. add_connection(c, "gpip") /\ kind[c] = "free" /\ context # "receive"
    BY <1>5 DEF request_packet_out_call
  <2>2. /\ RingOK'
        /\ all_connections' \in Pointers
        /\ next' \in [Cells -> Pointers]
        /\ prev' \in [Cells -> Pointers]
        /\ kind' \in [Cells -> {"free", "http", "gpip"}]
        /\ Listed' = Listed \cup {c}
    BY <2>1, AddSound
  <2>3. UNCHANGED <<context, connection, tmp_connection, destination>>
    BY <1>5 DEF request_packet_out_call
  <2> QED
    BY <2>1, <2>2, <2>3 DEF TypeOK, ContextOK
<1>6. ASSUME ReceiveUpdate PROVE Inv'
  <2>1. tmp_connection.next = next[connection] /\ tmp_connection.prev = prev[connection]
    BY <1>6 DEF ReceiveUpdate, ContextOK
  <2>2. next' = next /\ prev' = prev
    BY <1>6, <2>1 DEF ReceiveUpdate, TypeOK
  <2>3. Listed' = Listed
    BY <1>6 DEF ReceiveUpdate, Listed
  <2>4. RingOK'
    BY <1>6, <2>2, <2>3 DEF ReceiveUpdate, RingOK, OneCircle
  <2> QED
    BY <1>6, <2>2, <2>4 DEF ReceiveUpdate, TypeOK, ContextOK, Contexts
<1>7. ASSUME ReceiveDrop \/ PacketInKeep \/ SendReset \/ ResetDone PROVE Inv'
  <2>1. /\ UNCHANGED <<all_connections, next, prev, kind, connection, tmp_connection, destination>>
        /\ context' \in {"main", "reset"}
    BY <1>7 DEF ReceiveDrop, PacketInKeep, SendReset, ResetDone
  <2>2. RingOK'
    BY <2>1 DEF RingOK, OneCircle, Listed
  <2> QED
    BY <2>1, <2>2 DEF TypeOK, ContextOK, Contexts
<1>8. ASSUME /\ context \in {"receive", "packet_in", "send"}
             /\ free_connection(connection)
             /\ context' = "main"
             /\ destination' \in Pointers
             /\ UNCHANGED <<connection, tmp_connection>>
      PROVE Inv'
  <2>1. connection \in Listed
    BY <1>8 DEF ContextOK
  <2>2. /\ RingOK'
        /\ all_connections' \in Pointers
        /\ next' \in [Cells -> Pointers]
        /\ prev' \in [Cells -> Pointers]
        /\ kind' \in [Cells -> {"free", "http", "gpip"}]
    BY <1>8, <2>1, FreeSound
  <2> QED
    BY <1>8, <2>2 DEF TypeOK, ContextOK, Contexts
<1>9. ASSUME ReceiveFree \/ PacketInFree PROVE Inv'
  BY <1>8, <1>9 DEF ReceiveFree, PacketInFree, TypeOK
<1>10. ASSUME SendDone PROVE Inv'
  <2>1. CASE kind[connection] = "gpip"
    BY <1>8, <1>10, <2>1 DEF SendDone, Pointers
  <2>2. CASE kind[connection] # "gpip"
    <3>1. /\ UNCHANGED <<all_connections, next, prev, kind, connection, tmp_connection>>
          /\ context' = "main" /\ destination' = NULL
      BY <1>10, <2>2 DEF SendDone
    <3>2. RingOK'
      BY <3>1 DEF RingOK, OneCircle, Listed
    <3> QED
      BY <3>1, <3>2 DEF TypeOK, ContextOK, Contexts, Pointers
  <2> QED
    BY <2>1, <2>2
<1>11. ASSUME SendPacket \/ \E d \in Cells : SendComet(d) PROVE Inv'
  <2>1. /\ UNCHANGED <<all_connections, next, prev, kind, context, connection, tmp_connection>>
        /\ destination' \in Pointers
    BY <1>11 DEF SendPacket, SendComet, TypeOK, Pointers
  <2>2. RingOK'
    BY <2>1 DEF RingOK, OneCircle, Listed
  <2> QED
    BY <2>1, <2>2 DEF TypeOK, ContextOK, Listed
<1>12. ASSUME UNCHANGED vars PROVE Inv'
  BY <1>12 DEF vars, TypeOK, RingOK, OneCircle, Listed, ContextOK
<1> QED
  BY <1>1, <1>2, <1>3, <1>4, <1>5, <1>6, <1>7, <1>9, <1>10, <1>11, <1>12 DEF Next

\* The initial state satisfies it.
LEMMA InitInv == Init => Inv
<1> SUFFICES ASSUME Init PROVE Inv
  OBVIOUS
<1>1. Listed = {}
  BY DEF Init, Listed
<1>2. RingOK
  BY <1>1 DEF Init, RingOK, OneCircle
<1> QED
  BY <1>2 DEF Init, Inv, TypeOK, ContextOK, Contexts, Pointers

\* In every behaviour, whatever connections come, send and go, the pointers
\* are in their ranges, the list is one circle of the connections that exist
\* and the connection that smews_receive or smews_send works for is in it, as
\* long as no doPostIn handler adds a connection.
THEOREM ConnectionsInvariant ==
  ASSUME "receive" \notin Callers
  PROVE  Spec => []Inv
<1>1. Inv /\ [Next]_vars => Inv'
  BY StepKeepsInv
<1> QED
  BY InitInv, <1>1, PTL DEF Spec

\* The list alone: one circle of the connections that exist, in both
\* directions.
THEOREM ConnectionsRing ==
  ASSUME "receive" \notin Callers
  PROVE  Spec => []RingOK
<1>1. Inv => RingOK
  BY DEF Inv
<1> QED
  BY ConnectionsInvariant, <1>1, PTL

----------------------------------------------------------------------------
\* The loop over the connections.

\* A set of naturals that is not empty has a least element.
Less == {ss \in Nat \X Nat : ss[1] < ss[2]}

LEMMA Least ==
  ASSUME NEW T, T \subseteq Nat, T # {}
  PROVE  \E m \in T : \A n \in T : m <= n
<1>1. IsWellFoundedOn(Less, Nat)
  BY NatLessThanWellFounded DEF OpToRel, Less
<1>2. PICK m \in T : \A n \in T : ~ (<<n, m>> \in Less)
  BY <1>1, WFMin
<1>3. ASSUME NEW n \in T PROVE m <= n
  <2>1. n \in Nat /\ m \in Nat /\ <<n, m>> \notin Less
    BY <1>2
  <2> QED
    BY <2>1 DEF Less
<1> QED
  BY <1>3

\* The first n cells that a loop visits, from the head h along the pointers nx.
Visits(h, nx, n, f) == f = [i \in 1 .. n |-> IF i = 1 THEN h ELSE nx[f[i - 1]]]

LEMMA VisitsExist ==
  ASSUME NEW h, NEW nx, NEW n \in Nat
  PROVE  \E f : Visits(h, nx, n, f)
<1> DEFINE T == {m \in Nat : ~ \E f : Visits(h, nx, m, f)}
<1> SUFFICES ASSUME T # {} PROVE FALSE
  OBVIOUS
<1>1. PICK m \in T : \A k \in T : m <= k
  BY Least
<1>2. m \in Nat /\ ~ \E f : Visits(h, nx, m, f)
  OBVIOUS
<1>3. m # 0
  <2>1. PICK f : f = [i \in 1 .. 0 |-> h]
    OBVIOUS
  <2>2. Visits(h, nx, 0, f)
    BY <2>1 DEF Visits
  <2> QED
    BY <1>2, <2>2
<1>4. m - 1 \in Nat /\ m - 1 \notin T
  BY <1>1, <1>2, <1>3
<1>5. PICK f : Visits(h, nx, m - 1, f)
  BY <1>4
<1>6. PICK l : l = IF m = 1 THEN h ELSE nx[f[m - 1]]
  OBVIOUS
<1>7. PICK g : g = [i \in 1 .. m |-> IF i = m THEN l ELSE f[i]]
  OBVIOUS
<1> HIDE DEF T
<1>8. ASSUME NEW i \in 1 .. m PROVE g[i] = IF i = 1 THEN h ELSE nx[g[i - 1]]
  <2>1. CASE i = m
    BY <1>2, <1>3, <1>6, <1>7, <2>1
  <2>2. CASE i # m
    <3>1. i \in 1 .. m - 1
      BY <1>2, <2>2
    <3>2. f[i] = IF i = 1 THEN h ELSE nx[f[i - 1]]
      BY <1>5, <3>1 DEF Visits
    <3>3. i # 1 => i - 1 \in 1 .. m - 1
      BY <1>2, <3>1
    <3>4. g[i] = f[i] /\ (i # 1 => g[i - 1] = f[i - 1])
      BY <1>2, <1>7, <3>1, <3>3
    <3> QED
      BY <3>2, <3>4
  <2> QED
    BY <2>1, <2>2
<1>9. Visits(h, nx, m, g)
  BY <1>7, <1>8 DEF Visits
<1> QED
  BY <1>2, <1>9

\* What FOR_EACH_CONN computes.
Loop(h, nx, n) ==
  LET visited[i \in 1 .. n] == IF i = 1 THEN h ELSE nx[visited[i - 1]]
  IN [i \in 1 .. n |-> visited[i]]

LEMMA LoopVisits ==
  ASSUME NEW h, NEW nx, NEW n \in Nat
  PROVE  Visits(h, nx, n, Loop(h, nx, n))
<1> DEFINE V == CHOOSE f : Visits(h, nx, n, f)
<1>1. Visits(h, nx, n, V)
  BY VisitsExist
<1>2. Loop(h, nx, n) = [i \in 1 .. n |-> V[i]]
  BY DEF Loop, Visits
<1>3. Loop(h, nx, n) = V
  BY <1>1, <1>2 DEF Visits
<1> QED
  BY <1>1, <1>3

\* There is one way to visit them.
LEMMA VisitsUnique ==
  ASSUME NEW h, NEW nx, NEW n \in Nat, NEW f, Visits(h, nx, n, f), NEW g, Visits(h, nx, n, g)
  PROVE  f = g
<1> DEFINE T == {i \in 1 .. n : f[i] # g[i]}
<1>1. ASSUME T # {} PROVE FALSE
  <2>1. T \subseteq Nat
    OBVIOUS
  <2>2. PICK m \in T : \A k \in T : m <= k
    BY <1>1, <2>1, Least
  <2>3. m \in 1 .. n /\ f[m] # g[m]
    OBVIOUS
  <2>4. m # 1
    BY <2>3 DEF Visits
  <2>5. m - 1 \in 1 .. n /\ m - 1 \notin T
    BY <2>2, <2>3, <2>4
  <2>6. f[m - 1] = g[m - 1]
    BY <2>5
  <2> HIDE DEF T
  <2>7. f[m] = nx[f[m - 1]] /\ g[m] = nx[g[m - 1]]
    BY <2>3, <2>4 DEF Visits
  <2> QED
    BY <2>3, <2>6, <2>7
<1>2. \A i \in 1 .. n : f[i] = g[i]
  BY <1>1
<1> HIDE DEF T
<1> QED
  BY <1>2 DEF Visits

\* The pointers nx and pv make one circle of the cells of L, with head h.
Circle(h, nx, pv, L) ==
  /\ L \subseteq Cells /\ IsFiniteSet(L)
  /\ \A S \in SUBSET L : (S # {} /\ \A c \in S : nx[c] \in S) => S = L
  /\ L # {} => h \in L
  /\ \A c \in L : /\ nx[c] \in L /\ pv[nx[c]] = c
                 /\ pv[c] \in L /\ nx[pv[c]] = c

\* s is the cells of L in the order of nx from h on.
Walk(h, nx, L, s) ==
  /\ s \in Seq(L) /\ Len(s) = Cardinality(L)
  /\ L # {} => s[1] = h
  /\ \A i \in 1 .. Len(s) - 1 : s[i + 1] = nx[s[i]]

LEMMA VisitsWalk ==
  ASSUME NEW h, NEW nx, NEW pv, NEW L, Circle(h, nx, pv, L),
         NEW f, Visits(h, nx, Cardinality(L), f)
  PROVE  Walk(h, nx, L, f)
<1> DEFINE n == Cardinality(L)
           T == {i \in 1 .. n : f[i] \notin L}
<1>1. n \in Nat /\ (n = 0 <=> L = {})
  BY FS_CardinalityType, FS_EmptySet DEF Circle
<1>2. \A c \in L : nx[c] \in L
  BY DEF Circle
<1>3. \A i \in 1 .. n : f[i] = IF i = 1 THEN h ELSE nx[f[i - 1]]
  BY DEF Visits
<1> HIDE DEF n
<1>4. ASSUME T # {} PROVE FALSE
  <2>1. T \subseteq Nat
    OBVIOUS
  <2>2. PICK m \in T : \A k \in T : m <= k
    BY <1>4, <2>1, Least
  <2>3. m \in 1 .. n /\ f[m] \notin L
    OBVIOUS
  <2>4. m # 1
    BY <1>1, <1>3, <2>3 DEF Circle
  <2>5. m - 1 \in 1 .. n /\ m - 1 \notin T
    BY <1>1, <2>2, <2>3, <2>4
  <2>6. f[m - 1] \in L
    BY <2>5
  <2> HIDE DEF T
  <2> QED
    BY <1>2, <1>3, <2>3, <2>4, <2>6
<1>5. \A i \in 1 .. n : f[i] \in L
  BY <1>4
<1>6. f \in [1 .. n -> L]
  BY <1>5 DEF Visits, n
<1> HIDE DEF T
<1>7. f \in Seq(L) /\ Len(f) = n
  <2>1. f \in Seq(L)
    BY <1>1, <1>6, SeqDef
  <2>2. DOMAIN f = 1 .. n /\ DOMAIN f = 1 .. Len(f) /\ Len(f) \in Nat
    BY <1>6, <2>1, LenProperties
  <2> QED
    BY <1>1, <2>1, <2>2
<1>8. ASSUME NEW i \in 1 .. n - 1 PROVE f[i + 1] = nx[f[i]]
  <2>1. i + 1 \in 1 .. n /\ i + 1 # 1 /\ (i + 1) - 1 = i
    BY <1>1
  <2> QED
    BY <1>3, <2>1
<1>9. L # {} => f[1] = h
  <2>1. L # {} => 1 \in 1 .. n
    BY <1>1
  <2> QED
    BY <1>3, <2>1
<1> QED
  BY <1>7, <1>8, <1>9 DEF Walk, n

LEMMA WalkVisits ==
  ASSUME NEW h, NEW nx, NEW L, IsFiniteSet(L), NEW s, Walk(h, nx, L, s)
  PROVE  Visits(h, nx, Cardinality(L), s)
<1> DEFINE n == Cardinality(L)
<1>1. n \in Nat /\ (n = 0 <=> L = {})
  BY FS_CardinalityType, FS_EmptySet
<1>2. s \in [1 .. n -> L]
  BY LenProperties DEF Walk, n
<1> HIDE DEF n
<1>3. ASSUME NEW i \in 1 .. n PROVE s[i] = IF i = 1 THEN h ELSE nx[s[i - 1]]
  <2>1. CASE i = 1
    BY <1>1, <2>1 DEF Walk
  <2>2. CASE i # 1
    <3>1. i - 1 \in 1 .. n - 1 /\ (i - 1) + 1 = i
      BY <1>1, <2>2
    <3> QED
      BY <2>2, <3>1 DEF Walk, n
  <2> QED
    BY <2>1, <2>2
<1> QED
  BY <1>2, <1>3 DEF Visits, n

\* A walk visits every cell, each of them once, and comes back to the head.
LEMMA WalkOnce ==
  ASSUME NEW h, NEW nx, NEW pv, NEW L, Circle(h, nx, pv, L), NEW s, Walk(h, nx, L, s)
  PROVE  /\ Len(s) \in Nat
         /\ \A i \in 1 .. Len(s) : s[i] \in L
         /\ \A i, j \in 1 .. Len(s) : s[i] = s[j] => i = j
         /\ \A c \in L : \E i \in 1 .. Len(s) : s[i] = c
         /\ L # {} => Len(s) > 0 /\ nx[s[Len(s)]] = s[1]
<1> DEFINE n == Len(s)
<1>1. n \in Nat /\ n = Cardinality(L) /\ (n = 0 <=> L = {}) /\ IsFiniteSet(L)
  BY FS_CardinalityType, FS_EmptySet DEF Circle, Walk
<1>2. \A i \in 1 .. n : s[i] \in L
  BY ElementOfSeq DEF Walk
<1>3. \A i \in 1 .. n - 1 : s[i + 1] = nx[s[i]]
  BY DEF Walk
<1>4. s \in [1 .. n -> L]
  BY LenProperties DEF Walk
<1> HIDE DEF n
<1>5. ASSUME NEW i \in 1 .. n, NEW j \in 1 .. n, i < j, s[i] = s[j] PROVE FALSE
  <2> DEFINE S == {s[k] : k \in i .. j - 1}
             f == [k \in i .. j - 1 |-> s[k]]
  <2>1. S \subseteq L /\ S # {}
    <3>1. i \in i .. j - 1 /\ \A k \in i .. j - 1 : k \in 1 .. n
      BY <1>1, <1>5
    <3> QED
      BY <1>2, <3>1
  <2>2. ASSUME NEW k \in i .. j - 1 PROVE nx[s[k]] \in S
    <3>1. k \in 1 .. n - 1
      BY <1>1, <1>5
    <3>2. nx[s[k]] = s[k + 1]
      BY <1>3, <3>1
    <3>3. CASE k + 1 = j
      <4>1. s[k + 1] = s[i] /\ i \in i .. j - 1
        BY <1>1, <1>5, <3>3
      <4> QED
        BY <3>2, <4>1
    <3>4. CASE k + 1 # j
      <4>1. k + 1 \in i .. j - 1
        BY <1>1, <1>5, <3>4
      <4> QED
        BY <3>2, <4>1
    <3> QED
      BY <3>3, <3>4
  <2>3. S = L
    <3>1. \A c \in S : nx[c] \in S
      BY <2>2
    <3> HIDE DEF S, f
    <3>2. S \in SUBSET L
      BY <2>1
    <3> QED
      BY <2>1, <3>1, <3>2 DEF Circle
  <2>4. f \in Surjection(i .. j - 1, L)
    <3>1. f \in [i .. j - 1 -> L]
      BY <2>1
    <3>2. \A c \in L : \E k \in i .. j - 1 : f[k] = c
      BY <2>3
    <3> QED
      BY <3>1, <3>2 DEF Surjection
  <2>5. IsFiniteSet(i .. j - 1) /\ Cardinality(i .. j - 1) = j - i
    <3>1. i \in Int /\ j - 1 \in Int /\ ~ (i > j - 1) /\ (j - 1) - i + 1 = j - i
      BY <1>1, <1>5
    <3> QED
      BY <3>1, FS_Interval
  <2> HIDE DEF f, S
  <2>6. n <= j - i
    BY <1>1, <2>4, <2>5, FS_Surjection
  <2> QED
    BY <1>1, <1>5, <2>6
<1>6. \A i, j \in 1 .. n : s[i] = s[j] => i = j
  BY <1>1, <1>5
<1>7. \A c \in L : \E i \in 1 .. n : s[i] = c
  <2>1. s \in Injection(1 .. n, L)
    BY <1>4, <1>6 DEF Injection, IsInjective
  <2>2. Cardinality(1 .. n) = n
    BY <1>1, FS_Interval
  <2>3. s \in Surjection(1 .. n, L)
    BY <1>1, <2>1, <2>2, FS_Injection
  <2> QED
    BY <2>3 DEF Surjection
<1>8. ASSUME L # {} PROVE n > 0 /\ nx[s[n]] = s[1]
  <2>1. n > 0 /\ n \in 1 .. n /\ 1 \in 1 .. n
    BY <1>1, <1>8
  <2>2. nx[s[n]] \in L /\ pv[nx[s[n]]] = s[n]
    BY <1>2, <2>1 DEF Circle
  <2>3. PICK k \in 1 .. n : s[k] = nx[s[n]]
    BY <1>7, <2>2
  <2>4. ASSUME k # 1 PROVE FALSE
    <3>1. k - 1 \in 1 .. n - 1 /\ k - 1 \in 1 .. n /\ (k - 1) + 1 = k
      BY <1>1, <2>4
    <3>2. s[k] = nx[s[k - 1]]
      BY <1>3, <3>1
    <3>3. pv[nx[s[k - 1]]] = s[k - 1]
      BY <1>2, <3>1 DEF Circle
    <3>4. s[k - 1] = s[n]
      BY <2>2, <2>3, <3>2, <3>3
    <3>5. k - 1 = n
      BY <1>6, <2>1, <3>1, <3>4
    <3> QED
      BY <1>1, <3>5
  <2> QED
    BY <2>1, <2>3, <2>4
<1> QED
  BY <1>1, <1>2, <1>6, <1>7, <1>8 DEF n

\* The cells of s after and before its i-th, which is put last or left out.
Turned(s, i) == SubSeq(s, i + 1, Len(s)) \o Append(SubSeq(s, 1, i - 1), s[i])
Freed(s, i) == SubSeq(s, i + 1, Len(s)) \o SubSeq(s, 1, i - 1)

\* The first n cells of t are those of s after its i-th, then those before.
FollowTurn(s, i, n, t) ==
  \A k \in 1 .. n : t[k] = IF k <= Len(s) - i THEN s[i + k] ELSE s[k - (Len(s) - i)]

LEMMA TurnedCells ==
  ASSUME NEW L, NEW s \in Seq(L), NEW i \in 1 .. Len(s)
  PROVE  /\ Turned(s, i) \in Seq(L)
         /\ Len(Turned(s, i)) = Len(s)
         /\ FollowTurn(s, i, Len(s), Turned(s, i))
<1> DEFINE n == Len(s)
           t == Turned(s, i)
           a == SubSeq(s, i + 1, n)
           b == SubSeq(s, 1, i - 1)
           e == Append(b, s[i])
<1>1. n \in Nat /\ i \in Int /\ 1 <= i /\ i <= n
  BY LenProperties
<1>2. \A k \in 1 .. n : s[k] \in L
  BY ElementOfSeq
<1>3. /\ a \in Seq(L) /\ Len(a) = n - i
      /\ \A k \in 1 .. n - i : a[k] = s[i + k]
  <2>1. i + 1 \in Int /\ n \in Int /\ \A k \in i + 1 .. n : s[k] \in L
    BY <1>1, <1>2
  <2> HIDE DEF n
  <2>2. /\ a \in Seq(L)
        /\ Len(a) = IF i + 1 <= n THEN n - (i + 1) + 1 ELSE 0
        /\ \A k \in 1 .. n - (i + 1) + 1 : a[k] = s[i + 1 + k - 1]
    BY <2>1, SubSeqProperties
  <2>3. n - (i + 1) + 1 = n - i /\ \A k \in 1 .. n - i : i + 1 + k - 1 = i + k
    BY <1>1
  <2> HIDE DEF a
  <2> QED
    BY <1>1, <2>2, <2>3
<1>4. /\ b \in Seq(L) /\ Len(b) = i - 1
      /\ \A k \in 1 .. i - 1 : b[k] = s[k]
  <2>1. 1 \in Int /\ i - 1 \in Int /\ \A k \in 1 .. i - 1 : s[k] \in L
    BY <1>1, <1>2
  <2>2. /\ b \in Seq(L)
        /\ Len(b) = IF 1 <= i - 1 THEN (i - 1) - 1 + 1 ELSE 0
        /\ \A k \in 1 .. (i - 1) - 1 + 1 : b[k] = s[1 + k - 1]
    BY <2>1, SubSeqProperties
  <2>3. (i - 1) - 1 + 1 = i - 1 /\ \A k \in 1 .. i - 1 : 1 + k - 1 = k
    BY <1>1
  <2> HIDE DEF b
  <2> QED
    BY <1>1, <2>2, <2>3
<1> HIDE DEF a, b
<1>5. /\ e \in Seq(L) /\ Len(e) = i
      /\ \A k \in 1 .. i : e[k] = s[k]
  <2>1. s[i] \in L
    BY <1>2
  <2>2. /\ e \in Seq(L) /\ Len(e) = Len(b) + 1
        /\ \A k \in 1 .. Len(b) : e[k] = b[k]
        /\ e[Len(b) + 1] = s[i]
    BY <1>4, <2>1, AppendProperties
  <2> HIDE DEF e
  <2> QED
    BY <1>1, <1>4, <2>2
<1> HIDE DEF e
<1>6. /\ t \in Seq(L) /\ Len(t) = Len(a) + Len(e)
      /\ \A k \in 1 .. Len(a) + Len(e) : t[k] = IF k <= Len(a) THEN a[k] ELSE e[k - Len(a)]
  <2>1. t = a \o e
    BY DEF a, e, b, n, Turned
  <2>2. /\ a \o e \in Seq(L) /\ Len(a \o e) = Len(a) + Len(e)
        /\ \A k \in 1 .. Len(a) + Len(e) : (a \o e)[k] = IF k <= Len(a) THEN a[k] ELSE e[k - Len(a)]
    BY <1>3, <1>5, ConcatProperties
  <2> HIDE DEF t
  <2> QED
    BY <2>1, <2>2
<1>7. Len(a) + Len(e) = n
  BY <1>1, <1>3, <1>5
<1> HIDE DEF n, t
<1>8. ASSUME NEW k \in 1 .. n PROVE t[k] = IF k <= n - i THEN s[i + k] ELSE s[k - (n - i)]
  <2>1. CASE k <= n - i
    <3>1. k \in 1 .. n - i
      BY <1>1, <2>1
    <3> QED
      BY <1>3, <1>6, <1>7, <2>1, <3>1
  <2>2. CASE ~ (k <= n - i)
    <3>1. k - (n - i) \in 1 .. i
      BY <1>1, <2>2
    <3> QED
      BY <1>3, <1>5, <1>6, <1>7, <2>2, <3>1
  <2> QED
    BY <2>1, <2>2
<1> QED
  BY <1>6, <1>7, <1>8 DEF n, t, FollowTurn

LEMMA FreedCells ==
  ASSUME NEW L, NEW s \in Seq(L), NEW i \in 1 .. Len(s),
         \A k \in 1 .. Len(s) : s[k] = s[i] => k = i
  PROVE  /\ Freed(s, i) \in Seq(L \ {s[i]})
         /\ Len(Freed(s, i)) = Len(s) - 1
         /\ FollowTurn(s, i, Len(s) - 1, Freed(s, i))
<1> DEFINE n == Len(s)
           u == Freed(s, i)
           M == L \ {s[i]}
           a == SubSeq(s, i + 1, n)
           b == SubSeq(s, 1, i - 1)
<1>1. n \in Nat /\ i \in Int /\ 1 <= i /\ i <= n
  BY LenProperties
<1>2. \A k \in 1 .. n : k # i => s[k] \in M
  BY ElementOfSeq
<1> HIDE DEF M
<1>3. /\ a \in Seq(M) /\ Len(a) = n - i
      /\ \A k \in 1 .. n - i : a[k] = s[i + k]
  <2>1. i + 1 \in Int /\ n \in Int /\ \A k \in i + 1 .. n : s[k] \in M
    BY <1>1, <1>2
  <2> HIDE DEF n
  <2>2. /\ a \in Seq(M)
        /\ Len(a) = IF i + 1 <= n THEN n - (i + 1) + 1 ELSE 0
        /\ \A k \in 1 .. n - (i + 1) + 1 : a[k] = s[i + 1 + k - 1]
    BY <2>1, SubSeqProperties
  <2>3. n - (i + 1) + 1 = n - i /\ \A k \in 1 .. n - i : i + 1 + k - 1 = i + k
    BY <1>1
  <2> HIDE DEF a
  <2> QED
    BY <1>1, <2>2, <2>3
<1>4. /\ b \in Seq(M) /\ Len(b) = i - 1
      /\ \A k \in 1 .. i - 1 : b[k] = s[k]
  <2>1. 1 \in Int /\ i - 1 \in Int /\ \A k \in 1 .. i - 1 : s[k] \in M
    BY <1>1, <1>2
  <2>2. /\ b \in Seq(M)
        /\ Len(b) = IF 1 <= i - 1 THEN (i - 1) - 1 + 1 ELSE 0
        /\ \A k \in 1 .. (i - 1) - 1 + 1 : b[k] = s[1 + k - 1]
    BY <2>1, SubSeqProperties
  <2>3. (i - 1) - 1 + 1 = i - 1 /\ \A k \in 1 .. i - 1 : 1 + k - 1 = k
    BY <1>1
  <2> HIDE DEF b
  <2> QED
    BY <1>1, <2>2, <2>3
<1> HIDE DEF a, b
<1>5. /\ u \in Seq(M) /\ Len(u) = Len(a) + Len(b)
      /\ \A k \in 1 .. Len(a) + Len(b) : u[k] = IF k <= Len(a) THEN a[k] ELSE b[k - Len(a)]
  <2>1. u = a \o b
    BY DEF a, b, n, Freed
  <2>2. /\ a \o b \in Seq(M) /\ Len(a \o b) = Len(a) + Len(b)
        /\ \A k \in 1 .. Len(a) + Len(b) : (a \o b)[k] = IF k <= Len(a) THEN a[k] ELSE b[k - Len(a)]
    BY <1>3, <1>4, ConcatProperties
  <2> HIDE DEF u
  <2> QED
    BY <2>1, <2>2
<1>6. Len(a) + Len(b) = n - 1
  BY <1>1, <1>3, <1>4
<1> HIDE DEF n, u
<1>7. ASSUME NEW k \in 1 .. n - 1 PROVE u[k] = IF k <= n - i THEN s[i + k] ELSE s[k - (n - i)]
  <2>1. CASE k <= n - i
    <3>1. k \in 1 .. n - i
      BY <1>1, <2>1
    <3> QED
      BY <1>3, <1>5, <1>6, <2>1, <3>1
  <2>2. CASE ~ (k <= n - i)
    <3>1. k - (n - i) \in 1 .. i - 1
      BY <1>1, <2>2
    <3> QED
      BY <1>3, <1>4, <1>5, <1>6, <2>2, <3>1
  <2> QED
    BY <2>1, <2>2
<1> QED
  BY <1>5, <1>6, <1>7 DEF n, M, u, FollowTurn

\* From any cell on, next gives the cells in the order of the turns.
LEMMA TurnedNext ==
  ASSUME NEW h, NEW nx, NEW pv, NEW L, Circle(h, nx, pv, L), NEW s, Walk(h, nx, L, s),
         NEW i \in 1 .. Len(s), NEW t, FollowTurn(s, i, Len(s), t)
  PROVE  /\ t[1] = nx[s[i]]
         /\ \A k \in 1 .. Len(s) - 1 : t[k + 1] = nx[t[k]]
<1> DEFINE n == Len(s)
<1>1. n \in Nat /\ i \in 1 .. n /\ (\A k \in 1 .. n - 1 : s[k + 1] = nx[s[k]])
  BY WalkOnce DEF Walk
<1>2. nx[s[n]] = s[1]
  <2>1. s[i] \in L
    BY WalkOnce
  <2> QED
    BY <2>1, WalkOnce
<1> HIDE DEF n
<1>3. \A k \in 1 .. n : t[k] = IF k <= n - i THEN s[i + k] ELSE s[k - (n - i)]
  BY DEF n, FollowTurn
<1>4. t[1] = nx[s[i]]
  <2>1. CASE i = n
    <3>1. 1 \in 1 .. n /\ ~ (1 <= n - i) /\ 1 - (n - i) = 1
      BY <1>1, <2>1
    <3> QED
      BY <1>2, <1>3, <2>1, <3>1
  <2>2. CASE i # n
    <3>1. 1 \in 1 .. n /\ 1 <= n - i /\ i \in 1 .. n - 1
      BY <1>1, <2>2
    <3> QED
      BY <1>1, <1>3, <3>1
  <2> QED
    BY <2>1, <2>2
<1>5. ASSUME NEW k \in 1 .. n - 1 PROVE t[k + 1] = nx[t[k]]
  <2>1. k \in 1 .. n /\ k + 1 \in 1 .. n
    BY <1>1
  <2>2. CASE k + 1 <= n - i
    <3>1. k <= n - i /\ i + k \in 1 .. n - 1 /\ i + (k + 1) = (i + k) + 1
      BY <1>1, <2>2
    <3>2. t[k] = s[i + k] /\ t[k + 1] = s[(i + k) + 1]
      BY <1>3, <2>1, <2>2, <3>1
    <3> QED
      BY <1>1, <3>1, <3>2
  <2>3. CASE k = n - i
    <3>1. k <= n - i /\ i + k = n /\ ~ (k + 1 <= n - i) /\ (k + 1) - (n - i) = 1
      BY <1>1, <2>3
    <3>2. t[k] = s[n] /\ t[k + 1] = s[1]
      BY <1>3, <2>1, <3>1
    <3> QED
      BY <1>2, <3>2
  <2>4. CASE k > n - i
    <3>1. /\ ~ (k <= n - i) /\ ~ (k + 1 <= n - i)
          /\ k - (n - i) \in 1 .. n - 1 /\ (k + 1) - (n - i) = (k - (n - i)) + 1
      BY <1>1, <2>4
    <3>2. t[k] = s[k - (n - i)] /\ t[k + 1] = s[(k - (n - i)) + 1]
      BY <1>3, <2>1, <3>1
    <3> QED
      BY <1>1, <3>1, <3>2
  <2>5. k + 1 <= n - i \/ k = n - i \/ k > n - i
    BY <1>1
  <2> QED
    BY <2>2, <2>3, <2>4, <2>5
<1> QED
  BY <1>4, <1>5 DEF n

LEMMA TurnWalk ==
  ASSUME NEW h, NEW nx, NEW pv, NEW L, Circle(h, nx, pv, L), NEW s, Walk(h, nx, L, s),
         NEW i \in 1 .. Len(s)
  PROVE  Walk(nx[s[i]], nx, L, Turned(s, i))
<1> DEFINE t == Turned(s, i)
<1>1. s \in Seq(L) /\ Len(s) = Cardinality(L)
  BY DEF Walk
<1>2. t \in Seq(L) /\ Len(t) = Len(s) /\ FollowTurn(s, i, Len(s), t)
  BY <1>1, TurnedCells
<1> HIDE DEF t
<1>3. t[1] = nx[s[i]] /\ \A k \in 1 .. Len(s) - 1 : t[k + 1] = nx[t[k]]
  BY <1>2, TurnedNext
<1> QED
  BY <1>1, <1>2, <1>3 DEF Walk, t

\* Without a cell, whose neighbours are joined.
Unlinked(nx, pv, L, c, nx2) ==
  \A x \in L \ {c} : nx2[x] = IF x = pv[c] THEN nx[c] ELSE nx[x]

LEMMA FreeWalk ==
  ASSUME NEW h, NEW nx, NEW pv, NEW L, Circle(h, nx, pv, L), NEW s, Walk(h, nx, L, s),
         NEW i \in 1 .. Len(s), NEW c, c = s[i], NEW nx2, Unlinked(nx, pv, L, c, nx2)
  PROVE  Walk(nx[c], nx2, L \ {c}, Freed(s, i))
<1>0. \A x \in L \ {c} : nx2[x] = IF x = pv[c] THEN nx[c] ELSE nx[x]
  BY DEF Unlinked
<1> DEFINE n == Len(s)
           u == Freed(s, i)
           t == Turned(s, i)
<1>1. s \in Seq(L) /\ n = Cardinality(L) /\ n \in Nat /\ c \in L /\ IsFiniteSet(L)
  BY WalkOnce DEF Walk, Circle
<1>2. \A k \in 1 .. n : s[k] = s[i] => k = i
  BY WalkOnce
<1>3. u \in Seq(L \ {c}) /\ Len(u) = n - 1 /\ FollowTurn(s, i, n - 1, u)
  BY <1>1, <1>2, FreedCells
<1>5. FollowTurn(s, i, n, t)
  BY <1>1, TurnedCells
<1> HIDE DEF u, t
<1>6. t[1] = nx[c] /\ \A k \in 1 .. n - 1 : t[k + 1] = nx[t[k]]
  BY <1>5, TurnedNext
<1>7. Len(u) = Cardinality(L \ {c})
  BY <1>1, <1>3, FS_RemoveElement
<1> HIDE DEF n
<1>8. \A k \in 1 .. n - 1 : u[k] = t[k]
  <2>1. \A k \in 1 .. n - 1 : k \in 1 .. n
    BY <1>1
  <2> QED
    BY <1>3, <1>5, <2>1 DEF FollowTurn
<1>9. \A k \in 1 .. n - 1 : u[k] \in L \ {c}
  <2> DEFINE M == L \ {c}
  <2>1. u \in Seq(M) /\ Len(u) = n - 1
    BY <1>3
  <2> HIDE DEF M
  <2>2. \A k \in 1 .. n - 1 : u[k] \in M
    BY <2>1, ElementOfSeq
  <2> QED
    BY <2>2 DEF M
<1>10. ASSUME L \ {c} # {} PROVE u[1] = nx[c]
  <2>1. n - 1 # 0
    BY <1>1, <1>3, <1>7, <1>10, FS_RemoveElement, FS_EmptySet
  <2>2. 1 \in 1 .. n - 1
    <3>1. n # 0 /\ n \in Nat
      BY <1>1, FS_EmptySet
    <3> QED
      BY <2>1, <3>1
  <2> QED
    BY <1>6, <1>8, <2>2
<1>11. ASSUME NEW k \in 1 .. (n - 1) - 1 PROVE u[k + 1] = nx2[u[k]]
  <2>1. k \in 1 .. n - 1 /\ k + 1 \in 1 .. n - 1
    BY <1>1
  <2>2. u[k + 1] = nx[u[k]]
    BY <1>6, <1>8, <2>1
  <2>3. u[k] # pv[c]
    <3>1. nx[pv[c]] = c
      BY <1>1 DEF Circle
    <3>2. u[k + 1] # c
      BY <1>9, <2>1
    <3> QED
      BY <2>2, <3>1, <3>2
  <2> QED
    BY <1>0, <1>9, <2>1, <2>2, <2>3
<1> QED
  BY <1>3, <1>7, <1>10, <1>11 DEF Walk, u

\* With a cell between the one before the head and the head.
LEMMA AddWalk ==
  ASSUME NEW h, NEW nx, NEW pv, NEW L, Circle(h, nx, pv, L), NEW s, Walk(h, nx, L, s),
         NEW c, c \notin L, NEW nx2,
         \A x \in L : nx2[x] = IF x = pv[h] THEN c ELSE nx[x],
         NEW h2, h2 = IF L = {} THEN c ELSE h
  PROVE  Walk(h2, nx2, L \cup {c}, Append(s, c))
<1> DEFINE n == Len(s)
<1>1. /\ s \in Seq(L) /\ n = Cardinality(L) /\ n \in Nat /\ IsFiniteSet(L)
      /\ (n = 0 <=> L = {})
  BY WalkOnce, FS_EmptySet DEF Walk, Circle
<1>2. PICK t : t = Append(s, c)
  OBVIOUS
<1>3. /\ t \in Seq(L \cup {c}) /\ Len(t) = n + 1
      /\ (\A k \in 1 .. n : t[k] = s[k]) /\ t[n + 1] = c
  <2>1. s \in Seq(L \cup {c}) /\ c \in L \cup {c}
    BY <1>1, SeqMonotonic
  <2> QED
    BY <1>2, <2>1, AppendProperties
<1>4. Len(t) = Cardinality(L \cup {c})
  <2>1. Cardinality(L \cup {c}) = Cardinality(L) + 1
    BY <1>1, FS_AddElement
  <2> QED
    BY <1>1, <1>3, <2>1
<1>5. \A k \in 1 .. n : s[k] \in L
  BY WalkOnce
<1>6. \A k \in 1 .. n : s[k] = s[1] => k = 1
  <2>1. \A k \in 1 .. n : 1 \in 1 .. n
    BY <1>1
  <2> QED
    BY <2>1, WalkOnce
<1>7. L # {} => s[1] = h /\ nx[s[n]] = h /\ h \in L
  <2>1. L # {} => nx[s[n]] = s[1]
    BY WalkOnce
  <2> QED
    BY <2>1 DEF Walk, Circle
<1>8. \A k \in 1 .. n - 1 : s[k + 1] = nx[s[k]]
  BY DEF Walk
<1> HIDE DEF n
<1>9. t[1] = h2
  <2>1. CASE L = {}
    BY <1>1, <1>3, <2>1
  <2>2. CASE L # {}
    <3>1. 1 \in 1 .. n
      BY <1>1, <2>2
    <3> QED
      BY <1>3, <1>7, <2>2, <3>1
  <2> QED
    BY <2>1, <2>2
<1>10. ASSUME NEW k \in 1 .. (n + 1) - 1 PROVE t[k + 1] = nx2[t[k]]
  <2>1. k \in 1 .. n /\ L # {} /\ s[k] \in L /\ t[k] = s[k]
    <3>1. k \in 1 .. n
      BY <1>1
    <3> QED
      BY <1>3, <1>5, <3>1
  <2>2. CASE k = n
    <3>1. pv[nx[s[n]]] = s[n]
      BY <2>1, <2>2 DEF Circle
    <3>2. s[n] = pv[h]
      BY <1>7, <2>1, <3>1
    <3> QED
      BY <1>3, <2>1, <2>2, <3>2
  <2>3. CASE k # n
    <3>1. k \in 1 .. n - 1 /\ k + 1 \in 1 .. n /\ k + 1 # 1
      BY <1>1, <2>3
    <3>2. s[k + 1] = nx[s[k]] /\ s[k + 1] # h /\ t[k + 1] = s[k + 1]
      BY <1>3, <1>6, <1>7, <1>8, <2>1, <3>1
    <3>3. nx[pv[h]] = h
      BY <1>7, <2>1 DEF Circle
    <3>4. s[k] # pv[h]
      BY <3>2, <3>3
    <3> QED
      BY <2>1, <3>2, <3>4
  <2> QED
    BY <2>2, <2>3
<1>11. Walk(h2, nx2, L \cup {c}, t)
  BY <1>3, <1>4, <1>9, <1>10 DEF Walk
<1> QED
  BY <1>2, <1>11

\* The order of the turns is what FOR_EACH_CONN computes.
LEMMA ListWalk ==
  ASSUME Inv, IsFiniteSet(Cells)
  PROVE  /\ Circle(all_connections, next, prev, Listed)
         /\ Walk(all_connections, next, Listed, FOR_EACH_CONN)
<1>1. Listed \subseteq Cells /\ IsFiniteSet(Listed)
  <2>1. Listed \subseteq Cells
    BY DEF Listed
  <2> QED
    BY <2>1, FS_Subset
<1>2. Circle(all_connections, next, prev, Listed)
  BY <1>1 DEF Circle, Inv, RingOK, OneCircle
<1>3. Cardinality(Listed) \in Nat
  BY <1>1, FS_CardinalityType
<1>4. FOR_EACH_CONN = Loop(all_connections, next, Cardinality(Listed))
  BY DEF FOR_EACH_CONN, Loop
<1>5. Visits(all_connections, next, Cardinality(Listed), FOR_EACH_CONN)
  BY <1>3, <1>4, LoopVisits
<1> QED
  BY <1>2, <1>5, VisitsWalk

LEMMA NextList ==
  ASSUME NEW M, M = Listed', IsFiniteSet(M), NEW s, Walk(all_connections', next', M, s)
  PROVE  FOR_EACH_CONN' = s
<1>1. Cardinality(M) \in Nat
  BY FS_CardinalityType
<1>2. FOR_EACH_CONN' = Loop(all_connections', next', Cardinality(M))
  BY DEF FOR_EACH_CONN, Loop
<1>3. Visits(all_connections', next', Cardinality(M), FOR_EACH_CONN')
  BY <1>1, <1>2, LoopVisits
<1>4. Visits(all_connections', next', Cardinality(M), s)
  BY WalkVisits
<1> QED
  BY <1>1, <1>3, <1>4, VisitsUnique

\* add_connection puts the new connection at the end of the list.
LEMMA AddLast ==
  ASSUME Inv, IsFiniteSet(Cells), NEW c \in Cells, kind[c] = "free",
         NEW k \in {"http", "gpip"}, add_connection(c, k)
  PROVE  List!Add(c)
<1> DEFINE s == FOR_EACH_CONN
<1>1. /\ Circle(all_connections, next, prev, Listed)
      /\ Walk(all_connections, next, Listed, s)
  BY ListWalk
<1>2. c \notin Listed /\ Listed \subseteq Cells /\ IsFiniteSet(Listed)
  BY <1>1 DEF Listed, Circle
<1> HIDE DEF s
<1>3. Listed' = Listed \cup {c}
  BY AddSound DEF Inv
<1>4. all_connections' = IF Listed = {} THEN c ELSE all_connections
  BY ConnectionsAssumption, <1>2 DEF add_connection, Inv, RingOK
<1>5. ASSUME NEW x \in Listed
      PROVE  next'[x] = IF x = prev[all_connections] THEN c ELSE next[x]
  <2>1. all_connections \in Listed /\ all_connections # NULL /\ x \in Cells /\ x # c
    BY <1>2, ConnectionsAssumption DEF Inv, RingOK
  <2>2. next' = [next EXCEPT ![prev[all_connections]] = c, ![c] = all_connections]
    BY <2>1 DEF add_connection
  <2>3. next \in [Cells -> Pointers] /\ prev[all_connections] \in Listed
    BY <2>1 DEF Inv, TypeOK, RingOK
  <2> QED
    BY <1>2, <2>1, <2>2, <2>3
<1>6. Walk(all_connections', next', Listed \cup {c}, Append(s, c))
  BY <1>1, <1>2, <1>4, <1>5, AddWalk
<1>7. IsFiniteSet(Listed \cup {c})
  BY <1>2, FS_AddElement
<1>8. FOR_EACH_CONN' = Append(s, c)
  BY <1>3, <1>6, <1>7, NextList
<1>9. \A i \in 1 .. Len(s) : s[i] # c
  BY <1>1, <1>2, WalkOnce
<1> QED
  BY <1>8, <1>9 DEF List!Add, s

\* free_connection takes it out, and the one after it has the next turn.
LEMMA FreeTurns ==
  ASSUME Inv, IsFiniteSet(Cells), NEW c \in Listed, free_connection(c)
  PROVE  \E i \in 1 .. Len(FOR_EACH_CONN) : List!Free(i)
<1> DEFINE s == FOR_EACH_CONN
<1>1. /\ Circle(all_connections, next, prev, Listed)
      /\ Walk(all_connections, next, Listed, s)
  BY ListWalk
<1> HIDE DEF s
<1>2. PICK i \in 1 .. Len(s) : s[i] = c
  BY <1>1, WalkOnce
<1>3. c \in Cells /\ Listed' = Listed \ {c} /\ IsFiniteSet(Listed)
  BY <1>1 DEF free_connection, Listed, Inv, TypeOK, Circle
<1>4. /\ next[c] \in Listed /\ prev[c] \in Listed /\ next \in [Cells -> Pointers]
      /\ Listed \subseteq Cells
  BY DEF Inv, TypeOK, RingOK, Listed
<1>5. next' = [next EXCEPT ![prev[c]] = next[c]]
  BY DEF free_connection
<1>6. \A x \in Listed \ {c} : next'[x] = IF x = prev[c] THEN next[c] ELSE next[x]
  BY <1>4, <1>5
<1>7. PICK nx2 : nx2 = next'
  OBVIOUS
<1>8. Walk(next[c], nx2, Listed \ {c}, Freed(s, i))
  <2>1. Unlinked(next, prev, Listed, c, nx2)
    BY <1>6, <1>7 DEF Unlinked
  <2> QED
    BY <1>1, <1>2, <2>1, FreeWalk
<1>9. Walk(all_connections', nx2, Listed \ {c}, Freed(s, i))
  <2>1. CASE next[c] = c
    <3>1. \A x \in {c} : next[x] \in {c}
      BY <2>1
    <3>2. {c} \in SUBSET Listed /\ {c} # {}
      OBVIOUS
    <3>3. Listed = {c}
      BY <3>1, <3>2 DEF Inv, RingOK, OneCircle
    <3>4. Listed \ {c} = {}
      BY <3>3
    <3> QED
      BY <1>8, <3>4 DEF Walk
  <2>2. CASE next[c] # c
    BY <1>8, <2>2 DEF free_connection
  <2> QED
    BY <2>1, <2>2
<1>10. IsFiniteSet(Listed \ {c})
  BY <1>3, FS_RemoveElement
<1>11. FOR_EACH_CONN' = Freed(s, i)
  BY <1>3, <1>7, <1>9, <1>10, NextList
<1>12. List!Free(i)
  BY <1>11 DEF List!Free, List!After, List!Before, Freed, s
<1> QED
  BY <1>2, <1>12 DEF s

\* A connection that sends goes to the end.
LEMMA SendTurns ==
  ASSUME Inv, IsFiniteSet(Cells), NEW c \in Cells, SendStart(c)
  PROVE  \E i \in 1 .. Len(FOR_EACH_CONN) : List!Turn(i)
<1> DEFINE s == FOR_EACH_CONN
<1>1. /\ Circle(all_connections, next, prev, Listed)
      /\ Walk(all_connections, next, Listed, s)
  BY ListWalk
<1> HIDE DEF s
<1>2. c \in Listed
  BY DEF SendStart, Listed
<1>3. PICK i \in 1 .. Len(s) : s[i] = c
  BY <1>1, <1>2, WalkOnce
<1>4. /\ all_connections' = next[c] /\ next' = next /\ Listed' = Listed
      /\ IsFiniteSet(Listed)
  BY <1>1 DEF SendStart, Listed, Circle
<1>5. Walk(next[c], next, Listed, Turned(s, i))
  BY <1>1, <1>3, TurnWalk
<1>6. FOR_EACH_CONN' = Turned(s, i)
  BY <1>4, <1>5, NextList
<1>7. List!Turn(i)
  BY <1>6 DEF List!Turn, List!After, List!Before, Turned, s
<1> QED
  BY <1>3, <1>7 DEF s

\* A step that leaves the pointers and the set of connections leaves the list.
LEMMA SameList ==
  ASSUME all_connections' = all_connections, next' = next, kind' = kind
  PROVE  FOR_EACH_CONN' = FOR_EACH_CONN
<1>1. Listed' = Listed
  BY DEF Listed
<1>2. /\ FOR_EACH_CONN = Loop(all_connections, next, Cardinality(Listed))
      /\ FOR_EACH_CONN' = Loop(all_connections', next', Cardinality(Listed'))
  BY DEF FOR_EACH_CONN, Loop
<1> QED
  BY <1>1, <1>2

\* Each step of the pointers is a step of the list, or leaves it as it was.
LEMMA StepIsListStep ==
  ASSUME "receive" \notin Callers, IsFiniteSet(Cells), Inv, [Next]_vars
  PROVE  [List!Next]_FOR_EACH_CONN
<1>1. ASSUME NEW c \in Cells, kind[c] = "free", NEW k \in {"http", "gpip"}, add_connection(c, k)
      PROVE  List!Next
  BY <1>1, AddLast DEF List!Next
<1>2. ASSUME NEW c \in Listed, free_connection(c) PROVE List!Next
  BY <1>2, FreeTurns DEF List!Next
<1>3. ASSUME all_connections' = all_connections, next' = next, kind' = kind
      PROVE  FOR_EACH_CONN' = FOR_EACH_CONN
  BY <1>3, SameList
<1>4. CASE \E c \in Cells : ReceiveNew(c)
  BY <1>1, <1>4 DEF ReceiveNew
<1>5. CASE \E c \in Cells : ReceivePacket(c)
  BY <1>1, <1>5 DEF ReceivePacket
<1>6. CASE \E c \in Cells : request_packet_out_call(c)
  BY <1>1, <1>6 DEF request_packet_out_call
<1>7. CASE \E c \in Cells : SendStart(c)
  BY <1>7, SendTurns DEF List!Next
<1>8. CASE ReceiveFree \/ PacketInFree
  <2>1. free_connection(connection) /\ connection \in Listed
    BY <1>8 DEF ReceiveFree, PacketInFree, Inv, ContextOK
  <2> QED
    BY <1>2, <2>1
<1>9. CASE SendDone
  <2>1. connection \in Listed
    BY <1>9 DEF SendDone, Inv, ContextOK
  <2>2. free_connection(connection) \/ UNCHANGED <<all_connections, next, prev, kind>>
    BY <1>9 DEF SendDone
  <2> QED
    BY <1>2, <1>3, <2>1, <2>2
<1>10. CASE ReceiveUpdate
  <2>1. tmp_connection.next = next[connection] /\ next \in [Cells -> Pointers]
    BY <1>10 DEF ReceiveUpdate, Inv, ContextOK, TypeOK
  <2>2. all_connections' = all_connections /\ next' = next /\ kind' = kind
    BY <1>10, <2>1 DEF ReceiveUpdate
  <2> QED
    BY <1>3, <2>2
<1>11. CASE \/ \E c \in Cells : ReceiveKnown(c) \/ SendComet(c)
            \/ SendPacket \/ ReceiveDrop \/ PacketInKeep \/ SendReset \/ ResetDone \/ UNCHANGED vars
  <2>1. all_connections' = all_connections /\ next' = next /\ kind' = kind
    BY <1>11 DEF ReceiveKnown, SendComet, SendPacket, ReceiveDrop, PacketInKeep, SendReset, ResetDone, vars
  <2> QED
    BY <1>3, <2>1
<1> QED
  BY <1>4, <1>5, <1>6, <1>7, <1>8, <1>9, <1>10, <1>11 DEF Next

\* No connection, an empty list.
LEMMA InitIsListInit == Init => List!Init
<1> SUFFICES ASSUME Init PROVE FOR_EACH_CONN = << >>
  BY DEF List!Init
<1>1. Listed = {}
  BY DEF Init, Listed
<1>2. Cardinality(Listed) = 0
  BY <1>1, FS_EmptySet
<1>3. FOR_EACH_CONN = Loop(all_connections, next, 0)
  BY <1>2 DEF FOR_EACH_CONN, Loop
<1>4. Visits(all_connections, next, 0, FOR_EACH_CONN)
  BY <1>3, LoopVisits
<1> QED
  BY <1>4 DEF Visits

\* The pointers implement the list of ConnectionList, for any finite heap:
\* connections are added at the end, whichever is freed the others keep the
\* order of their turns, and a loop over them visits each of them once, as
\* long as no doPostIn handler adds a connection.
THEOREM ConnectionsImplementList ==
  ASSUME "receive" \notin Callers, IsFiniteSet(Cells)
  PROVE  Spec => ImplementsList
<1>1. Inv /\ [Next]_vars => [List!Next]_FOR_EACH_CONN
  BY StepIsListStep
<1>2. Spec => []Inv
  BY ConnectionsInvariant
<1> QED
  BY InitIsListInit, <1>1, <1>2, PTL DEF Spec, ImplementsList, List!ListSpec
=============================================================================

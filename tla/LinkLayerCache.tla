--------------------------- MODULE LinkLayerCache ---------------------------
(***************************************************************************)
(* core/link_layer_cache.c: the table in which the ethernet drivers keep   *)
(* the link layer addresses of the hosts they have heard of.  Ethernet     *)
(* extends it with the driver that fills and reads it.                     *)
(***************************************************************************)
EXTENDS Integers

CONSTANTS Ips,     \* the IP addresses heard of
          NullIp,  \* 0.0.0.0, the address of a free entry
          Links,   \* the link layer addresses
          NoLink,  \* the zeros of an entry that was never written
          LINK_LAYER_CACHE_MAX_ENTRY,
          Counter, \* NOW is a counter of the cache and not TIME_MILLIS
          MaxTime  \* NOW stops there

ASSUME LinkLayerCacheAssumption ==
  /\ NoLink \notin Links
  /\ LINK_LAYER_CACHE_MAX_ENTRY \in Nat \ {0}
  /\ Counter \in BOOLEAN
  /\ MaxTime \in Nat

VARIABLES _link_layer_table,
          now,
          heard,  \* the last link layer address of each host
          last    \* and the last host heard of, or NullIp

cache == <<_link_layer_table, now, heard, last>>

Slots == 0 .. LINK_LAYER_CACHE_MAX_ENTRY - 1
Hosts == Ips \ {NullIp}

CacheInit ==
  /\ _link_layer_table = [i \in Slots |-> [ip |-> NullIp, timestamp |-> 0, link_layer |-> NoLink]]
  /\ now = 0
  /\ heard = [ip \in Hosts |-> NoLink]
  /\ last = NullIp

\* Mutant: the search stops at a free entry only.
MatchingFree(ip) == {i \in Slots : _link_layer_table[i].ip = NullIp}

\* The entries at which the search for ip stops.
Matching(ip) == {i \in Slots : _link_layer_table[i].ip \in {ip, NullIp}}

First(S) == CHOOSE i \in S : \A j \in S : i <= j

\* Of the entries with the smallest timestamp, the first.
Oldest == First({i \in Slots : \A j \in Slots :
                   _link_layer_table[i].timestamp <= _link_layer_table[j].timestamp})

NOW == IF Counter THEN now + 1 ELSE now

\* The table once link is stored for ip.  The entry that is replaced keeps
\* its timestamp.
Stored(ip, link) ==
  IF Matching(ip) # {}
  THEN [_link_layer_table EXCEPT ![First(Matching(ip))] =
          [ip |-> ip, timestamp |-> NOW, link_layer |-> link]]
  ELSE [_link_layer_table EXCEPT ![Oldest].ip = ip, ![Oldest].link_layer = link]

add_link_layer_address(ip, link) ==
  /\ NOW <= MaxTime
  /\ _link_layer_table' = Stored(ip, link)
  /\ heard' = IF ip = NullIp THEN heard ELSE [heard EXCEPT ![ip] = link]
  /\ last' = IF ip = NullIp THEN last ELSE ip
  /\ now' = IF Matching(ip) # {} THEN NOW ELSE now

\* What a sender gets for ip: a link layer address, or none.
get_link_layer_address(ip) ==
  LET found == {i \in Slots : _link_layer_table[i].ip = ip} IN
  IF found = {} THEN {} ELSE {_link_layer_table[First(found)].link_layer}

\* TIME_MILLIS advances between two calls, or not.
TimePasses ==
  /\ ~ Counter
  /\ now < MaxTime
  /\ now' = now + 1
  /\ UNCHANGED <<_link_layer_table, heard, last>>

----------------------------------------------------------------------------
\* A host has one entry at most, and the entries in use come first: nothing
\* that is stored is hidden behind another entry or a free one.
OneEntry == \A i, j \in Slots :
  /\ _link_layer_table[i].ip = _link_layer_table[j].ip /\ i # j
       => _link_layer_table[i].ip = NullIp
  /\ i < j /\ _link_layer_table[j].ip # NullIp => _link_layer_table[i].ip # NullIp

\* A frame is never sent to an address the host no longer has: the table
\* answers with the last address heard of, or not at all.
AnswersLast == \A ip \in Hosts : get_link_layer_address(ip) \subseteq {heard[ip]} \ {NoLink}

\* The last host heard of has an answer.
LastIsKnown == last # NullIp => get_link_layer_address(last) # {}

\* The table is sound, whatever the order in which the hosts are heard of,
\* change their addresses and replace each other.
CacheSound == OneEntry /\ AnswersLast /\ LastIsKnown

=============================================================================

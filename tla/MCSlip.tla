------------------------------- MODULE MCSlip -------------------------------
(***************************************************************************)
(* Packets of three to six bytes, with the bytes SLIP gives a meaning, for *)
(* a buffer of four: one is larger than the buffer, one than what the      *)
(* hosts read with the header of the tun interface.                        *)
(***************************************************************************)
EXTENDS Slip

Masking == {Arduino_slip, MicaZ}
AllHosts == {panManager, tunToSlip6, panManagerWindows}

Short == <<IPV4, 3, SLIP_ESC_END>>
Escapes == <<IPV4, 4, SLIP_END, SLIP_ESC>>
Nested == <<IPV4, 5, IPV4, 3, 0>>
Long == <<IPV4, 6, IPV4, SLIP_END, 0, 1>>

Packets == {Short, Escapes, Nested, Long}
In == {<<p, q>> : p, q \in Packets}
BothWays == {[in |-> in, out |-> << >>] : in \in In \cup {<<Long, Escapes, Short>>}}
            \cup {[in |-> << >>, out |-> out] : out \in In}
            \cup {[in |-> <<Escapes>>, out |-> <<Short>>]}
=============================================================================

-------------------------- MODULE MCForwardingTable --------------------------
(* A small instance of ForwardingTable: three stations for two slots, two  *)
(* of which share the upper and two the lower half of their addresses, and *)
(* the sources net_bridge_learn must refuse.                               *)
EXTENDS ForwardingTable

MCOwnMac    == <<4, 1>>
MCGroupMacs == {<<3, 3>>}
MCMacs      == {<<2, 1>>, <<2, 2>>, <<4, 2>>} \cup {MCOwnMac} \cup MCGroupMacs

(* A slot left half-written is followed while it still relays frames, in   *)
(* slot 0 and at one reading of the tick, the one after the wrap: there    *)
(* entries of all ages are met, and its content makes no difference else.  *)
OneHalfWritten == dirty # {} => dirty = {0} /\ tick = 0 /\ Active(0)
=============================================================================

---------------------------- MODULE MCNetBridge ----------------------------
(***************************************************************************)
(* NetBridge with packets of two sizes, so that a short one follows a long *)
(* one through the same buffer and what is left of the long one shows.     *)
(***************************************************************************)
EXTENDS NetBridge

Payload == <<1, 0, 1>>
MCPackets == {[pkt |-> n, size |-> Payload[n + 1]] : n \in 0 .. PacketMod - 1}

=============================================================================

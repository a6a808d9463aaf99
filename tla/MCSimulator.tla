---------------------------- MODULE MCSimulator ----------------------------
(***************************************************************************)
(* One tile of the platform and the CPU of another: the router and the     *)
(* network interface start in the first cycle, the CPUs in the third, and  *)
(* a CPU may take two cycles.                                              *)
(***************************************************************************)
EXTENDS Simulator

Tile == {"router", "netif", "cpu", "cpu2"}
TileFirst == [m \in Tile |-> IF m \in {"cpu", "cpu2"} THEN 3 ELSE 1]
TileCosts == [m \in Tile |-> IF m \in {"cpu", "cpu2"} THEN {1, 2} ELSE {1}]
=============================================================================

------------------------------ MODULE MCRouter ------------------------------
(***************************************************************************)
(* Small instances of Router: the router at (1, 1) of a mesh, fed by two   *)
(* or three of its neighbours.                                             *)
(***************************************************************************)
EXTENDS Router

AllPorts == Ports

\* Address flits, seen from (1, 1).
ToEast  == 33     \* 0x21
ToLocal == 17     \* 0x11
ToNorth == 18     \* 0x12

\* Two inputs compete for EAST with packets of one and two words; a third input
\* may bring one for a row this router has no neighbour at.
Contention ==
    {[src |-> WEST,       dst |-> ToEast,  size |-> 1],
     [src |-> LOCAL_PORT, dst |-> ToEast,  size |-> 2],
     [src |-> LOCAL_PORT, dst |-> ToLocal, size |-> 0],
     [src |-> EAST,       dst |-> ToNorth, size |-> 0]}
NoNorthNeighbour == Ports \ {NORTH}

\* Two inputs compete for EAST, with packets of five flits.
TwoStreams ==
    {[src |-> WEST,       dst |-> ToEast, size |-> 3],
     [src |-> LOCAL_PORT, dst |-> ToEast, size |-> 3]}

\* A packet for a column this router has no neighbour at.
OffTheMesh ==
    {[src |-> WEST,  dst |-> ToEast,  size |-> 1],
     [src |-> LOCAL_PORT, dst |-> ToLocal, size |-> 1]}
NoEastNeighbour == Ports \ {EAST}

(***************************************************************************)
(* Neighbours as fast as the router: every input that has a stream holds a *)
(* flit and every output is empty whenever the router runs.                *)
(***************************************************************************)
Streaming == {k.src : k \in Packets}
SaturatedRun ==
    /\ \A p \in Streaming : ib[p] # << >>
    /\ \A q \in Ports : ob[q] = << >>
    /\ Run
SaturatedNext ==
    \/ SaturatedRun
    \/ \E p \in Ports : StartPacket(p) \/ ContinuePacket(p)
    \/ \E q \in Ports : Depart(q)
SaturatedSpec ==
    /\ Init /\ [][SaturatedNext]_vars
    /\ WF_vars(SaturatedRun)
    /\ \A p \in Ports : WF_vars(StartPacket(p)) /\ WF_vars(ContinuePacket(p))
    /\ \A q \in Ports : WF_vars(Depart(q))
=============================================================================

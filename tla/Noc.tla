-------------------------------- MODULE Noc --------------------------------
(***************************************************************************)
(* The network on chip: a mesh of routers (TRouter), wired by main() of    *)
(* the orca-dma platform so that the output buffer of a router is an input *)
(* buffer of its neighbour, with a network interface at every local port.  *)
(*                                                                         *)
(* The simulator gives every router one Run per cycle, in any order within *)
(* the cycle: a router may see what its neighbour did in this very cycle,  *)
(* or not.  Interfaces push and pop flits when their programs let them.    *)
(*                                                                         *)
(* The steps of a router are built from RouterOps, as those of Router.     *)
(***************************************************************************)
EXTENDS RouterOps

CONSTANTS
    Width, Height,  \* ORCA_NOC_WIDTH, ORCA_NOC_HEIGHT
    Capacity,       \* BUFFER_CAPACITY
    Traffic,        \* Traffic[n]: the packets n sends, in order: [dst, size]
    Payload         \* the word every payload flit carries

Nodes == (0 .. Width - 1) \X (0 .. Height - 1)

ASSUME MeshAssumption == Width \in 1 .. 16 /\ Height \in 1 .. 16
ASSUME CapacityAssumption == Capacity \in Nat \ {0}
ASSUME TrafficAssumption ==
    \A n \in Nodes : Traffic[n] \in Seq([dst : Nodes, size : 0 .. FlitMod - 3])
ASSUME PayloadAssumption == Payload \in FlitWord

VARIABLES
    ib,             \* _ib of every router
    ni,             \* the input buffer of every network interface
    sw, fts, rr,    \* _switch_control, _flits_to_send, _round_robin
    ran,            \* routers that have run in this cycle
    nextPkt, nextPos,   \* the flit each interface pushes next
    inbox,          \* flits of the packet each interface is receiving
    received        \* packets each interface has received

netVars == <<ib, ni, sw, fts, rr, ran>>
niVars  == <<nextPkt, nextPos, inbox, received>>
vars    == <<netVars, niVars>>

Message(n, k) == [src |-> n, dst |-> Traffic[n][k].dst, num |-> k,
                  size |-> Traffic[n][k].size]
Messages == UNION {{Message(n, k) : k \in 1 .. Len(Traffic[n])} : n \in Nodes}

\* A flit is its packet and its position; the hardware sees the word.
Word(f) == IF f.pos = 0 THEN f.msg.dst[1] * 16 + f.msg.dst[2]
           ELSE IF f.pos = 1 THEN f.msg.size ELSE Payload

Neighbour(n, p) ==
    CASE p = EAST  -> <<n[1] + 1, n[2]>>
      [] p = WEST  -> <<n[1] - 1, n[2]>>
      [] p = NORTH -> <<n[1], n[2] + 1>>
      [] p = SOUTH -> <<n[1], n[2] - 1>>
Opposite(p) ==
    CASE p = EAST  -> WEST
      [] p = WEST  -> EAST
      [] p = NORTH -> SOUTH
      [] p = SOUTH -> NORTH

Connected(n, p) == p = LOCAL_PORT \/ Neighbour(n, p) \in Nodes

\* What port q of router n pushes into.
OutBuffer(n, q) ==
    IF q = LOCAL_PORT THEN ni[n]
    ELSE IF Connected(n, q) THEN ib[Neighbour(n, q)][Opposite(q)] ELSE << >>

Init ==
    /\ ib = [n \in Nodes |-> [p \in Ports |-> << >>]]
    /\ ni = [n \in Nodes |-> << >>]
    /\ sw = [n \in Nodes |-> [p \in Ports |-> FREE]]
    /\ fts = [n \in Nodes |-> [p \in Ports |-> 0]]
    /\ rr = [n \in Nodes |-> LOCAL_PORT]
    /\ ran = {}
    /\ nextPkt = [n \in Nodes |-> 1]
    /\ nextPos = [n \in Nodes |-> 0]
    /\ inbox = [n \in Nodes |-> << >>]
    /\ received = [n \in Nodes |-> << >>]

-----------------------------------------------------------------------------
Waiting(n) == [p \in Ports |-> ib[n][p] # << >>]
Full(n) == [q \in Ports |-> Len(OutBuffer(n, q)) = Capacity]
Target(n) == RouteXY(n[1], n[2], Word(Head(ib[n][rr[n]])))
Granted(n) == Grant(sw[n], rr[n], Waiting(n)[rr[n]], Target(n))

\* The crossbar of router n after the control phase of this cycle.
Crossbar(n) == IF Granted(n) THEN [sw[n] EXCEPT ![rr[n]] = Target(n)] ELSE sw[n]
Counts(n) == IF Granted(n) THEN [fts[n] EXCEPT ![rr[n]] = AWAIT_ADDR] ELSE fts[n]

ReachesNull(n) ==
    LET crossbar == Crossbar(n)
    IN  \E i \in Ports : crossbar[i] # FREE /\ ~ Connected(n, crossbar[i])

(***************************************************************************)
(* TRouter::Run of router n, in the cycle that is being simulated: Driven  *)
(* is what it drives out of a port, a sequence of at most one flit.        *)
(***************************************************************************)
RunRouter(n) ==
    /\ n \notin ran
    /\ ~ ReachesNull(n)
    /\ LET crossbar == Crossbar(n)
           counts == Counts(n)
           driving == Drives(crossbar, Waiting(n), Full(n))
           after == [i \in driving |-> CountAfter(counts[i], Word(Head(ib[n][i])))]
           Driven(q) == LET inputs == {i \in driving : crossbar[i] = q}
                        IN  IF inputs = {} THEN << >>
                            ELSE <<Head(ib[n][CHOOSE i \in inputs : TRUE])>>
       IN  /\ ib' = [m \in Nodes |-> [p \in Ports |->
                    IF m = n THEN IF p \in driving THEN Tail(ib[n][p]) ELSE ib[n][p]
                    ELSE IF p # LOCAL_PORT /\ Neighbour(m, p) = n
                    THEN ib[m][p] \o Driven(Opposite(p)) ELSE ib[m][p]]]
           /\ ni' = [ni EXCEPT ![n] = @ \o Driven(LOCAL_PORT)]
           /\ fts' = [fts EXCEPT ![n] = [i \in Ports |->
                    IF i \in driving THEN after[i] ELSE counts[i]]]
           /\ sw' = [sw EXCEPT ![n] = [i \in Ports |->
                    IF i \in driving /\ after[i] = 0 THEN FREE ELSE crossbar[i]]]
    /\ rr' = [rr EXCEPT ![n] = NextPriority(@)]
    /\ ran' = IF ran \cup {n} = Nodes THEN {} ELSE ran \cup {n}
    /\ UNCHANGED niVars

-----------------------------------------------------------------------------
\* Interface n pushes the next flit into its router.
Inject(n) ==
    /\ nextPkt[n] <= Len(Traffic[n])
    /\ Len(ib[n][LOCAL_PORT]) < Capacity
    /\ LET m == Message(n, nextPkt[n])
           last == nextPos[n] = m.size + 1
       IN  /\ ib' = [ib EXCEPT ![n][LOCAL_PORT] =
                        Append(@, [msg |-> m, pos |-> nextPos[n]])]
           /\ nextPkt' = [nextPkt EXCEPT ![n] = IF last THEN @ + 1 ELSE @]
           /\ nextPos' = [nextPos EXCEPT ![n] = IF last THEN 0 ELSE @ + 1]
    /\ UNCHANGED <<ni, sw, fts, rr, ran, inbox, received>>

\* The packet some flits make up; nothing a node has sent if they are mixed.
Assembled(flits) ==
    IF \A k \in DOMAIN flits : flits[k] = [msg |-> flits[1].msg, pos |-> k - 1]
    THEN flits[1].msg
    ELSE [src |-> << >>]

\* Interface n takes a flit, and has a packet when it has as many flits as the
\* second of them announces.
Consume(n) ==
    /\ ni[n] # << >>
    /\ ni' = [ni EXCEPT ![n] = Tail(@)]
    /\ LET flits == Append(inbox[n], Head(ni[n]))
           whole == Len(flits) > 1 /\ Len(flits) = Word(flits[2]) + 2
       IN  /\ inbox' = [inbox EXCEPT ![n] = IF whole THEN << >> ELSE flits]
           /\ received' = [received EXCEPT ![n] =
                IF whole THEN Append(@, Assembled(flits)) ELSE @]
    /\ UNCHANGED <<ib, sw, fts, rr, ran, nextPkt, nextPos>>

Next == \E n \in Nodes : RunRouter(n) \/ Inject(n) \/ Consume(n)

Spec == Init /\ [][Next]_vars

(***************************************************************************)
(* The simulator runs every router, and the interfaces, for ever; that an  *)
(* interface frees its buffer is for its driver (NetifDriver).             *)
(***************************************************************************)
FairSpec ==
    /\ Spec
    /\ \A n \in Nodes : WF_vars(RunRouter(n)) /\ WF_vars(Inject(n)) /\ WF_vars(Consume(n))

-----------------------------------------------------------------------------
(***************************************************************************)
(* Properties.                                                             *)
(***************************************************************************)
Flits == [msg : Messages, pos : Nat]
Buffers == {b \in Seq(Flits) : Len(b) <= Capacity}

\* No router pushes into a buffer of its neighbour that is full: push() does not
\* refuse by default, and a buffer above its capacity never reports full() again,
\* which tests equality (UBuffer.cpp:69-79, 113-115).  Interfaces receive packets
\* some node has sent.
TypeOK ==
    /\ ib \in [Nodes -> [Ports -> Buffers]] /\ ni \in [Nodes -> Buffers]
    /\ sw \in [Nodes -> [Ports -> Ports \cup {FREE}]]
    /\ fts \in [Nodes -> [Ports -> Counter]]
    /\ rr \in [Nodes -> Ports]
    /\ ran \in SUBSET Nodes
    /\ nextPkt \in [Nodes -> Nat \ {0}] /\ nextPos \in [Nodes -> Nat]
    /\ \A n \in Nodes : nextPkt[n] <= Len(Traffic[n]) + 1
    /\ inbox \in [Nodes -> Seq(Flits)] /\ received \in [Nodes -> Seq(Messages)]

\* Dimension order: a packet that has started along a column never turns back
\* into a row, and none goes back the way it came.  No cycle of routers waiting
\* for each other's buffers can exist (GetRouteXY, lines 218-242).
TurnsXY ==
    \A n \in Nodes : \A i \in Ports : sw[n][i] # FREE =>
        /\ i # LOCAL_PORT => sw[n][i] # i
        /\ i \in {NORTH, SOUTH} => sw[n][i] \in {NORTH, SOUTH, LOCAL_PORT}

\* Everything sent arrives: whole packets waiting for one another across several
\* routers all get through, and none leads a router to a port nothing is
\* connected to, where RunRouter would stop for ever: the check of
\* TRouter.cpp:139-151 is never needed for packets addressed to nodes.
Delivered(n) == {received[n][k] : k \in DOMAIN received[n]}
Arrived == UNION {Delivered(n) : n \in Nodes}
AllDelivered == <>[](Messages \subseteq Arrived)

-----------------------------------------------------------------------------
\* Packets whose first flit has left its node.
Begun(s) == IF nextPos[s] = 0 THEN nextPkt[s] - 1 ELSE nextPkt[s]
Departed == UNION {{Message(s, k) : k \in 1 .. Begun(s)} : s \in Nodes}

Promise == INSTANCE Channels WITH pending <- Departed \ Arrived

\* Flits, crossbars and cycles implement first-in first-out channels of whole
\* packets: none lost, duplicated, torn, misdelivered or overtaken.
ChannelsSpec == Promise!Spec
=============================================================================

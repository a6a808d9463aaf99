------------------------------- MODULE Router -------------------------------
(***************************************************************************)
(* One router of the mesh (class TRouter): five input buffers of its own,  *)
(* five output buffers that belong to its neighbours and to the network    *)
(* interface, and the crossbar that connects inputs to outputs for the     *)
(* length of a packet (wormhole switching).                                *)
(*                                                                         *)
(* The environment is what the platform attaches to the ports: upstream    *)
(* routers and the network interface push packets, flit by flit, into an   *)
(* input buffer that has room; downstream ones pop the output buffers.     *)
(*                                                                         *)
(* A flit carries the packet it belongs to and its position in the packet. *)
(* Only Word, the 16 bits the hardware sees, is read by the router.        *)
(***************************************************************************)
EXTENDS RouterOps

CONSTANTS
    X, Y,           \* position of the router (_x, _y)
    Capacity,       \* BUFFER_CAPACITY
    Connected,      \* ports with an output buffer (SetOutputBuffer)
    Packets,        \* packets the neighbours may send: [src, dst, size]
    Payload         \* the word every payload flit carries

ASSUME PositionAssumption == X \in 0..15 /\ Y \in 0..15
ASSUME CapacityAssumption == Capacity \in Nat \ {0}
ASSUME ConnectedAssumption == Connected \subseteq Ports
ASSUME PayloadAssumption == Payload \in FlitWord

(***************************************************************************)
(* A size flit of 65535 or 65534 is stored in the int16_t counter as -1    *)
(* or -2, the marks for "size flit expected" and "address flit expected":  *)
(* such packets are outside what the router can forward.                   *)
(***************************************************************************)
SizeLimit == FlitMod - 3
ASSUME PacketsAssumption ==
    Packets \subseteq [src : Ports, dst : FlitWord, size : 0 .. SizeLimit]

VARIABLES
    ib,             \* _ib: input buffers
    ob,             \* _ob: output buffers
    sw,             \* _switch_control
    fts,            \* _flits_to_send
    rr,             \* _round_robin
    crashed,        \* a null output buffer has been dereferenced
    lastIn,         \* history: the last flit pushed into each input
    lastOut         \* history: the last flit pushed into each output

vars == <<ib, ob, sw, fts, rr, crashed, lastIn, lastOut>>

Flit == {f \in [src : Ports, dst : FlitWord, size : 0 .. SizeLimit,
                pos : 0 .. SizeLimit + 1] : f.pos <= f.size + 1}

IsTail(f) == f.pos = f.size + 1

Word(f) == IF f.pos = 0 THEN f.dst ELSE IF f.pos = 1 THEN f.size ELSE Payload

RouteOf(f) == RouteXY(X, Y, f.dst)

\* The next flit of the packet f belongs to.
Successor(f) == [src |-> f.src, dst |-> f.dst, size |-> f.size, pos |-> f.pos + 1]

\* g may come right after f on a link: the rest of the packet, or a new one.
Follows(f, g) ==
    IF IsTail(f) THEN g.pos = 0
    ELSE /\ g.src = f.src /\ g.dst = f.dst /\ g.size = f.size
         /\ g.pos = f.pos + 1

\* What a link that carried nothing yet has carried last.
Idle(p) == [src |-> p, dst |-> 0, size |-> 0, pos |-> 1]

\* The type invariant: no buffer outgrows its capacity, no counter its width.
TypeOK ==
    /\ ib \in [Ports -> Seq(Flit)]
    /\ ob \in [Ports -> Seq(Flit)]
    /\ sw \in [Ports -> Ports \cup {FREE}]
    /\ fts \in [Ports -> Counter]
    /\ rr \in Ports
    /\ crashed \in BOOLEAN
    /\ lastIn \in [Ports -> Flit]
    /\ lastOut \in [Ports -> Flit]
    /\ \A p \in Ports : Len(ib[p]) <= Capacity /\ Len(ob[p]) <= Capacity

Init ==
    /\ ib = [p \in Ports |-> << >>]
    /\ ob = [p \in Ports |-> << >>]
    /\ sw = [p \in Ports |-> FREE]
    /\ fts = [p \in Ports |-> 0]
    /\ rr = LOCAL_PORT
    /\ crashed = FALSE
    /\ lastIn = [p \in Ports |-> Idle(p)]
    /\ lastOut = [p \in Ports |-> Idle(p)]

-----------------------------------------------------------------------------
Waiting == [p \in Ports |-> ib[p] # << >>]
Full == [p \in Ports |-> Len(ob[p]) = Capacity]

Target == RouteXY(X, Y, Word(Head(ib[rr])))

Granted == Grant(sw, rr, Waiting[rr], Target)

\* The crossbar after the control phase of this cycle.
Crossbar == IF Granted THEN [sw EXCEPT ![rr] = Target] ELSE sw
Counts == IF Granted THEN [fts EXCEPT ![rr] = AWAIT_ADDR] ELSE fts

Driving == Drives(Crossbar, Waiting, Full)
CountOf(i) == CountAfter(Counts[i], Word(Head(ib[i])))

DrivenOutputs == {Crossbar[i] : i \in Driving}
FlitFor(q) == Head(ib[CHOOSE i \in Driving : Crossbar[i] = q])

ReachesNull == \E i \in Ports : Crossbar[i] # FREE /\ Crossbar[i] \notin Connected

(***************************************************************************)
(* TRouter::Run, one clock cycle: connect at most one input, drive a flit  *)
(* on every connected input that can move, release the inputs whose packet *)
(* ended, and pass the priority on.                                        *)
(***************************************************************************)
Run ==
    /\ ~ crashed
    /\ ~ ReachesNull
    /\ ib' = [i \in Ports |-> IF i \in Driving THEN Tail(ib[i]) ELSE ib[i]]
    /\ ob' = [q \in Ports |-> IF q \in DrivenOutputs
                              THEN Append(ob[q], FlitFor(q)) ELSE ob[q]]
    /\ lastOut' = [q \in Ports |-> IF q \in DrivenOutputs
                                   THEN FlitFor(q) ELSE lastOut[q]]
    /\ fts' = [i \in Ports |-> IF i \in Driving THEN CountOf(i) ELSE Counts[i]]
    /\ sw' = [i \in Ports |-> IF i \in Driving /\ CountOf(i) = 0
                              THEN FREE ELSE Crossbar[i]]
    /\ rr' = NextPriority(rr)
    /\ UNCHANGED <<crashed, lastIn>>

\* A connected input leads to a port without a buffer: full() is called on null.
RunCrashes ==
    /\ ~ crashed
    /\ ReachesNull
    /\ crashed' = TRUE
    /\ UNCHANGED <<ib, ob, sw, fts, rr, lastIn, lastOut>>

-----------------------------------------------------------------------------
\* The neighbour at p pushes the next flit of its packet, or starts a packet.
Push(p, f) ==
    /\ ~ crashed
    /\ Len(ib[p]) < Capacity
    /\ Follows(lastIn[p], f)
    /\ ib' = [ib EXCEPT ![p] = Append(@, f)]
    /\ lastIn' = [lastIn EXCEPT ![p] = f]
    /\ UNCHANGED <<ob, sw, fts, rr, crashed, lastOut>>

StartPacket(p) ==
    \E k \in Packets :
        /\ k.src = p
        /\ IsTail(lastIn[p])
        /\ Push(p, [src |-> p, dst |-> k.dst, size |-> k.size, pos |-> 0])

ContinuePacket(p) ==
    ~ IsTail(lastIn[p]) /\ Push(p, Successor(lastIn[p]))

\* The neighbour at q takes a flit.
Depart(q) ==
    /\ ~ crashed
    /\ ob[q] # << >>
    /\ ob' = [ob EXCEPT ![q] = Tail(@)]
    /\ UNCHANGED <<ib, sw, fts, rr, crashed, lastIn, lastOut>>

Next ==
    \/ Run
    \/ RunCrashes
    \/ \E p \in Ports : StartPacket(p) \/ ContinuePacket(p)
    \/ \E q \in Ports : Depart(q)

Spec == Init /\ [][Next]_vars

(***************************************************************************)
(* The simulator runs the router once per cycle, for ever; an upstream     *)
(* component that started a packet finishes it; downstream components keep *)
(* taking flits.  Nobody has to start a packet.                            *)
(***************************************************************************)
Fairness ==
    /\ WF_vars(Run \/ RunCrashes)
    /\ \A p \in Ports : WF_vars(ContinuePacket(p))
    /\ \A q \in Ports : WF_vars(Depart(q))

FairSpec == Spec /\ Fairness
-----------------------------------------------------------------------------
(***************************************************************************)
(* Properties.                                                             *)
(***************************************************************************)
\* Input i is inside a packet: its address flit has been driven, its last not.
MidPacket(i) == sw[i] # FREE /\ fts[i] # AWAIT_ADDR

\* No two inputs are ever connected to the same output: the crossbar is
\* exclusive whatever the order in which ports ask for it (Run, lines 116-130).
CrossbarExclusive ==
    \A i, j \in Ports : sw[i] # FREE /\ sw[i] = sw[j] => i = j

\* The counter of a connected input agrees with the packet its output is in the
\* middle of: the header parser (-2, -1, n) never loses its place, even for
\* sizes the int16_t counter stores as a negative number (Run, lines 158-176).
CounterTracksPacket ==
    \A i \in Ports : sw[i] # FREE =>
        LET f == lastOut[sw[i]] IN
        IF fts[i] = AWAIT_ADDR THEN IsTail(f)
        ELSE /\ f.src = i /\ ~ IsTail(f)
             /\ fts[i] = IF f.pos = 0 THEN AWAIT_SIZE ELSE Int16(f.size + 1 - f.pos)

\* A connection lasts exactly as long as the packet: an output nobody is
\* connected to has never been left in the middle of one (line 183).
ReleasedOnlyAtTail ==
    \A q \in Ports : (\A i \in Ports : sw[i] # q) => IsTail(lastOut[q])

\* Wormhole integrity, as seen on a link: what the router pushes into an output
\* continues the packet that is in progress there, or starts one after the end
\* of the last, and it is a flit that routes to that output.
LinkStep ==
    \A q \in Ports : lastOut'[q] # lastOut[q] =>
        Follows(lastOut[q], lastOut'[q]) /\ RouteOf(lastOut'[q]) = q
OutputLinksFramed == [][LinkStep]_vars

\* The flit that preceded the head of input p: a connected input is always in
\* the packet its output is in.
Before(p) == IF MidPacket(p) THEN lastOut[sw[p]] ELSE Idle(p)

\* The inputs hold whole streams: nothing popped was lost, and what comes next
\* at an input continues what the crossbar last drove for it.
InputsChained ==
    \A p \in Ports :
        /\ \A k \in 1 .. Len(ib[p]) : ib[p][k].src = p
        /\ \A k \in 1 .. Len(ib[p]) - 1 : Follows(ib[p][k], ib[p][k + 1])
        /\ ib[p] # << >> => /\ Follows(Before(p), ib[p][1])
                            /\ lastIn[p] = ib[p][Len(ib[p])]
        /\ ib[p] = << >> => \/ lastIn[p] = Before(p)
                            \/ IsTail(lastIn[p]) /\ IsTail(Before(p))
        /\ lastIn[p].src = p

\* A connection leads where the packet on it is addressed.
ConnectionRoutes ==
    \A p \in Ports : sw[p] # FREE =>
        IF fts[p] = AWAIT_ADDR
        THEN ib[p] # << >> /\ RouteOf(ib[p][1]) = sw[p]
        ELSE RouteOf(lastOut[sw[p]]) = sw[p]

\* Together they are preserved by every step; none of them is on its own.
IInv == /\ TypeOK
        /\ CrossbarExclusive
        /\ CounterTracksPacket
        /\ ReleasedOnlyAtTail
        /\ InputsChained
        /\ ConnectionRoutes

\* Every connection is given back: once connected, a packet is driven to its
\* end, unless the program is gone.
PacketsComplete == \A p \in Ports : (sw[p] # FREE) ~> (sw[p] = FREE \/ crashed)

Wants(p, q) == sw[p] = FREE /\ ib[p] # << >> /\ RouteOf(Head(ib[p])) = q

\* Work conservation over rounds: an output some packet waits for is eventually
\* connected, because the priority reaches every port (line 191).
OutputServed ==
    \A q \in Ports :
        (\E p \in Ports : Wants(p, q)) ~> ((\E p \in Ports : sw[p] = q) \/ crashed)

\* "prevent routing to a non-existing router" (TRouter.cpp:139).
NullNeverReached == ~ crashed

\* "which port has the priority acconding to the round robin policy"
\* (TRouter.h:62): a port whose packet waits is connected some day.
PriorityServes ==
    \A p \in Ports : (sw[p] = FREE /\ ib[p] # << >>) ~> (sw[p] # FREE)
=============================================================================

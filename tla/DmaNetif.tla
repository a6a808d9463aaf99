------------------------------ MODULE DmaNetif ------------------------------
(***************************************************************************)
(* The network interface of a processing tile (class TDmaNetif): two state *)
(* machines, one receiving packets from the router into mem1 and copying   *)
(* them to main memory when the CPU says so, one copying packets from main *)
(* memory to mem2 when the CPU says so and sending them to the router.     *)
(* Run executes one step of the first and then one step of the second.     *)
(*                                                                         *)
(* The CPU talks to it by memory mapped signals.  Here it is any program:  *)
(* it writes the signals it may write whenever it is not stalled.  Module  *)
(* NetifDriver puts a driver in its place.                                 *)
(*                                                                         *)
(* Addresses count flits.  A flit carries the number of its packet, its    *)
(* position and the packet's size; the hardware reads only its word.       *)
(***************************************************************************)
EXTENDS Integers, Sequences

CONSTANTS
    Capacity,       \* BUFFER_CAPACITY of both buffers
    MemFlits,       \* flits that fit into mem1 and into mem2 (MEM1_SIZE / 2)
    Sizes,          \* payload sizes of the packets in the network
    PacketMod,      \* packets are numbered modulo this
    Areas,          \* buffers in main memory: the values of prog_addr
    ProgSizes       \* the values of prog_size

ASSUME CapacityAssumption == Capacity \in Nat \ {0}
ASSUME PacketModAssumption == PacketMod \in Nat \ {0}

\* The memories hold the address and the size flit.  Packets and copies need not
\* fit: nothing compares a size with the memories.
ASSUME SizesAssumption ==
    /\ MemFlits \in Nat /\ MemFlits >= 2
    /\ Sizes \subseteq Nat
    /\ ProgSizes \subseteq Nat

VARIABLES
    ib, ob,                                \* buffers from and to the router
    rstate, rrem, raddr,                   \* _recv_state, _remaining, _address
    sstate, ssize, srem, saddr,            \* _send_state, _size, _remaining, _address
    mem0, mem1, mem2,                      \* main, receive and send memories
    stall, intr, sendStatus, recvStatus,   \* signals the netif writes
    progSend, progRecv, progAddr, progSize,\* signals the CPU writes
    lastIn, lastOut,                       \* history: last flit in from, out to the router
    rsize,                                 \* history: flits the CPU asked to be copied
    stray                                  \* history: an access went past the memories

recvVars == <<ib, rstate, rrem, raddr, mem0, mem1, intr, recvStatus>>
sendVars == <<ob, sstate, ssize, srem, saddr, mem2, sendStatus, lastOut>>
cpuVars  == <<progSend, progRecv, progAddr, progSize>>
history  == <<rsize, stray>>
vars     == <<recvVars, sendVars, cpuVars, stall, lastIn, history>>

Slots == 0 .. MemFlits - 1
Flit == UNION {[pkt : 0 .. PacketMod - 1, size : {n}, pos : 0 .. n + 1] : n \in Sizes}
Junk == [pkt |-> -1, size |-> 0, pos |-> -1]

\* The word of a size flit is the size; any other word is as good as another.
Word(f) == IF f.pos = 1 THEN f.size ELSE 1

MutPayloadOf(f) == IF Word(f) = 0 THEN 0 ELSE Word(f) - 1
PayloadOf(f) == Word(f)

IsTail(f) == f.pos = f.size + 1
Follows(f, g) ==
    IF f = Junk THEN g.pos = 0 /\ g.pkt = 0
    ELSE IF IsTail(f) THEN g.pos = 0 /\ g.pkt = (f.pkt + 1) % PacketMod
    ELSE g = [f EXCEPT !.pos = @ + 1]

Load(mem, a) == IF a \in DOMAIN mem THEN mem[a] ELSE Junk
Store(mem, a, f) == [s \in DOMAIN mem |-> IF s = a THEN f ELSE mem[s]]

Init ==
    /\ ib = << >> /\ ob = << >>
    /\ rstate = "WAIT_ADDR_FLIT" /\ rrem = 0 /\ raddr = 0
    /\ sstate = "WAIT_CONFIG_STALL" /\ ssize = 0 /\ srem = 0 /\ saddr = 0
    /\ mem0 = [a \in Areas |-> [s \in Slots |-> Junk]]
    /\ mem1 = [s \in Slots |-> Junk]
    /\ mem2 = [s \in Slots |-> Junk]
    /\ stall = 0 /\ intr = 0 /\ sendStatus = 0 /\ recvStatus = 0
    /\ progSend = 0 /\ progRecv = 0 /\ progSize = 0
    /\ progAddr \in Areas
    /\ lastIn = Junk /\ lastOut = Junk
    /\ rsize = 0 /\ stray = FALSE

-----------------------------------------------------------------------------
(***************************************************************************)
(* recvProcess: one step of the receiving state machine.                   *)
(***************************************************************************)
RecvAddr ==
    /\ rstate = "WAIT_ADDR_FLIT"
    /\ ib # << >>
    /\ ib' = Tail(ib)
    /\ mem1' = Store(mem1, 0, Head(ib))
    /\ raddr' = 1
    /\ rstate' = "WAIT_SIZE_FLIT"
    /\ UNCHANGED <<rrem, mem0, intr, recvStatus>>

RecvSize ==
    /\ rstate = "WAIT_SIZE_FLIT"
    /\ ib # << >>
    /\ ib' = Tail(ib)
    /\ mem1' = Store(mem1, raddr, Head(ib))
    /\ raddr' = raddr + 1
    /\ rrem' = PayloadOf(Head(ib))
    /\ recvStatus' = Word(Head(ib)) + 2
    /\ rstate' = "WAIT_PAYLOAD"
    /\ UNCHANGED <<mem0, intr>>

RecvPayload ==
    /\ rstate = "WAIT_PAYLOAD" /\ rrem > 0
    /\ ib # << >>
    /\ ib' = Tail(ib)
    /\ mem1' = Store(mem1, raddr, Head(ib))
    /\ raddr' = raddr + 1
    /\ rrem' = rrem - 1
    /\ UNCHANGED <<rstate, mem0, intr, recvStatus>>

RecvInterrupt ==
    /\ rstate = "WAIT_PAYLOAD" /\ rrem = 0
    /\ intr' = 1
    /\ rstate' = "WAIT_CONFIG_STALL"
    /\ UNCHANGED <<ib, rrem, raddr, mem0, mem1, recvStatus>>

\* Both processes reset their memory pointer before they go over the memory again.
MutRestartAt(a) == a
RestartAt(a) == 0

MutRecvConfigures == rstate = "WAIT_CONFIG_STALL"
RecvConfigures == rstate = "WAIT_CONFIG_STALL" /\ progRecv = 1
RecvReleases   == rstate = "COPY_RELEASE" /\ rrem = 0

RecvConfig ==
    /\ RecvConfigures
    /\ rrem' = progSize
    /\ recvStatus' = 0
    /\ raddr' = RestartAt(raddr)
    /\ rstate' = "COPY_RELEASE"
    /\ UNCHANGED <<ib, mem0, mem1, intr>>

RecvCopy ==
    /\ rstate = "COPY_RELEASE" /\ rrem > 0
    /\ mem0' = [mem0 EXCEPT ![progAddr] = Store(@, raddr, Load(mem1, raddr))]
    /\ raddr' = raddr + 1
    /\ rrem' = rrem - 1
    /\ UNCHANGED <<ib, rstate, mem1, intr, recvStatus>>

RecvRelease ==
    /\ RecvReleases
    /\ intr' = 0
    /\ rstate' = "FLUSH"
    /\ UNCHANGED <<ib, rrem, raddr, mem0, mem1, recvStatus>>

MutFlushed(prog) == TRUE
Flushed(prog) == prog = 0

RecvFlush ==
    /\ rstate = "FLUSH" /\ Flushed(progRecv)
    /\ rstate' = "WAIT_ADDR_FLIT"
    /\ UNCHANGED <<ib, rrem, raddr, mem0, mem1, intr, recvStatus>>

RecvWaits ==
    /\ \/ rstate \in {"WAIT_ADDR_FLIT", "WAIT_SIZE_FLIT"} /\ ib = << >>
       \/ rstate = "WAIT_PAYLOAD" /\ rrem > 0 /\ ib = << >>
       \/ rstate = "WAIT_CONFIG_STALL" /\ ~ RecvConfigures
       \/ rstate = "FLUSH" /\ ~ Flushed(progRecv)
    /\ UNCHANGED recvVars

Recv ==
    \/ RecvAddr \/ RecvSize \/ RecvPayload \/ RecvInterrupt
    \/ RecvConfig \/ RecvCopy \/ RecvRelease \/ RecvFlush \/ RecvWaits

\* The stall signal as recvProcess leaves it to sendProcess.
StallAfterRecv ==
    IF RecvConfigures THEN 1 ELSE IF RecvReleases THEN 0 ELSE stall

-----------------------------------------------------------------------------
(***************************************************************************)
(* sendProcess: one step of the sending state machine.  It runs after      *)
(* recvProcess, and reads the main memory recvProcess has left.            *)
(***************************************************************************)
SendConfigures == sstate = "WAIT_CONFIG_STALL" /\ progSend = 1
SendReleases   == sstate = "COPY_AND_RELEASE" /\ srem = 0

\* The status rises here, before the copy; "write data to the network, raise
\* _send_status" (TDmaNetif.h:51) is said of the state after it.
SendConfig ==
    /\ SendConfigures
    /\ sendStatus' = 1
    /\ saddr' = 0
    /\ ssize' = progSize
    /\ srem' = progSize
    /\ sstate' = "COPY_AND_RELEASE"
    /\ UNCHANGED <<ob, mem2, lastOut>>

SendCopy ==
    /\ sstate = "COPY_AND_RELEASE" /\ srem > 0
    /\ mem2' = Store(mem2, saddr, Load(mem0'[progAddr], saddr))
    /\ saddr' = saddr + 1
    /\ srem' = srem - 1
    /\ UNCHANGED <<ob, sstate, ssize, sendStatus, lastOut>>

\* "releases cpu, lower status and stall" (TDmaNetif.cpp:390): stall falls, see
\* StallAfter, and the status does not, until SendFlush.
SendRelease ==
    /\ SendReleases
    /\ srem' = ssize
    /\ saddr' = RestartAt(saddr)
    /\ sstate' = "SEND_DATA_TO_NOC"
    /\ UNCHANGED <<ob, ssize, mem2, sendStatus, lastOut>>

MutHasRoom(buffer) == TRUE
MutHasRoomForTwo(buffer) == Len(buffer) + 1 < Capacity
HasRoom(buffer) == Len(buffer) < Capacity

SendPush ==
    /\ sstate = "SEND_DATA_TO_NOC" /\ srem > 0
    /\ HasRoom(ob)
    /\ ob' = Append(ob, Load(mem2, saddr))
    /\ lastOut' = Load(mem2, saddr)
    /\ srem' = srem - 1
    /\ saddr' = saddr + 1
    /\ UNCHANGED <<sstate, ssize, mem2, sendStatus>>

SendDone ==
    /\ sstate = "SEND_DATA_TO_NOC" /\ srem = 0
    /\ sstate' = "FLUSH"
    /\ UNCHANGED <<ob, ssize, srem, saddr, mem2, sendStatus, lastOut>>

SendFlush ==
    /\ sstate = "FLUSH" /\ Flushed(progSend)
    /\ sendStatus' = 0
    /\ sstate' = "WAIT_CONFIG_STALL"
    /\ UNCHANGED <<ob, ssize, srem, saddr, mem2, lastOut>>

SendWaits ==
    /\ \/ sstate = "WAIT_CONFIG_STALL" /\ ~ SendConfigures
       \/ sstate = "SEND_DATA_TO_NOC" /\ srem > 0 /\ ~ HasRoom(ob)
       \/ sstate = "FLUSH" /\ ~ Flushed(progSend)
    /\ UNCHANGED sendVars

Send ==
    \/ SendConfig \/ SendCopy \/ SendRelease
    \/ SendPush \/ SendDone \/ SendFlush \/ SendWaits

MutStallAfter(s) == s
MutStallForEver(s) == IF SendConfigures THEN 1 ELSE s
StallAfter(s) == IF SendConfigures THEN 1 ELSE IF SendReleases THEN 0 ELSE s

\* UMemory::Write and Read with an address past the end of mem1 or mem2.
RecvStrays ==
    /\ \/ rstate = "WAIT_PAYLOAD" /\ ib # << >>
       \/ rstate = "COPY_RELEASE"
    /\ rrem > 0 /\ raddr \notin Slots

SendStrays ==
    /\ \/ sstate = "COPY_AND_RELEASE"
       \/ sstate = "SEND_DATA_TO_NOC" /\ HasRoom(ob)
    /\ srem > 0 /\ saddr \notin Slots

\* TDmaNetif::Run: one step of each, the second seeing what the first did.  After
\* an access past the memories anything may happen, and it goes no further.
Run ==
    /\ ~ stray
    /\ Recv
    /\ Send
    /\ stall' = StallAfter(StallAfterRecv)
    /\ rsize' = IF RecvConfigures THEN progSize ELSE rsize
    /\ stray' = (RecvStrays \/ SendStrays)
    /\ UNCHANGED <<cpuVars, lastIn>>

-----------------------------------------------------------------------------
(***************************************************************************)
(* The router at the other end of the buffers: it delivers whole packets,  *)
(* one after the other (Router!OutputLinksFramed), and takes flits.        *)
(***************************************************************************)
Arrive(f) ==
    /\ Len(ib) < Capacity
    /\ Follows(lastIn, f)
    /\ ib' = Append(ib, f)
    /\ lastIn' = f
    /\ UNCHANGED <<rstate, rrem, raddr, mem0, mem1, intr, recvStatus,
                   sendVars, cpuVars, stall, history>>

ArriveSome == \E f \in Flit : Arrive(f)

\* The flit in the middle of a packet: a packet that began arriving goes on.
ArriveRest == lastIn # Junk /\ ~ IsTail(lastIn) /\ ArriveSome

Depart ==
    /\ ob # << >>
    /\ ob' = Tail(ob)
    /\ UNCHANGED <<recvVars, sstate, ssize, srem, saddr, mem2, sendStatus, lastOut,
                   cpuVars, stall, lastIn, history>>

(***************************************************************************)
(* Any program: a store to one of the signals wired for the CPU to write.  *)
(* THellfireProcessor::Run executes nothing while stall is raised.         *)
(***************************************************************************)
AnyStore ==
    /\ stall = 0
    /\ \/ progSend' \in {0, 1} /\ UNCHANGED <<progRecv, progAddr, progSize>>
       \/ progRecv' \in {0, 1} /\ UNCHANGED <<progSend, progAddr, progSize>>
       \/ progAddr' \in Areas /\ UNCHANGED <<progSend, progRecv, progSize>>
       \/ progSize' \in ProgSizes /\ UNCHANGED <<progSend, progRecv, progAddr>>
    /\ UNCHANGED <<recvVars, sendVars, stall, lastIn, history>>

Next == Run \/ ArriveSome \/ Depart \/ AnyStore

Spec == Init /\ [][Next]_vars

\* The simulator runs the interface for ever; nobody else has to do anything.
FairSpec == Spec /\ WF_vars(Run)

-----------------------------------------------------------------------------
(***************************************************************************)
(* Properties that hold whatever the program does.                         *)
(***************************************************************************)
Bit == {0, 1}
Stored == Flit \cup {Junk}

TypeOK ==
    /\ ib \in Seq(Flit) /\ Len(ib) <= Capacity
    /\ ob \in Seq(Stored) /\ Len(ob) <= Capacity
    /\ rstate \in {"WAIT_ADDR_FLIT", "WAIT_SIZE_FLIT", "WAIT_PAYLOAD",
                   "WAIT_CONFIG_STALL", "COPY_RELEASE", "FLUSH"}
    /\ sstate \in {"WAIT_CONFIG_STALL", "COPY_AND_RELEASE", "SEND_DATA_TO_NOC", "FLUSH"}
    /\ mem0 \in [Areas -> [Slots -> Stored]]
    /\ mem1 \in [Slots -> Stored] /\ mem2 \in [Slots -> Stored]
    /\ rrem \in Nat /\ raddr \in Nat
    /\ srem \in Nat /\ saddr \in Nat /\ ssize \in Nat
    /\ stall \in Bit /\ intr \in Bit /\ sendStatus \in Bit /\ recvStatus \in Nat
    /\ progSend \in Bit /\ progRecv \in Bit
    /\ progAddr \in Areas /\ progSize \in Nat
    /\ lastIn \in Stored /\ lastOut \in Stored
    /\ rsize \in Nat /\ stray \in BOOLEAN

\* An access goes past the end of mem1 or mem2 only while a packet is received
\* that is larger than mem1, or in a copy that was asked for more than that: what
\* fits is safe whatever came before it, through the same pointers and counters
\* (TDmaNetif.cpp:244, 309, 418).  Sending to the router is never the first to.
OnlyOversizeStrays ==
    stray =>
        \/ rstate = "WAIT_PAYLOAD" /\ mem1[0].size + 2 > MemFlits
        \/ rstate = "COPY_RELEASE" /\ rsize > MemFlits
        \/ sstate = "COPY_AND_RELEASE" /\ ssize > MemFlits

\* The receiver never loses its place in the stream of flits: what is at the
\* head of the buffer is what the state expects (TDmaNetif.cpp:148-151, 183).
HeadExpected ==
    ib # << >> =>
        CASE rstate = "WAIT_ADDR_FLIT" -> Head(ib).pos = 0
          [] rstate = "WAIT_SIZE_FLIT" -> Head(ib).pos = 1
          [] rstate = "WAIT_PAYLOAD" -> IF rrem = 0 THEN Head(ib).pos = 0
                                        ELSE Head(ib).size + 2 - Head(ib).pos = rrem
          [] OTHER -> Head(ib).pos = 0

\* Until the CPU configures the copy, mem1 holds one whole packet and
\* recv_status its length; no flit of the next one overwrites it.
PacketHeld ==
    rstate = "WAIT_CONFIG_STALL" =>
        /\ recvStatus = mem1[0].size + 2
        /\ \A s \in 0 .. recvStatus - 1 : mem1[s] = [mem1[0] EXCEPT !.pos = s]
        /\ intr = 1

\* A copy between main memory and the interface is in progress.
Copying ==
    \/ rstate = "COPY_RELEASE" /\ rrem > 0
    \/ sstate = "COPY_AND_RELEASE" /\ srem > 0

\* "stalls cpu while copying from/to main memory" (TDmaNetif.h:81).
StallCoversCopies == Copying => stall = 1

\* The CPU is released whatever the program has written before it was stalled:
\* no send and receive begun together keep it, or each other, for ever.
CopiesEnd == (stall = 1) ~> (stall = 0 \/ stray)
=============================================================================

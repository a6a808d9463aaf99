---------------------------- MODULE NetifDriver ----------------------------
(***************************************************************************)
(* DmaNetif with a driver that keeps the handshake its states are written  *)
(* for (TDmaNetif.h:39-53, TDmaNetif.cpp:344-351, 456-473), since the      *)
(* software that runs on the CPU is not part of the repository:            *)
(*                                                                         *)
(*   send     fill a buffer; when send_status is 0, program its address    *)
(*            and size and raise prog_send; when send_status is 1, lower   *)
(*            it.  The buffer may be filled again at once.                 *)
(*   receive  on an interrupt, program the address and the size given in   *)
(*            recv_status and raise prog_recv; when the interrupt is gone, *)
(*            take the packet and lower prog_recv.                         *)
(*                                                                         *)
(* One is not begun before the signal of the other is lowered.             *)
(***************************************************************************)
EXTENDS DmaNetif

TX == "tx"
RX == "rx"
ASSUME AreasAssumption == Areas = {TX, RX}

\* The packets of the software fit the memories: nothing else would stop them
\* (DmaNetif!OnlyOversizeStrays).
ASSUME FitAssumption == \A n \in Sizes : n + 2 <= MemFlits

VARIABLES
    driver,         \* what the driver is doing
    filled,         \* the packet in the TX buffer
    sent,           \* the packet prog_send was last raised for
    taken           \* the packet the driver took last

dvars == <<driver, filled, sent, taken>>
allVars == <<vars, dvars>>

NoPacket == [pkt |-> PacketMod - 1, size |-> 0]
Packet(f) == [pkt |-> f.pkt, size |-> f.size]
Whole(p) == [s \in Slots |-> IF s <= p.size + 1
                             THEN [pkt |-> p.pkt, size |-> p.size, pos |-> s] ELSE Junk]
Following(p) == (p.pkt + 1) % PacketMod

DInit ==
    /\ Init
    /\ driver = "idle"
    /\ filled = NoPacket /\ sent = NoPacket /\ taken = NoPacket

Executes(from, to) == stall = 0 /\ driver = from /\ driver' = to

\* The program prepares the next packet in main memory.
Fill(size) ==
    /\ Executes("idle", "idle")
    /\ filled = sent
    /\ filled' = [pkt |-> Following(sent), size |-> size]
    /\ mem0' = [mem0 EXCEPT ![TX] = Whole(filled')]
    /\ UNCHANGED <<ib, rstate, rrem, raddr, mem1, intr, recvStatus,
                   sendVars, cpuVars, stall, lastIn, history, sent, taken>>

ProgramSend ==
    /\ Executes("idle", "sendProgrammed")
    /\ filled # sent
    /\ sendStatus = 0
    /\ progAddr' = TX /\ progSize' = filled.size + 2
    /\ UNCHANGED <<recvVars, sendVars, progSend, progRecv, stall, lastIn, history, filled, sent, taken>>

RaiseSend ==
    /\ Executes("sendProgrammed", "sendRaised")
    /\ progSend' = 1
    /\ sent' = filled
    /\ UNCHANGED <<recvVars, sendVars, progRecv, progAddr, progSize, stall, lastIn, history, filled, taken>>

LowerSend ==
    /\ Executes("sendRaised", "idle")
    /\ sendStatus = 1
    /\ progSend' = 0
    /\ UNCHANGED <<recvVars, sendVars, progRecv, progAddr, progSize, stall, lastIn, history,
                   filled, sent, taken>>

ProgramRecv ==
    /\ Executes("idle", "recvProgrammed")
    /\ intr = 1
    /\ progAddr' = RX /\ progSize' = recvStatus
    /\ UNCHANGED <<recvVars, sendVars, progSend, progRecv, stall, lastIn, history, filled, sent, taken>>

RaiseRecv ==
    /\ Executes("recvProgrammed", "recvRaised")
    /\ progRecv' = 1
    /\ UNCHANGED <<recvVars, sendVars, progSend, progAddr, progSize, stall, lastIn, history,
                   filled, sent, taken>>

TakePacket ==
    /\ Executes("recvRaised", "recvTaken")
    /\ intr = 0
    /\ taken' = Packet(mem0[RX][0])
    /\ UNCHANGED <<vars, filled, sent>>

LowerRecv ==
    /\ Executes("recvTaken", "idle")
    /\ progRecv' = 0
    /\ UNCHANGED <<recvVars, sendVars, progSend, progAddr, progSize, stall, lastIn, history,
                   filled, sent, taken>>

Serve ==
    \/ ProgramSend \/ RaiseSend \/ LowerSend
    \/ ProgramRecv \/ RaiseRecv \/ TakePacket \/ LowerRecv

Network == ArriveSome \/ Depart

DNext ==
    \/ Run /\ UNCHANGED dvars
    \/ Network /\ UNCHANGED dvars
    \/ \E n \in Sizes : Fill(n)
    \/ Serve

DSpec == DInit /\ [][DNext]_allVars

(***************************************************************************)
(* The simulator runs the interface and the CPU for ever; the router takes *)
(* flits (Router!PacketsComplete) and finishes the packets it delivers;    *)
(* the driver answers interrupts even if it keeps having packets to send.  *)
(***************************************************************************)
DFairSpec ==
    /\ DSpec
    /\ WF_allVars(Run /\ UNCHANGED dvars)
    /\ WF_allVars(Depart /\ UNCHANGED dvars)
    /\ WF_allVars(ArriveRest /\ UNCHANGED dvars)
    /\ WF_allVars(Serve)
    /\ SF_allVars(ProgramRecv)
    /\ SF_allVars(ProgramSend)

-----------------------------------------------------------------------------
(***************************************************************************)
(* Properties of the interface and its driver together.                    *)
(***************************************************************************)
\* The packet the driver takes from main memory is whole, and the one that
\* follows the packet it took before: none lost, repeated or overwritten,
\* although the network goes on delivering (TDmaNetif.cpp:146-361).
ReceivedWhole ==
    driver = "recvRaised" /\ intr = 0 =>
        /\ mem0[RX][0].pos = 0 /\ mem0[RX][0].pkt = Following(taken)
        /\ \A s \in 0 .. mem0[RX][0].size + 1 : mem0[RX][s] = [mem0[RX][0] EXCEPT !.pos = s]

\* What goes out to the router are the packets the driver committed, each once,
\* whole and in order, even if the driver refills its buffer meanwhile
\* (TDmaNetif.cpp:365-475).
SentOnce ==
    [][lastOut' # lastOut => Follows(lastOut, lastOut')]_allVars

\* A packet committed is sent to its end, however slow the router is
\* (TDmaNetif.cpp:391-461).
SendCompletes ==
    \A k \in 0 .. PacketMod - 1 :
        (driver = "sendRaised" /\ sent.pkt = k)
            ~> (lastOut.pkt = k /\ IsTail(lastOut))

\* A packet that has arrived gets to the driver.
ReceiveCompletes == (intr = 1) ~> (driver = "recvTaken")

\* The CPU is always released: a copy ends whatever the network does.
StallEnds == (stall = 1) ~> (stall = 0)
=============================================================================

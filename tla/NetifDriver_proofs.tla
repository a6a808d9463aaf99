------------------------- MODULE NetifDriver_proofs -------------------------
(***************************************************************************)
(* What the interface and a driver that keeps the handshake do together,   *)
(* for every capacity, size of the memories and set of packet sizes.  The  *)
(* invariant follows a packet on its way out (Prepared, Committed) and on  *)
(* its way in (Receiving, Numbers), and says which states of the driver    *)
(* and of the two state machines go together (Handshake).                  *)
(***************************************************************************)
EXTENDS NetifDriver, DmaNetif_proofs

\* The flit at position s of packet p.
FlitOf(p, s) == [pkt |-> p.pkt, size |-> p.size, pos |-> s]

DriverType ==
    /\ driver \in {"idle", "sendProgrammed", "sendRaised",
                   "recvProgrammed", "recvRaised", "recvTaken"}
    /\ filled = [pkt |-> filled.pkt, size |-> filled.size]
    /\ filled.pkt \in 0 .. PacketMod - 1 /\ filled.size \in Nat
    /\ sent.pkt \in 0 .. PacketMod - 1 /\ sent.size \in Nat
    /\ taken.pkt \in 0 .. PacketMod - 1

\* The driver's signals say what it is doing, and the CPU is stalled exactly
\* while one of the two processes copies.
Handshake ==
    /\ (progSend = 1) <=> (driver = "sendRaised")
    /\ (progRecv = 1) <=> (driver \in {"recvRaised", "recvTaken"})
    /\ (stall = 1) <=> (rstate = "COPY_RELEASE" \/ sstate = "COPY_AND_RELEASE")
    /\ rstate = "COPY_RELEASE" => driver = "recvRaised"
    /\ sstate = "COPY_AND_RELEASE" => driver = "sendRaised"
    /\ driver = "sendProgrammed" => sstate = "WAIT_CONFIG_STALL"
    /\ driver = "recvProgrammed" => rstate = "WAIT_CONFIG_STALL"
    /\ driver = "recvRaised" => rstate \in {"WAIT_CONFIG_STALL", "COPY_RELEASE", "FLUSH"}
    /\ driver = "recvTaken" => rstate = "FLUSH"
    /\ (intr = 1) <=> (rstate \in {"WAIT_CONFIG_STALL", "COPY_RELEASE"})

\* The packet prepared but not committed yet, if there is one.
Prepared ==
    filled # sent =>
        /\ filled.pkt = Following(sent) /\ filled.size \in Sizes
        /\ mem0[TX] = Whole(filled)

\* The send signals hold packet p, and it is in main memory.
Programmed(p) ==
    /\ progAddr = TX /\ progSize = p.size + 2
    /\ p.size \in Sizes /\ mem0[TX] = Whole(p)

\* The first flit of packet p is what comes next out of the interface.
Begins(p) == Follows(lastOut, FlitOf(p, 0))

\* mem2 holds the first n flits of the packet committed.
Copied(n) == \A s \in 0 .. n - 1 : mem2[s] = FlitOf(sent, s)

\* Where the packet committed is.
Committed ==
    /\ driver = "sendProgrammed" => filled # sent /\ Programmed(filled)
    /\ sstate = "WAIT_CONFIG_STALL" =>
          IF driver = "sendRaised" THEN Programmed(sent) /\ Begins(sent)
          ELSE \A n \in Nat : Follows(lastOut, [pkt |-> Following(sent), size |-> n, pos |-> 0])
    /\ sstate = "COPY_AND_RELEASE" =>
          /\ Programmed(sent) /\ Begins(sent)
          /\ ssize = sent.size + 2 /\ saddr + srem = ssize
          /\ Copied(saddr)
    /\ sstate = "SEND_DATA_TO_NOC" =>
          /\ ssize = sent.size + 2 /\ saddr + srem = ssize /\ ssize <= MemFlits
          /\ Copied(ssize)
          /\ IF saddr = 0 THEN Begins(sent) ELSE lastOut = FlitOf(sent, saddr - 1)
    /\ sstate = "FLUSH" => lastOut = FlitOf(sent, sent.size + 1)

\* Main memory holds the first n flits of the packet in mem1.
Fetched(n) == \A s \in 0 .. n - 1 : mem0[RX][s] = PacketAt(s)

\* mem1 holds the packet after the one taken last, until it is taken.
Receiving ==
    /\ rstate \in {"WAIT_SIZE_FLIT", "WAIT_PAYLOAD", "WAIT_CONFIG_STALL", "COPY_RELEASE"}
          => mem1[0].pkt = Following(taken)
    /\ rstate = "WAIT_CONFIG_STALL" /\ driver \in {"recvProgrammed", "recvRaised"} =>
          progAddr = RX /\ progSize = recvStatus
    /\ rstate = "COPY_RELEASE" =>
          /\ progAddr = RX /\ mem1[0] \in Flit /\ raddr + rrem = mem1[0].size + 2
          /\ \A s \in 0 .. mem1[0].size + 1 : mem1[s] = PacketAt(s)
          /\ Fetched(raddr)
    /\ rstate = "FLUSH" =>
          /\ mem1[0] \in Flit
          /\ IF driver = "recvRaised"
             THEN mem1[0].pkt = Following(taken) /\ Fetched(mem1[0].size + 2)
             ELSE mem1[0].pkt = taken.pkt

\* The number of the packet whose first flit comes next.
Numbered(f) ==
    f.pos = 0 => f.pkt = IF rstate = "WAIT_ADDR_FLIT" THEN Following(taken)
                         ELSE Following(mem1[0])

Numbers ==
    /\ ib = << >> => \A f \in Flit : Follows(lastIn, f) => Numbered(f)
    /\ ib # << >> => Numbered(ib[1])

DIInv ==
    /\ IInv
    /\ DriverType /\ Handshake
    /\ Prepared /\ Committed
    /\ Receiving /\ Numbers

-----------------------------------------------------------------------------
LEMMA FollowingFacts ==
    ASSUME NEW p, p.pkt \in 0 .. PacketMod - 1
    PROVE  Following(p) \in 0 .. PacketMod - 1
  BY PacketModAssumption DEF Following

LEMMA NoPacketFacts ==
    /\ NoPacket.pkt \in 0 .. PacketMod - 1 /\ NoPacket.size = 0
    /\ Following(NoPacket) = 0
<1>1. PacketMod \in Nat /\ PacketMod > 0
  BY PacketModAssumption
<1>2. (PacketMod - 1) + 1 = PacketMod /\ PacketMod % PacketMod = 0
  BY <1>1
<1> QED
  BY <1>1, <1>2 DEF NoPacket, Following

\* How one flit of a packet follows another, and one packet another.
LEMMA FlitOfFacts ==
    ASSUME NEW p, p.pkt \in 0 .. PacketMod - 1, p.size \in Nat, NEW s \in Nat
    PROVE  /\ s # p.size + 1 => Follows(FlitOf(p, s), FlitOf(p, s + 1))
           /\ \A n \in Nat : Follows(FlitOf(p, p.size + 1),
                                     [pkt |-> Following(p), size |-> n, pos |-> 0])
<1>1. \A t \in Nat : FlitOf(p, t) # Junk
  BY DEF FlitOf, Junk
<1>2. [FlitOf(p, s) EXCEPT !.pos = @ + 1] = FlitOf(p, s + 1)
  BY DEF FlitOf
<1>3. FlitOf(p, s).pos = s /\ FlitOf(p, s).size = p.size
  BY DEF FlitOf
<1>4. s # p.size + 1 => Follows(FlitOf(p, s), FlitOf(p, s + 1))
  BY <1>1, <1>2, <1>3 DEF Follows, IsTail
<1>5. p.size + 1 \in Nat
  OBVIOUS
<1>6. \A n \in Nat : Follows(FlitOf(p, p.size + 1),
                              [pkt |-> Following(p), size |-> n, pos |-> 0])
  <2>1. FlitOf(p, p.size + 1) # Junk /\ IsTail(FlitOf(p, p.size + 1))
    BY <1>1, <1>5 DEF FlitOf, IsTail
  <2>2. FlitOf(p, p.size + 1).pkt = p.pkt
    BY DEF FlitOf
  <2> QED
    BY <2>1, <2>2 DEF Follows, Following
<1> QED
  BY <1>4, <1>6

\* What a whole packet in memory looks like.
LEMMA WholeFacts ==
    ASSUME NEW p, p.pkt \in 0 .. PacketMod - 1, p.size \in Sizes
    PROVE  /\ p.size \in Nat /\ p.size + 2 <= MemFlits
           /\ Whole(p) \in [Slots -> Stored]
           /\ \A s \in 0 .. p.size + 1 : s \in Slots /\ Whole(p)[s] = FlitOf(p, s)
<1>1. p.size \in Nat /\ p.size + 2 <= MemFlits /\ MemFlits \in Nat
  BY SizesAssumption, FitAssumption
<1>2. \A s \in 0 .. p.size + 1 : [pkt |-> p.pkt, size |-> p.size, pos |-> s] \in Flit
  BY <1>1 DEF Flit
<1>3. Whole(p) \in [Slots -> Stored]
  <2>1. \A s \in Slots : s <= p.size + 1 => s \in 0 .. p.size + 1
    BY <1>1 DEF Slots
  <2> QED
    BY <1>2, <2>1 DEF Whole, Stored
<1>4. \A s \in 0 .. p.size + 1 : s \in Slots /\ s <= p.size + 1
  BY <1>1 DEF Slots
<1> QED
  BY <1>1, <1>3, <1>4 DEF Whole, FlitOf

\* A packet of the network fits as well.
LEMMA FitFacts ==
    ASSUME NEW f \in Flit
    PROVE  /\ f.size \in Nat /\ f.size + 2 <= MemFlits /\ MemFlits \in Nat
           /\ \A s \in 0 .. f.size + 1 : s \in Slots
<1>1. f.size \in Nat /\ f.size + 2 <= MemFlits /\ MemFlits \in Nat
  BY FlitFacts, SizesAssumption, FitAssumption
<1> QED
  BY <1>1 DEF Slots

-----------------------------------------------------------------------------
\* The invariant's parts, as the step lemmas use them.
LEMMA DIInvFacts ==
    ASSUME DIInv
    PROVE  /\ RecvInv /\ SendInv /\ CpuType
           /\ RecvType /\ Progress /\ Stream /\ SendType /\ Sending /\ Passes
           /\ DriverType /\ Handshake /\ Prepared /\ Committed
           /\ Receiving /\ Numbers
           /\ rrem \in Nat /\ raddr \in Nat /\ srem \in Nat /\ saddr \in Nat
  BY DEF DIInv, IInv, RecvInv, SendInv, RecvType, SendType

\* A step of the receiver leaves the buffer the driver sends from alone.
LEMMA RecvMainMemory ==
    ASSUME DIInv, Recv
    PROVE  /\ mem0' \in [Areas -> [Slots -> Stored]]
           /\ mem0'[TX] = mem0[TX]
           /\ rstate # "COPY_RELEASE" => mem0' = mem0
<1>1. RecvType /\ Handshake /\ Receiving /\ CpuType
  BY DIInvFacts
<1>2. CASE RecvCopy
  <2>1. rstate = "COPY_RELEASE" /\ progAddr = RX /\ RX # TX
    BY <1>1, <1>2 DEF RecvCopy, Receiving, TX, RX
  <2>2. Load(mem1, raddr) \in Stored /\ mem0[RX] \in [Slots -> Stored]
    BY <1>1, AreasAssumption DEF RecvType, Load, Stored
  <2>3. Store(mem0[RX], raddr, Load(mem1, raddr)) \in [Slots -> Stored]
    BY <2>2, MemoryFacts
  <2>4. mem0' = [mem0 EXCEPT ![RX] = Store(mem0[RX], raddr, Load(mem1, raddr))]
    BY <1>2, <2>1 DEF RecvCopy
  <2> QED
    BY <1>1, <2>1, <2>3, <2>4, AreasAssumption DEF RecvType
<1>3. CASE ~ RecvCopy
  BY <1>1, <1>3 DEF Recv, RecvAddr, RecvSize, RecvPayload, RecvInterrupt, RecvConfig,
     RecvRelease, RecvFlush, RecvWaits, recvVars, RecvType
<1> QED
  BY <1>2, <1>3

\* Run keeps the driver's signals and states in step with the interface's.
LEMMA RunHandshake ==
    ASSUME DIInv, Run, UNCHANGED dvars
    PROVE  Handshake'
<1>1. /\ RecvType /\ SendType /\ CpuType /\ Handshake /\ Progress
      /\ Recv /\ Send /\ stall' = StallAfter(StallAfterRecv)
      /\ UNCHANGED <<progSend, progRecv, progAddr, progSize, driver>>
  BY DIInvFacts DEF Run, cpuVars, dvars
<1>2. /\ rstate' = "COPY_RELEASE" <=>
            (RecvConfigures \/ (rstate = "COPY_RELEASE" /\ ~ RecvReleases))
      /\ rstate \in {"WAIT_CONFIG_STALL", "COPY_RELEASE"}
            => \/ rstate' \in {"WAIT_CONFIG_STALL", "COPY_RELEASE"}
               \/ RecvReleases /\ rstate' = "FLUSH"
      /\ rstate = "FLUSH" => rstate' = "FLUSH" \/ progRecv = 0
      /\ rstate = "WAIT_CONFIG_STALL" => RecvConfigures \/ rstate' = rstate
  <2>1. rrem \in Nat /\ Recv
    BY <1>1 DEF RecvType
  <2>2. CASE RecvWaits
    BY <2>1, <2>2 DEF RecvWaits, recvVars, RecvConfigures, RecvReleases, Flushed
  <2>3. CASE ~ RecvWaits
    BY <2>1, <2>3 DEF Recv, RecvAddr, RecvSize, RecvPayload, RecvInterrupt, RecvConfig,
       RecvCopy, RecvRelease, RecvFlush, RecvConfigures, RecvReleases, Flushed
  <2> QED
    BY <2>2, <2>3
<1>5. (intr' = 1) <=> (rstate' \in {"WAIT_CONFIG_STALL", "COPY_RELEASE"})
  <2>1. (intr = 1) <=> (rstate \in {"WAIT_CONFIG_STALL", "COPY_RELEASE"})
    BY <1>1 DEF Handshake
  <2> QED
    BY <1>1, <2>1 DEF Recv, RecvAddr, RecvSize, RecvPayload, RecvInterrupt, RecvConfig,
       RecvCopy, RecvRelease, RecvFlush, RecvWaits, recvVars, RecvConfigures, RecvReleases
<1>3. /\ sstate' = "COPY_AND_RELEASE" <=>
            (SendConfigures \/ (sstate = "COPY_AND_RELEASE" /\ ~ SendReleases))
      /\ sstate = "WAIT_CONFIG_STALL" => SendConfigures \/ sstate' = sstate
    BY <1>1 DEF Send, SendConfig, SendCopy, SendRelease, SendPush, SendDone,
       SendFlush, SendWaits, sendVars, SendConfigures, SendReleases, SendType
<1>4. (stall' = 1) <=> (rstate' = "COPY_RELEASE" \/ sstate' = "COPY_AND_RELEASE")
  BY <1>1, <1>2, <1>3 DEF StallAfter, StallAfterRecv, RecvConfigures, RecvReleases,
     SendConfigures, SendReleases, Handshake
<1> QED
  BY <1>1, <1>2, <1>3, <1>4, <1>5 DEF Handshake, RecvConfigures, RecvReleases,
     SendConfigures, SendReleases, CpuType, Bit

\* The packet committed on its way through mem2 to the router.
LEMMA RunCommitted ==
    ASSUME DIInv, Run, UNCHANGED dvars
    PROVE  Prepared' /\ Committed'
<1>1. /\ RecvType /\ SendType /\ Sending /\ CpuType /\ DriverType
      /\ Handshake /\ Prepared /\ Committed
      /\ srem \in Nat /\ saddr \in Nat
  BY DIInvFacts
<1>2. /\ Send /\ Recv
      /\ UNCHANGED <<progSend, progRecv, progAddr, progSize, driver, filled, sent, taken>>
  BY DEF Run, cpuVars, dvars
<1>3. mem0'[TX] = mem0[TX] /\ mem0' \in [Areas -> [Slots -> Stored]]
  BY <1>2, RecvMainMemory
<1>4. /\ sent.pkt \in 0 .. PacketMod - 1 /\ sent.size \in Nat
      /\ Following(sent)' = Following(sent)
  BY <1>1, <1>2 DEF DriverType, Following
<1>5. /\ Prepared'
      /\ Programmed(sent) => Programmed(sent)'
      /\ Programmed(filled) => Programmed(filled)'
  BY <1>1, <1>2, <1>3 DEF Prepared, Programmed, Whole, Following
<1>6. CASE SendConfig
  <2>1. /\ sstate = "WAIT_CONFIG_STALL" /\ progSend = 1 /\ driver = "sendRaised"
        /\ sstate' = "COPY_AND_RELEASE" /\ saddr' = 0
        /\ ssize' = progSize /\ srem' = progSize /\ UNCHANGED <<mem2, lastOut>>
    BY <1>1, <1>6 DEF SendConfig, SendConfigures, Handshake
  <2>2. Programmed(sent) /\ Begins(sent)
    BY <1>1, <2>1 DEF Committed
  <2> QED
    BY <1>2, <1>4, <1>5, <2>1, <2>2 DEF Committed, Programmed, Begins, Copied, FlitOf
<1>7. CASE SendCopy
  <2>1. /\ sstate = "COPY_AND_RELEASE" /\ srem > 0 /\ driver = "sendRaised"
        /\ mem2' = Store(mem2, saddr, Load(mem0'[progAddr], saddr))
        /\ saddr' = saddr + 1 /\ srem' = srem - 1
        /\ UNCHANGED <<sstate, ssize, lastOut>>
    BY <1>1, <1>7 DEF SendCopy, Handshake
  <2>2. /\ Programmed(sent) /\ Begins(sent) /\ sent.size \in Sizes
        /\ ssize = sent.size + 2 /\ saddr + srem = ssize
        /\ Copied(saddr) /\ progAddr = TX /\ mem0'[TX] = Whole(sent)
    BY <1>1, <1>3, <2>1 DEF Committed, Programmed
  <2>3. saddr \in 0 .. sent.size + 1
    BY <1>1, <1>4, <2>1, <2>2
  <2>4. saddr \in Slots /\ Load(mem0'[progAddr], saddr) = FlitOf(sent, saddr)
    BY <1>4, <2>2, <2>3, WholeFacts DEF Load
  <2>5. FlitOf(sent, saddr) \in Stored
    BY <1>4, <2>2, <2>3, WholeFacts
  <2>6. Copied(saddr)'
    <3>1. \A s \in 0 .. saddr - 1 : s \in Slots \ {saddr}
      BY <1>4, <2>2, <2>3, WholeFacts
    <3>2. /\ mem2'[saddr] = FlitOf(sent, saddr)
          /\ \A s \in 0 .. saddr - 1 : mem2'[s] = mem2[s]
      BY <1>1, <2>1, <2>4, <2>5, <3>1, MemoryFacts DEF SendType
    <3>3. \A s \in 0 .. saddr' - 1 : s = saddr \/ s \in 0 .. saddr - 1
      BY <1>1, <2>1
    <3>4. \A s \in 0 .. saddr' - 1 : mem2'[s] = FlitOf(sent, s)
      BY <2>2, <3>2, <3>3 DEF Copied
    <3> QED
      BY <1>2, <3>4 DEF Copied, FlitOf
  <2> QED
    BY <1>1, <1>2, <1>4, <1>5, <2>1, <2>2, <2>6 DEF Committed, Begins, FlitOf
<1>8. CASE SendRelease
  <2>1. /\ sstate = "COPY_AND_RELEASE" /\ srem = 0 /\ driver = "sendRaised"
        /\ sstate' = "SEND_DATA_TO_NOC" /\ srem' = ssize /\ saddr' = 0
        /\ UNCHANGED <<ssize, mem2, lastOut>>
    BY <1>1, <1>8 DEF SendRelease, SendReleases, RestartAt, Handshake
  <2>2. /\ Begins(sent) /\ sent.size \in Sizes
        /\ ssize = sent.size + 2 /\ saddr + srem = ssize /\ Copied(saddr)
    BY <1>1, <2>1 DEF Committed, Programmed
  <2>3. saddr = ssize /\ ssize <= MemFlits /\ ssize \in Nat
    BY <1>1, <1>4, <2>1, <2>2, WholeFacts
  <2>4. Copied(ssize)'
    BY <1>2, <2>1, <2>2, <2>3 DEF Copied, FlitOf
  <2> QED
    BY <1>2, <1>4, <1>5, <2>1, <2>2, <2>3, <2>4 DEF Committed, Begins, FlitOf
<1>9. CASE SendPush
  <2>1. /\ sstate = "SEND_DATA_TO_NOC" /\ srem > 0
        /\ lastOut' = Load(mem2, saddr) /\ saddr' = saddr + 1 /\ srem' = srem - 1
        /\ UNCHANGED <<sstate, ssize, mem2>>
    BY <1>9 DEF SendPush
  <2>2. /\ ssize = sent.size + 2 /\ saddr + srem = ssize /\ ssize <= MemFlits
        /\ Copied(ssize)
    BY <1>1, <2>1 DEF Committed
  <2>3. lastOut' = FlitOf(sent, saddr)
    <3>1. saddr \in 0 .. ssize - 1 /\ saddr \in Slots
      BY <1>1, <1>4, <2>1, <2>2, SizesAssumption DEF Slots
    <3> QED
      BY <1>1, <2>1, <2>2, <3>1 DEF Copied, Load, SendType
  <2>4. Copied(ssize)'
    BY <1>2, <2>1, <2>2 DEF Copied, FlitOf
  <2>5. saddr' # 0 /\ saddr' - 1 = saddr /\ saddr' + srem' = ssize
    BY <1>1, <1>4, <2>1, <2>2
  <2>6. driver # "sendProgrammed" /\ driver' = driver
    BY <1>1, <1>2, <2>1 DEF Handshake
  <2> QED
    BY <1>2, <1>5, <2>1, <2>2, <2>3, <2>4, <2>5, <2>6 DEF Committed, FlitOf
<1>10. CASE SendDone
  <2>1. /\ sstate = "SEND_DATA_TO_NOC" /\ srem = 0 /\ sstate' = "FLUSH"
        /\ lastOut' = lastOut
    BY <1>10 DEF SendDone
  <2>2. /\ saddr = sent.size + 2 /\ saddr # 0
        /\ lastOut = FlitOf(sent, saddr - 1)
    BY <1>1, <1>4, <2>1 DEF Committed
  <2>3. saddr - 1 = sent.size + 1
    BY <1>4, <2>2
  <2>4. driver # "sendProgrammed" /\ driver' = driver
    BY <1>1, <1>2, <2>1 DEF Handshake
  <2> QED
    BY <1>2, <1>5, <2>1, <2>2, <2>3, <2>4 DEF Committed, FlitOf
<1>11. CASE SendFlush
  <2>1. /\ sstate = "FLUSH" /\ sstate' = "WAIT_CONFIG_STALL" /\ lastOut' = lastOut
        /\ driver # "sendRaised" /\ driver # "sendProgrammed" /\ driver' = driver
    BY <1>1, <1>2, <1>11 DEF SendFlush, Flushed, Handshake
  <2>2. lastOut = FlitOf(sent, sent.size + 1)
    BY <1>1, <2>1 DEF Committed
  <2>3. \A n \in Nat : Follows(lastOut, [pkt |-> Following(sent), size |-> n, pos |-> 0])
    BY <1>4, <2>2, FlitOfFacts
  <2> QED
    BY <1>2, <1>4, <1>5, <2>1, <2>3 DEF Committed
<1>12. CASE SendWaits
  <2>1. UNCHANGED <<sstate, ssize, srem, saddr, mem2, lastOut>>
    BY <1>12 DEF SendWaits, sendVars
  <2> QED
    BY <1>1, <1>2, <1>4, <1>5, <2>1 DEF Committed, Copied, Begins, FlitOf
<1> QED
  BY <1>2, <1>6, <1>7, <1>8, <1>9, <1>10, <1>11, <1>12 DEF Send

\* The flit at the head of the buffer is the one expected.
LEMMA HeadFacts ==
    ASSUME DIInv, ib # << >>
    PROVE  /\ ib[1] \in Flit /\ ib[1] \in Stored /\ Head(ib) = ib[1]
           /\ Expected(ib[1]) /\ Numbered(ib[1])
<1>1. RecvType /\ Stream /\ Numbers
  BY DIInvFacts
<1> QED
  BY <1>1, ElementOfSeq, EmptySeq, LenProperties DEF RecvType, Stored, Stream, Numbers

\* The flit after the last one of a packet is the first of the packet after.
LEMMA FollowsNumber ==
    ASSUME NEW f \in Flit, NEW g \in Flit, Follows(f, g), f.pos = f.size + 1
    PROVE  g.pkt = Following(f)
  BY FlitFacts DEF Follows, IsTail, Following

\* The packet received on its way through mem1 to main memory.
LEMMA RunReceiving ==
    ASSUME DIInv, Run, UNCHANGED dvars
    PROVE  Receiving'
<1>1. /\ RecvType /\ Progress /\ CpuType /\ Handshake /\ Receiving
      /\ rrem \in Nat /\ raddr \in Nat /\ MemFlits \in Nat
  BY DIInvFacts, SizesAssumption
<1>2. /\ Recv /\ UNCHANGED <<progSend, progRecv, progAddr, progSize, driver, taken>>
      /\ Following(taken)' = Following(taken)
  BY DEF Run, cpuVars, dvars, Following
<1>3. CASE RecvAddr
  <2>1. /\ rstate = "WAIT_ADDR_FLIT" /\ rstate' = "WAIT_SIZE_FLIT"
        /\ ib # << >> /\ mem1' = Store(mem1, 0, ib[1])
    BY <1>3, HeadFacts DEF RecvAddr
  <2>2. ib[1] \in Flit /\ ib[1] \in Stored /\ ib[1].pkt = Following(taken)
    BY <2>1, HeadFacts DEF Expected, Numbered
  <2>3. 0 \in Slots
    BY SizesAssumption DEF Slots
  <2>4. mem1'[0] = ib[1]
    BY <1>1, <2>1, <2>2, <2>3, MemoryFacts DEF RecvType
  <2> QED
    BY <1>2, <2>1, <2>2, <2>4 DEF Receiving
<1>4. CASE RecvSize \/ RecvPayload
  <2>1. /\ ib # << >> /\ mem1' = Store(mem1, raddr, ib[1])
        /\ rstate \in {"WAIT_SIZE_FLIT", "WAIT_PAYLOAD"} /\ rstate' = "WAIT_PAYLOAD"
    BY <1>4, HeadFacts DEF RecvSize, RecvPayload
  <2>2. raddr # 0 /\ mem1[0] \in Flit
    BY <1>1, <2>1 DEF Progress
  <2>3. 0 \in Slots \ {raddr}
    BY <2>2, SizesAssumption DEF Slots
  <2>4. mem1'[0] = mem1[0]
    BY <1>1, <2>1, <2>3, HeadFacts, MemoryFacts DEF RecvType
  <2> QED
    BY <1>1, <1>2, <2>1, <2>4 DEF Receiving
<1>5. CASE RecvInterrupt
  BY <1>1, <1>2, <1>5 DEF RecvInterrupt, Receiving, Handshake
<1>6. CASE RecvConfig
  <2>1. /\ rstate = "WAIT_CONFIG_STALL" /\ rstate' = "COPY_RELEASE"
        /\ driver = "recvRaised" /\ rrem' = progSize /\ raddr' = 0
        /\ UNCHANGED <<mem0, mem1>>
    BY <1>1, <1>6 DEF RecvConfig, RecvConfigures, RestartAt, Handshake
  <2>2. /\ progAddr = RX /\ progSize = recvStatus
        /\ mem1[0].pkt = Following(taken)
    BY <1>1, <2>1 DEF Receiving
  <2>3. /\ mem1[0] \in Flit /\ recvStatus = mem1[0].size + 2 /\ raddr = recvStatus
        /\ \A s \in 0 .. mem1[0].size + 1 : mem1[s] = PacketAt(s)
    <3>1. /\ mem1[0] \in Flit /\ recvStatus = mem1[0].size + 2 /\ raddr = recvStatus
          /\ \A s \in Slots : s < raddr => mem1[s] = PacketAt(s)
      BY <1>1, <2>1 DEF Progress
    <3>2. \A s \in 0 .. mem1[0].size + 1 : s \in Slots /\ s < raddr
      BY <3>1, FitFacts
    <3> QED
      BY <3>1, <3>2
  <2>4. 0 + progSize = mem1[0].size + 2
    BY <2>2, <2>3, FlitFacts
  <2>5. \A s : PacketAt(s)' = PacketAt(s)
    BY <2>1 DEF PacketAt
  <2>6. Fetched(raddr)'
    BY <2>1 DEF Fetched
  <2> QED
    BY <1>2, <2>1, <2>2, <2>3, <2>4, <2>5, <2>6 DEF Receiving
<1>7. CASE RecvCopy
  <2>1. /\ rstate = "COPY_RELEASE" /\ rrem > 0 /\ raddr' = raddr + 1 /\ rrem' = rrem - 1
        /\ mem0' = [mem0 EXCEPT ![progAddr] = Store(@, raddr, Load(mem1, raddr))]
        /\ UNCHANGED <<rstate, mem1>>
    BY <1>7 DEF RecvCopy
  <2>2. /\ progAddr = RX /\ mem1[0] \in Flit /\ raddr + rrem = mem1[0].size + 2
        /\ \A s \in 0 .. mem1[0].size + 1 : mem1[s] = PacketAt(s)
        /\ Fetched(raddr) /\ mem1[0].pkt = Following(taken)
    BY <1>1, <2>1 DEF Receiving
  <2>3. /\ raddr \in 0 .. mem1[0].size + 1 /\ raddr \in Slots
        /\ \A s \in 0 .. raddr - 1 : s \in Slots \ {raddr}
    BY <1>1, <2>1, <2>2, FitFacts DEF Slots
  <2>4. Load(mem1, raddr) = PacketAt(raddr) /\ PacketAt(raddr) \in Stored
    BY <1>1, <2>2, <2>3 DEF RecvType, Load
  <2>5. /\ mem0[RX] \in [Slots -> Stored]
        /\ mem0'[RX] = Store(mem0[RX], raddr, PacketAt(raddr))
    BY <1>1, <2>1, <2>2, <2>4, AreasAssumption DEF RecvType
  <2>6. /\ mem0'[RX][raddr] = PacketAt(raddr)
        /\ \A s \in 0 .. raddr - 1 : mem0'[RX][s] = mem0[RX][s]
    BY <2>3, <2>4, <2>5, MemoryFacts
  <2>7. \A s : PacketAt(s)' = PacketAt(s)
    BY <2>1 DEF PacketAt
  <2>8. \A s \in 0 .. raddr' - 1 : s = raddr \/ s \in 0 .. raddr - 1
    BY <1>1, <2>1
  <2>9. Fetched(raddr)'
    BY <2>2, <2>6, <2>7, <2>8 DEF Fetched
  <2>10. raddr' + rrem' = mem1[0].size + 2
    BY <1>1, <2>1, <2>2, FlitFacts
  <2> QED
    BY <1>2, <2>1, <2>2, <2>7, <2>9, <2>10 DEF Receiving
<1>8. CASE RecvRelease
  <2>1. /\ rstate = "COPY_RELEASE" /\ rrem = 0 /\ rstate' = "FLUSH"
        /\ driver = "recvRaised" /\ UNCHANGED <<mem0, mem1>>
    BY <1>1, <1>8 DEF RecvRelease, RecvReleases, Handshake
  <2>2. /\ mem1[0] \in Flit /\ raddr = mem1[0].size + 2
        /\ Fetched(raddr) /\ mem1[0].pkt = Following(taken)
    BY <1>1, <2>1 DEF Receiving
  <2>3. Fetched(mem1[0].size + 2)'
    BY <2>1, <2>2 DEF Fetched, PacketAt
  <2> QED
    BY <1>2, <2>1, <2>2, <2>3 DEF Receiving
<1>9. CASE RecvFlush
  BY <1>9 DEF RecvFlush, Receiving
<1>10. CASE RecvWaits
  <2>1. UNCHANGED <<rstate, rrem, raddr, mem0, mem1, recvStatus>>
    BY <1>10 DEF RecvWaits, recvVars
  <2> QED
    BY <1>1, <1>2, <2>1 DEF Receiving, Fetched, PacketAt
<1> QED
  BY <1>2, <1>3, <1>4, <1>5, <1>6, <1>7, <1>8, <1>9, <1>10 DEF Recv

\* A flit leaves the buffer, and what follows it has the right number.
LEMMA TakeNumbered ==
    ASSUME DIInv, ib # << >>, ib' = Tail(ib), UNCHANGED lastIn,
           \A f \in Flit : Follows(ib[1], f) => Numbered(f)'
    PROVE  Numbers'
<1>1. RecvType /\ Stream
  BY DIInvFacts
<1>2. /\ ib' \in Seq(Flit) /\ Len(ib') = Len(ib) - 1
      /\ \A i \in 1 .. Len(ib) - 1 : ib'[i] = ib[i + 1]
      /\ Len(ib) \in Nat /\ Len(ib) # 0
  BY <1>1, HeadTailProperties, EmptySeq, LenProperties DEF RecvType
<1>3. CASE Len(ib) = 1
  <2>1. ib' = << >> /\ lastIn' = ib[1]
    BY <1>1, <1>2, <1>3, EmptySeq DEF Stream
  <2> QED
    BY <2>1 DEF Numbers
<1>4. CASE Len(ib) # 1
  <2>1. 1 \in 1 .. Len(ib) - 1 /\ 2 \in 1 .. Len(ib)
    BY <1>2, <1>4
  <2>2. ib' # << >>
    <3>1. Len(ib') # 0
      BY <1>2, <1>4
    <3> QED
      BY <3>1, EmptySeq
  <2>3. ib'[1] = ib[2] /\ ib[2] \in Flit /\ Follows(ib[1], ib[2])
    BY <1>1, <1>2, <2>1, ElementOfSeq DEF Stream, RecvType
  <2>4. Numbered(ib[1])'
    BY <2>3
  <2> QED
    BY <2>2, <2>4 DEF Numbers
<1> QED
  BY <1>3, <1>4

\* Packets are numbered one after the other at the interface, too.
LEMMA RunNumbers ==
    ASSUME DIInv, Run, UNCHANGED dvars
    PROVE  Numbers'
<1>1. /\ RecvType /\ Progress /\ Handshake /\ Receiving /\ Numbers
      /\ rrem \in Nat /\ raddr \in Nat /\ MemFlits \in Nat
  BY DIInvFacts, SizesAssumption
<1>2. Recv /\ UNCHANGED <<progRecv, driver, taken, lastIn>>
  BY DEF Run, cpuVars, dvars
<1>3. CASE RecvAddr
  <2>1. rstate = "WAIT_ADDR_FLIT" /\ ib # << >> /\ ib' = Tail(ib)
    BY <1>3 DEF RecvAddr
  <2>2. ib[1] \in Flit /\ ib[1].pos = 0
    BY <2>1, HeadFacts DEF Expected
  <2>3. \A f \in Flit : Follows(ib[1], f) => f.pos # 0
    BY <2>2, FlitFacts, FollowsFacts
  <2>4. \A f \in Flit : Follows(ib[1], f) => Numbered(f)'
    BY <2>3 DEF Numbered
  <2> QED
    BY <1>2, <2>1, <2>4, TakeNumbered
<1>4. CASE RecvSize \/ RecvPayload
  <2>1. /\ ib # << >> /\ ib' = Tail(ib) /\ mem1' = Store(mem1, raddr, ib[1])
        /\ rstate' = "WAIT_PAYLOAD"
        /\ rstate = "WAIT_SIZE_FLIT" \/ (rstate = "WAIT_PAYLOAD" /\ rrem > 0)
    BY <1>4, HeadFacts DEF RecvSize, RecvPayload
  <2>2. mem1[0] \in Flit /\ raddr # 0 /\ (rstate = "WAIT_SIZE_FLIT" => raddr = 1)
    BY <1>1, <2>1 DEF Progress
  <2>3. 0 \in Slots \ {raddr}
    BY <2>2, SizesAssumption DEF Slots
  <2>4. mem1'[0] = mem1[0]
    BY <1>1, <2>1, <2>3, HeadFacts, MemoryFacts DEF RecvType
  <2>5. ib[1] \in Flit /\ ib[1] = PacketAt(raddr)
    BY <2>1, <2>2, HeadFacts DEF Expected
  <2>6. ib[1].pkt = mem1[0].pkt /\ ib[1].pos = raddr
    BY <2>5 DEF PacketAt
  <2>7. ASSUME NEW f \in Flit, Follows(ib[1], f)
        PROVE  Numbered(f)'
    <3>1. CASE ib[1].pos = ib[1].size + 1
      <4>1. f.pkt = Following(ib[1])
        BY <2>5, <2>7, <3>1, FollowsNumber
      <4>2. Following(ib[1]) = Following(mem1'[0])
        BY <2>4, <2>6 DEF Following
      <4> QED
        BY <2>1, <4>1, <4>2 DEF Numbered, Following
    <3>2. CASE ib[1].pos # ib[1].size + 1
      <4>1. f.pos # 0
        BY <1>1, <2>5, <2>6, <2>7, <3>2, FollowsFacts
      <4> QED
        BY <4>1 DEF Numbered
    <3> QED
      BY <3>1, <3>2
  <2> QED
    BY <1>2, <2>1, <2>7, TakeNumbered
<1>5. CASE ~ (RecvAddr \/ RecvSize \/ RecvPayload)
  <2>1. UNCHANGED <<ib, mem1>>
    BY <1>2, <1>5 DEF Recv, RecvInterrupt, RecvConfig, RecvCopy, RecvRelease,
                      RecvFlush, RecvWaits, recvVars
  <2>2. \A f : Numbered(f) => Numbered(f)'
    <3>1. CASE RecvFlush
      <4>1. /\ rstate = "FLUSH" /\ rstate' = "WAIT_ADDR_FLIT" /\ progRecv = 0
        BY <3>1 DEF RecvFlush, Flushed
      <4>2. mem1[0].pkt = taken.pkt
        BY <1>1, <4>1 DEF Handshake, Receiving
      <4> QED
        BY <1>2, <4>1, <4>2 DEF Numbered, Following
    <3>2. CASE ~ RecvFlush
      <4>1. (rstate' = "WAIT_ADDR_FLIT") <=> (rstate = "WAIT_ADDR_FLIT")
        BY <1>2, <1>5, <3>2 DEF Recv, RecvInterrupt, RecvConfig, RecvCopy,
           RecvRelease, RecvWaits, RecvConfigures, RecvReleases, recvVars
      <4> QED
        BY <1>2, <2>1, <4>1 DEF Numbered, Following
    <3> QED
      BY <3>1, <3>2
  <2> QED
    BY <1>1, <1>2, <2>1, <2>2 DEF Numbers
<1> QED
  BY <1>3, <1>4, <1>5

-----------------------------------------------------------------------------
\* A flit arrives or leaves: the driver and the memories are not concerned.
LEMMA NetworkKeeps ==
    ASSUME DIInv, Network, UNCHANGED dvars
    PROVE  DIInv'
<1>1. /\ IInv /\ RecvType /\ Stream /\ DriverType /\ Handshake /\ Prepared
      /\ Committed /\ Receiving /\ Numbers
  BY DIInvFacts DEF DIInv
<1>2. IInv'
  BY <1>1, NextIInv DEF Network, Next
<1>3. /\ UNCHANGED <<driver, filled, sent, taken>>
      /\ UNCHANGED <<rstate, rrem, raddr, mem0, mem1, intr, recvStatus, sstate, ssize,
                     srem, saddr, mem2, sendStatus, lastOut, progSend, progRecv,
                     progAddr, progSize, stall>>
  BY DEF Network, ArriveSome, Arrive, Depart, dvars, recvVars, sendVars, cpuVars
<1>4. /\ DriverType' /\ Handshake' /\ Prepared' /\ Committed' /\ Receiving'
  BY <1>1, <1>3 DEF DriverType, Handshake, Prepared, Committed, Receiving, Programmed,
     Begins, Copied, FlitOf, Fetched, PacketAt, Whole, Following
<1>5. \A f : Numbered(f)' <=> Numbered(f)
  BY <1>3 DEF Numbered, Following
<1>6. CASE Depart
  BY <1>1, <1>2, <1>3, <1>4, <1>5, <1>6 DEF Depart, recvVars, Numbers, DIInv
<1>7. CASE ArriveSome
  <2>1. PICK g \in Flit : Arrive(g)
    BY <1>7 DEF ArriveSome
  <2>2. /\ Follows(lastIn, g) /\ ib' = Append(ib, g) /\ ib' # << >>
        /\ ib # << >> => ib'[1] = ib[1]
        /\ ib = << >> => ib'[1] = g
    BY <1>1, <2>1, AppendProperties, EmptySeq, LenProperties DEF Arrive, RecvType
  <2>3. Numbered(ib[1])'
    BY <1>1, <1>5, <2>2 DEF Numbers
  <2> QED
    BY <1>2, <1>4, <2>2, <2>3 DEF Numbers, DIInv
<1> QED
  BY <1>6, <1>7 DEF Network

\* Stores of the driver leave the interface's own state as it is.
LEMMA StoreKeepsInterface ==
    ASSUME DIInv, UNCHANGED <<recvVars, sendVars, stall, lastIn, history>>, CpuType'
    PROVE  IInv'
  BY DIInvFacts DEF recvVars, sendVars, history, IInv, RecvInv, RecvType, Progress,
     Stream, Expected, PacketAt, SendInv, SendType, Sending, Passes, OnlyOversizeStrays

\* The sending half of the handshake.
LEMMA SendHandshakeKeeps ==
    ASSUME DIInv, ProgramSend \/ RaiseSend \/ LowerSend
    PROVE  DIInv'
<1>1. /\ CpuType /\ SendType /\ Sending /\ DriverType /\ Handshake
      /\ Prepared /\ Committed /\ Receiving /\ Numbers
  BY DIInvFacts
<1>2. /\ UNCHANGED <<recvVars, sendVars, progRecv, stall, lastIn, history, filled, taken>>
      /\ UNCHANGED <<ib, rstate, rrem, raddr, mem0, mem1, intr, recvStatus>>
      /\ UNCHANGED <<sstate, ssize, srem, saddr, mem2, sendStatus, lastOut>>
      /\ stall = 0
  BY DEF ProgramSend, RaiseSend, LowerSend, Executes, recvVars, sendVars
<1>3. /\ \A f : Numbered(f)' <=> Numbered(f)
      /\ \A n : Fetched(n)' <=> Fetched(n)
      /\ Following(taken)' = Following(taken)
  BY <1>2 DEF Numbered, Fetched, PacketAt, Following
<1>4. Numbers'
  BY <1>1, <1>2, <1>3 DEF Numbers
<1>5. rstate # "COPY_RELEASE" /\ sstate # "COPY_AND_RELEASE"
  BY <1>1, <1>2 DEF Handshake
<1>6. driver' # "recvRaised" /\ driver' # "recvProgrammed" /\ driver # "recvRaised"
  BY DEF ProgramSend, RaiseSend, LowerSend, Executes
<1>7. Receiving'
  BY <1>1, <1>2, <1>5, <1>6 DEF Receiving, PacketAt, Following
<1>8. CASE ProgramSend
  <2>1. /\ driver = "idle" /\ driver' = "sendProgrammed" /\ filled # sent
        /\ sendStatus = 0 /\ progAddr' = TX /\ progSize' = filled.size + 2
        /\ UNCHANGED <<progSend, sent>>
    BY <1>8 DEF ProgramSend, Executes
  <2>2. /\ filled.pkt = Following(sent) /\ filled.size \in Sizes
        /\ mem0[TX] = Whole(filled)
    BY <1>1, <2>1 DEF Prepared
  <2>3. sstate = "WAIT_CONFIG_STALL"
    BY <1>1, <2>1 DEF Sending
  <2>4. CpuType'
    <3>1. filled.size + 2 \in Nat
      BY <1>1 DEF DriverType
    <3> QED
      BY <1>1, <1>2, <2>1, <3>1, AreasAssumption DEF CpuType
  <2>5. DriverType' /\ Handshake' /\ Prepared'
    BY <1>1, <1>2, <2>1, <2>3 DEF DriverType, Handshake, Prepared, Following, Whole
  <2>6. Programmed(filled)'
    BY <1>2, <2>1, <2>2 DEF Programmed, Whole
  <2>7. Committed'
    BY <1>1, <1>2, <2>1, <2>3, <2>6 DEF Committed, Following
  <2> QED
    BY <1>2, <1>4, <1>7, <2>4, <2>5, <2>7, StoreKeepsInterface DEF DIInv
<1>9. CASE RaiseSend
  <2>1. /\ driver = "sendProgrammed" /\ driver' = "sendRaised"
        /\ progSend' = 1 /\ sent' = filled /\ UNCHANGED <<progAddr, progSize>>
    BY <1>9 DEF RaiseSend, Executes
  <2>2. /\ filled # sent /\ Programmed(filled) /\ sstate = "WAIT_CONFIG_STALL"
    BY <1>1, <2>1 DEF Committed, Handshake
  <2>3. filled.pkt = Following(sent) /\ filled.size \in Nat
    BY <1>1, <2>2 DEF Prepared, DriverType
  <2>4. CpuType'
    BY <1>1, <1>2, <2>1 DEF CpuType, Bit
  <2>5. DriverType' /\ Handshake' /\ Prepared'
    BY <1>1, <1>2, <2>1, <2>2 DEF DriverType, Handshake, Prepared
  <2>6. Programmed(sent)'
    BY <1>2, <2>1, <2>2 DEF Programmed, Whole
  <2>7. Begins(sent)'
    BY <1>1, <1>2, <2>1, <2>2, <2>3 DEF Committed, Begins, FlitOf
  <2>8. Committed'
    BY <1>1, <1>2, <2>1, <2>2, <2>6, <2>7 DEF Committed
  <2> QED
    BY <1>2, <1>4, <1>7, <2>4, <2>5, <2>8, StoreKeepsInterface DEF DIInv
<1>10. CASE LowerSend
  <2>1. /\ driver = "sendRaised" /\ driver' = "idle" /\ sendStatus = 1
        /\ progSend' = 0 /\ UNCHANGED <<progAddr, progSize, sent>>
    BY <1>10 DEF LowerSend, Executes
  <2>2. sstate # "WAIT_CONFIG_STALL"
    BY <1>1, <2>1 DEF Sending
  <2>3. CpuType'
    BY <1>1, <1>2, <2>1 DEF CpuType, Bit
  <2>4. DriverType' /\ Handshake' /\ Prepared'
    BY <1>1, <1>2, <1>5, <2>1, <2>2
       DEF DriverType, Handshake, Prepared, Following, Whole
  <2>5. Committed'
    BY <1>1, <1>2, <1>5, <2>1, <2>2 DEF Committed, Copied, Begins, FlitOf
  <2> QED
    BY <1>2, <1>4, <1>7, <2>3, <2>4, <2>5, StoreKeepsInterface DEF DIInv
<1> QED
  BY <1>8, <1>9, <1>10

\* The receiving half of the handshake.
LEMMA RecvHandshakeKeeps ==
    ASSUME DIInv, ProgramRecv \/ RaiseRecv \/ TakePacket \/ LowerRecv
    PROVE  DIInv'
<1>1. /\ CpuType /\ SendType /\ RecvType /\ Progress /\ DriverType /\ Handshake
      /\ Prepared /\ Committed /\ Receiving /\ Numbers
  BY DIInvFacts
<1>2. /\ UNCHANGED <<recvVars, sendVars, progSend, stall, lastIn, history, filled, sent>>
      /\ UNCHANGED <<ib, rstate, rrem, raddr, mem0, mem1, intr, recvStatus>>
      /\ UNCHANGED <<sstate, ssize, srem, saddr, mem2, sendStatus, lastOut>>
      /\ stall = 0
  BY DEF ProgramRecv, RaiseRecv, TakePacket, LowerRecv, Executes, vars, recvVars,
         sendVars, cpuVars
<1>3. rstate # "COPY_RELEASE" /\ sstate # "COPY_AND_RELEASE"
  BY <1>1, <1>2 DEF Handshake
<1>4. /\ driver' # "sendProgrammed" /\ driver' # "sendRaised"
      /\ driver # "sendProgrammed" /\ driver # "sendRaised"
  BY DEF ProgramRecv, RaiseRecv, TakePacket, LowerRecv, Executes
<1>5. Prepared' /\ Committed'
  BY <1>1, <1>2, <1>3, <1>4
     DEF Prepared, Committed, Copied, Begins, FlitOf, Following, Whole
<1>6. /\ \A n : Fetched(n)' <=> Fetched(n)
      /\ \A s : PacketAt(s)' = PacketAt(s)
  BY <1>2 DEF Fetched, PacketAt
<1>7. ASSUME UNCHANGED taken
      PROVE  Numbers'
  <2>1. \A f : Numbered(f)' <=> Numbered(f)
    BY <1>2, <1>7 DEF Numbered, Following
  <2> QED
    BY <1>1, <1>2, <2>1 DEF Numbers
<1>8. CASE ProgramRecv
  <2>1. /\ driver = "idle" /\ driver' = "recvProgrammed" /\ intr = 1
        /\ progAddr' = RX /\ progSize' = recvStatus /\ UNCHANGED <<progRecv, taken>>
    BY <1>8 DEF ProgramRecv, Executes
  <2>2. rstate = "WAIT_CONFIG_STALL"
    BY <1>1, <1>3, <2>1 DEF Handshake
  <2>3. recvStatus \in Nat
    BY <1>1 DEF RecvType
  <2>4. CpuType'
    BY <1>1, <1>2, <2>1, <2>3, AreasAssumption DEF CpuType
  <2>5. DriverType' /\ Handshake'
    BY <1>1, <1>2, <2>1, <2>2 DEF DriverType, Handshake
  <2>6. Receiving'
    BY <1>1, <1>2, <2>1, <2>2 DEF Receiving, Following
  <2> QED
    BY <1>2, <1>5, <1>7, <2>1, <2>4, <2>5, <2>6, StoreKeepsInterface DEF DIInv
<1>9. CASE RaiseRecv
  <2>1. /\ driver = "recvProgrammed" /\ driver' = "recvRaised"
        /\ progRecv' = 1 /\ UNCHANGED <<progAddr, progSize, taken>>
    BY <1>9 DEF RaiseRecv, Executes
  <2>2. rstate = "WAIT_CONFIG_STALL"
    BY <1>1, <2>1 DEF Handshake
  <2>3. CpuType'
    BY <1>1, <1>2, <2>1 DEF CpuType, Bit
  <2>4. DriverType' /\ Handshake'
    BY <1>1, <1>2, <2>1, <2>2 DEF DriverType, Handshake
  <2>5. Receiving'
    BY <1>1, <1>2, <2>1, <2>2 DEF Receiving, Following
  <2> QED
    BY <1>2, <1>5, <1>7, <2>1, <2>3, <2>4, <2>5, StoreKeepsInterface DEF DIInv
<1>10. CASE TakePacket
  <2>1. /\ driver = "recvRaised" /\ driver' = "recvTaken" /\ intr = 0
        /\ taken' = Packet(mem0[RX][0])
        /\ UNCHANGED <<progRecv, progAddr, progSize>>
    BY <1>10 DEF TakePacket, Executes, vars, cpuVars
  <2>2. rstate = "FLUSH"
    BY <1>1, <2>1 DEF Handshake
  <2>3. mem1[0] \in Flit /\ Fetched(mem1[0].size + 2)
    BY <1>1, <2>1, <2>2 DEF Receiving
  <2>4. mem0[RX][0] = PacketAt(0)
    BY <2>3, FlitFacts DEF Fetched
  <2>5. taken'.pkt = mem1[0].pkt /\ mem1[0].pkt \in 0 .. PacketMod - 1
    BY <2>1, <2>3, <2>4, FlitFacts DEF Packet, PacketAt
  <2>6. CpuType'
    BY <1>1, <1>2, <2>1 DEF CpuType
  <2>7. DriverType' /\ Handshake'
    BY <1>1, <1>2, <2>1, <2>2, <2>5 DEF DriverType, Handshake
  <2>8. Receiving'
    BY <1>2, <2>1, <2>2, <2>3, <2>5 DEF Receiving
  <2>9. Numbers'
    <3>1. \A f : Numbered(f)' <=> Numbered(f)
      BY <1>2, <2>2 DEF Numbered, Following
    <3> QED
      BY <1>1, <1>2, <3>1 DEF Numbers
  <2> QED
    BY <1>2, <1>5, <2>6, <2>7, <2>8, <2>9, StoreKeepsInterface DEF DIInv
<1>11. CASE LowerRecv
  <2>1. /\ driver = "recvTaken" /\ driver' = "idle"
        /\ progRecv' = 0 /\ UNCHANGED <<progAddr, progSize, taken>>
    BY <1>11 DEF LowerRecv, Executes
  <2>2. rstate = "FLUSH"
    BY <1>1, <2>1 DEF Handshake
  <2>3. CpuType'
    BY <1>1, <1>2, <2>1 DEF CpuType, Bit
  <2>4. DriverType' /\ Handshake'
    BY <1>1, <1>2, <2>1, <2>2 DEF DriverType, Handshake
  <2>5. Receiving'
    BY <1>1, <1>2, <2>1, <2>2 DEF Receiving
  <2> QED
    BY <1>2, <1>5, <1>7, <2>1, <2>3, <2>4, <2>5, StoreKeepsInterface DEF DIInv
<1> QED
  BY <1>8, <1>9, <1>10, <1>11

\* The buffer is filled again only when the packet committed is in mem2.
LEMMA FillKeeps ==
    ASSUME DIInv, NEW size \in Sizes, Fill(size)
    PROVE  DIInv'
<1>1. /\ CpuType /\ SendType /\ RecvType /\ SendInv /\ Progress /\ Stream
      /\ Passes /\ DriverType /\ Handshake /\ Prepared /\ Committed
      /\ Receiving /\ Numbers
  BY DIInvFacts
<1>2. /\ driver = "idle" /\ driver' = "idle" /\ stall = 0 /\ filled = sent
      /\ filled' = [pkt |-> Following(sent), size |-> size]
      /\ mem0' = [mem0 EXCEPT ![TX] = Whole(filled')]
      /\ UNCHANGED <<ib, rstate, rrem, raddr, mem1, intr, recvStatus>>
      /\ UNCHANGED <<ob, sstate, ssize, srem, saddr, mem2, sendStatus, lastOut>>
      /\ UNCHANGED <<progSend, progRecv, progAddr, progSize, stall, lastIn, sent, taken>>
      /\ UNCHANGED <<rsize, stray>>
  BY DEF Fill, Executes, sendVars, cpuVars, history
<1>3. rstate # "COPY_RELEASE" /\ sstate # "COPY_AND_RELEASE"
  BY <1>1, <1>2 DEF Handshake
<1>4. filled'.pkt \in 0 .. PacketMod - 1 /\ filled'.size \in Sizes
  BY <1>1, <1>2, FollowingFacts DEF DriverType
<1>5. Whole(filled') \in [Slots -> Stored] /\ filled'.size \in Nat
  BY <1>4, WholeFacts
<1>6. mem0' \in [Areas -> [Slots -> Stored]] /\ mem0'[TX] = Whole(filled')
  BY <1>1, <1>2, <1>5, AreasAssumption DEF RecvType
<1>7. IInv'
  <2>1. RecvType' /\ Progress'
    BY <1>1, <1>2, <1>6 DEF RecvType, Progress, PacketAt
  <2>2. Stream'
    BY <1>1, <1>2 DEF Stream, Expected, PacketAt
  <2>3. SendInv' /\ CpuType' /\ Passes'
    BY <1>1, <1>2 DEF SendInv, SendType, Sending, CpuType, Passes, OnlyOversizeStrays
  <2> QED
    BY <2>1, <2>2, <2>3 DEF IInv, RecvInv
<1>8. DriverType' /\ Handshake'
  BY <1>1, <1>2, <1>4, <1>5 DEF DriverType, Handshake
<1>9. Prepared'
  BY <1>2, <1>4, <1>6 DEF Prepared, Following, Whole
<1>10. Committed'
  BY <1>1, <1>2, <1>3 DEF Committed, Copied, FlitOf, Following, Begins
<1>11. Receiving'
  BY <1>1, <1>2, <1>3 DEF Receiving, Following
<1>12. Numbers'
  BY <1>1, <1>2 DEF Numbers, Numbered, Following
<1> QED
  BY <1>7, <1>8, <1>9, <1>10, <1>11, <1>12 DEF DIInv

-----------------------------------------------------------------------------
LEMMA InitDIInv == DInit => DIInv
<1> SUFFICES ASSUME DInit PROVE DIInv
  OBVIOUS
<1>1. Init /\ IInv
  BY InitIInv DEF DInit
<1>2. DriverType
  BY NoPacketFacts DEF DInit, DriverType, NoPacket
<1>3. Handshake
  BY <1>1 DEF DInit, Init, Handshake
<1>4. Prepared /\ Committed
  BY <1>1, NoPacketFacts DEF DInit, Init, Prepared, Committed, Follows
<1>5. Receiving
  BY <1>1 DEF DInit, Init, Receiving
<1>6. Numbers
  BY <1>1, NoPacketFacts DEF DInit, Init, Numbers, Numbered, Follows
<1> QED
  BY <1>1, <1>2, <1>3, <1>4, <1>5, <1>6 DEF DIInv

LEMMA NextDIInv == DIInv /\ [DNext]_allVars => DIInv'
<1> SUFFICES ASSUME DIInv, [DNext]_allVars PROVE DIInv'
  OBVIOUS
<1>1. CASE Run /\ UNCHANGED dvars
  <2>1. IInv'
    BY <1>1, NextIInv DEF DIInv, Next
  <2>2. DriverType'
    BY <1>1, DIInvFacts DEF DriverType, dvars
  <2> QED
    BY <1>1, <2>1, <2>2, RunHandshake, RunCommitted, RunReceiving, RunNumbers DEF DIInv
<1>2. CASE Network /\ UNCHANGED dvars
  BY <1>2, NetworkKeeps
<1>3. CASE \E n \in Sizes : Fill(n)
  BY <1>3, FillKeeps
<1>4. CASE Serve
  BY <1>4, SendHandshakeKeeps, RecvHandshakeKeeps DEF Serve
<1>5. CASE UNCHANGED allVars
  <2>1. UNCHANGED vars /\ UNCHANGED dvars
    BY <1>5 DEF allVars
  <2>2. IInv'
    BY <2>1, NextIInv DEF DIInv
  <2>3. /\ UNCHANGED <<ib, rstate, rrem, raddr, mem0, mem1, intr, recvStatus>>
        /\ UNCHANGED <<ob, sstate, ssize, srem, saddr, mem2, sendStatus, lastOut>>
        /\ UNCHANGED <<progSend, progRecv, progAddr, progSize, stall, lastIn>>
        /\ UNCHANGED <<driver, filled, sent, taken>>
    BY <2>1 DEF vars, dvars, recvVars, sendVars, cpuVars
  <2>4. DriverType' /\ Handshake' /\ Prepared' /\ Committed'
    BY <2>3, DIInvFacts DEF DriverType, Handshake, Prepared, Committed, Programmed,
       Begins, Copied, FlitOf, Whole, Following
  <2>5. Receiving' /\ Numbers'
    BY <2>3, DIInvFacts DEF Receiving, Fetched, PacketAt, Numbers, Numbered, Following
  <2> QED
    BY <2>2, <2>4, <2>5 DEF DIInv
<1> QED
  BY <1>1, <1>2, <1>3, <1>4, <1>5 DEF DNext

\* The inductive invariant of the interface and its driver together.
THEOREM DriverInvariance == DSpec => []DIInv
  BY InitDIInv, NextDIInv, PTL DEF DSpec

\* With a driver that keeps the handshake every variable keeps its type, and
\* neither buffer is ever over its capacity.
THEOREM DriverTypeCorrect == DSpec => []TypeOK
<1>1. DIInv => TypeOK
  BY DEF DIInv, IInv, RecvInv, RecvType, Stream, SendInv, SendType, CpuType, Passes,
         TypeOK
<1> QED
  BY <1>1, DriverInvariance, PTL

\* The CPU is stalled whenever flits go between main memory and the interface.
THEOREM StallCovers == DSpec => []StallCoversCopies
<1>1. DIInv => StallCoversCopies
  BY DEF DIInv, Handshake, StallCoversCopies, Copying
<1> QED
  BY <1>1, DriverInvariance, PTL

\* What the driver takes from main memory is the next packet, whole.
THEOREM WholeReceived == DSpec => []ReceivedWhole
<1>1. DIInv => ReceivedWhole
  <2> SUFFICES ASSUME DIInv, driver = "recvRaised", intr = 0
               PROVE  /\ mem0[RX][0].pos = 0 /\ mem0[RX][0].pkt = Following(taken)
                      /\ \A s \in 0 .. mem0[RX][0].size + 1 :
                            mem0[RX][s] = [mem0[RX][0] EXCEPT !.pos = s]
    BY DEF ReceivedWhole
  <2>1. rstate = "FLUSH"
    BY DIInvFacts DEF Handshake
  <2>2. /\ mem1[0] \in Flit /\ mem1[0].pkt = Following(taken)
        /\ Fetched(mem1[0].size + 2)
    BY <2>1, DIInvFacts DEF Receiving
  <2>3. mem1[0].size \in Nat /\ (mem1[0].size + 2) - 1 = mem1[0].size + 1
    BY <2>2, FlitFacts
  <2>4. \A s \in 0 .. mem1[0].size + 1 : mem0[RX][s] = PacketAt(s)
    BY <2>2, <2>3 DEF Fetched
  <2>5. mem0[RX][0] = PacketAt(0)
    BY <2>3, <2>4
  <2>6. \A s : [mem0[RX][0] EXCEPT !.pos = s] = PacketAt(s)
    BY <2>5 DEF PacketAt
  <2> QED
    BY <2>2, <2>4, <2>5, <2>6 DEF PacketAt
<1> QED
  BY <1>1, DriverInvariance, PTL

\* The packets committed go out each once, whole and in order.
THEOREM OnceSent == DSpec => SentOnce
<1>1. DIInv /\ [DNext]_allVars =>
          [lastOut' # lastOut => Follows(lastOut, lastOut')]_allVars
  <2> SUFFICES ASSUME DIInv, DNext, lastOut' # lastOut
               PROVE  Follows(lastOut, lastOut')
    BY DEF allVars, vars, sendVars
  <2>1. SendPush
    <3>1. Run
      BY DEF DNext, Network, ArriveSome, Arrive, Depart, Fill, Serve, ProgramSend,
         RaiseSend, LowerSend, ProgramRecv, RaiseRecv, TakePacket, LowerRecv,
         vars, sendVars
    <3> QED
      BY <3>1 DEF Run, Send, SendConfig, SendCopy, SendRelease, SendDone, SendFlush,
         SendWaits, sendVars
  <2>2. /\ sstate = "SEND_DATA_TO_NOC" /\ srem > 0 /\ lastOut' = Load(mem2, saddr)
    BY <2>1 DEF SendPush
  <2>3. /\ ssize = sent.size + 2 /\ saddr + srem = ssize /\ ssize <= MemFlits
        /\ Copied(ssize)
        /\ IF saddr = 0 THEN Begins(sent) ELSE lastOut = FlitOf(sent, saddr - 1)
    BY <2>2, DIInvFacts DEF Committed
  <2>4. /\ saddr \in Nat /\ srem \in Nat /\ MemFlits \in Nat
        /\ sent.pkt \in 0 .. PacketMod - 1 /\ sent.size \in Nat
        /\ mem2 \in [Slots -> Stored]
    BY DIInvFacts, SizesAssumption DEF DriverType, SendType
  <2>5. lastOut' = FlitOf(sent, saddr)
    <3>1. saddr \in 0 .. ssize - 1 /\ saddr \in Slots
      BY <2>2, <2>3, <2>4 DEF Slots
    <3> QED
      BY <2>2, <2>3, <2>4, <3>1 DEF Copied, Load
  <2>6. CASE saddr = 0
    BY <2>3, <2>5, <2>6 DEF Begins
  <2>7. CASE saddr # 0
    <3>1. saddr - 1 \in Nat /\ saddr - 1 # sent.size + 1 /\ (saddr - 1) + 1 = saddr
      BY <2>2, <2>3, <2>4, <2>7
    <3> QED
      BY <2>3, <2>4, <2>5, <2>7, <3>1, FlitOfFacts
  <2> QED
    BY <2>6, <2>7
<1> QED
  BY <1>1, DriverInvariance, PTL DEF DSpec, SentOnce
=============================================================================

-------------------------- MODULE DmaNetif_proofs --------------------------
(***************************************************************************)
(* What the network interface keeps whatever the program writes, for every *)
(* capacity, size of the memories, set of packet sizes and set of areas.   *)
(*                                                                         *)
(* The receiver finds packets by counting.  That it never loses its place  *)
(* follows from an invariant that says what it has stored of the packet in *)
(* progress (Progress), and that the flit it expects next is the one that  *)
(* comes next, be it in the buffer or still on the link (Stream).          *)
(*                                                                         *)
(* Packets and copies may be larger than the memories.  Passes follows how *)
(* far each pass over a memory has come and how far it is to go.           *)
(***************************************************************************)
EXTENDS DmaNetif, SequenceTheorems, TLAPS

\* The flit at position s of the packet whose first flit is in mem1.
PacketAt(s) == [pkt |-> mem1[0].pkt, size |-> mem1[0].size, pos |-> s]

RecvType ==
    /\ ib \in Seq(Flit) /\ Len(ib) <= Capacity
    /\ rstate \in {"WAIT_ADDR_FLIT", "WAIT_SIZE_FLIT", "WAIT_PAYLOAD",
                   "WAIT_CONFIG_STALL", "COPY_RELEASE", "FLUSH"}
    /\ mem0 \in [Areas -> [Slots -> Stored]] /\ mem1 \in [Slots -> Stored]
    /\ rrem \in Nat /\ raddr \in Nat
    /\ intr \in Bit /\ recvStatus \in Nat

SendType ==
    /\ ob \in Seq(Stored) /\ Len(ob) <= Capacity
    /\ sstate \in {"WAIT_CONFIG_STALL", "COPY_AND_RELEASE", "SEND_DATA_TO_NOC",
                   "FLUSH"}
    /\ mem2 \in [Slots -> Stored]
    /\ srem \in Nat /\ saddr \in Nat /\ ssize \in Nat
    /\ sendStatus \in Bit /\ lastOut \in Stored

CpuType ==
    /\ stall \in Bit /\ progSend \in Bit /\ progRecv \in Bit
    /\ progAddr \in Areas /\ progSize \in Nat

\* What mem1 and the registers hold of the packet in progress.
Progress ==
    /\ rstate = "WAIT_ADDR_FLIT" => recvStatus = 0
    /\ rstate = "WAIT_SIZE_FLIT" =>
          raddr = 1 /\ mem1[0] \in Flit /\ mem1[0].pos = 0
    /\ rstate \in {"WAIT_PAYLOAD", "WAIT_CONFIG_STALL"} =>
          /\ mem1[0] \in Flit
          /\ recvStatus = mem1[0].size + 2
          /\ raddr >= 2 /\ raddr + rrem = recvStatus
          /\ \A s \in Slots : s < raddr => mem1[s] = PacketAt(s)
    /\ rstate = "WAIT_CONFIG_STALL" => rrem = 0 /\ intr = 1
    /\ rstate \in {"COPY_RELEASE", "FLUSH"} => recvStatus = 0

\* What the receiver takes the next flit for.
Expected(f) ==
    IF rstate = "WAIT_SIZE_FLIT" THEN f = PacketAt(1)
    ELSE IF rstate = "WAIT_PAYLOAD" /\ rrem > 0 THEN f = PacketAt(raddr)
    ELSE f.pos = 0

\* The flits in the buffer, and the one after them, succeed one another, and
\* the first of them is expected.
Stream ==
    /\ lastIn \in Stored
    /\ ib = << >> => \A f \in Flit : Follows(lastIn, f) => Expected(f)
    /\ ib # << >> => Expected(ib[1]) /\ ib[Len(ib)] = lastIn
    /\ \A i \in 1 .. Len(ib) - 1 : Follows(ib[i], ib[i + 1])

\* The sender goes over what it was asked to send, twice, and tells its state.
Sending ==
    /\ sstate \in {"COPY_AND_RELEASE", "SEND_DATA_TO_NOC"} => saddr + srem = ssize
    /\ (sendStatus = 0) <=> (sstate = "WAIT_CONFIG_STALL")

\* How far the passes over mem1 and mem2 have come, up to the first access past
\* their ends.  What has been received whole, or copied whole, fits.
Passes ==
    /\ rsize \in Nat /\ stray \in BOOLEAN
    /\ rstate = "COPY_RELEASE" => raddr + rrem = rsize
    /\ rstate = "WAIT_CONFIG_STALL" => raddr <= MemFlits
    /\ sstate = "SEND_DATA_TO_NOC" => ssize <= MemFlits
    /\ ~ stray =>
          /\ rstate \in {"WAIT_PAYLOAD", "COPY_RELEASE"} => raddr <= MemFlits
          /\ sstate = "COPY_AND_RELEASE" => saddr <= MemFlits
    /\ OnlyOversizeStrays

RecvInv == RecvType /\ Progress /\ Stream
SendInv == SendType /\ Sending
IInv    == RecvInv /\ SendInv /\ CpuType /\ Passes

-----------------------------------------------------------------------------
LEMMA FlitFacts ==
    ASSUME NEW f \in Flit
    PROVE  /\ f = [pkt |-> f.pkt, size |-> f.size, pos |-> f.pos]
           /\ f.pkt \in 0 .. PacketMod - 1 /\ f.size \in Sizes
           /\ f.size \in Nat /\ f.pos \in Nat /\ f # Junk
<1>1. PICK n \in Sizes : f \in [pkt : 0 .. PacketMod - 1, size : {n}, pos : 0 .. n + 1]
  BY DEF Flit
<1>2. /\ f = [pkt |-> f.pkt, size |-> f.size, pos |-> f.pos]
      /\ f.pkt \in 0 .. PacketMod - 1 /\ f.size = n /\ f.pos \in 0 .. n + 1
  BY <1>1
<1>3. n \in Nat
  BY SizesAssumption
<1>4. f # Junk
  BY <1>2 DEF Junk
<1> QED
  BY <1>2, <1>3, <1>4

\* After a flit comes the next of its packet, or the first of another.
LEMMA FollowsFacts ==
    ASSUME NEW f \in Flit, NEW g \in Flit, Follows(f, g)
    PROVE  IF f.pos = f.size + 1 THEN g.pos = 0
           ELSE g = [pkt |-> f.pkt, size |-> f.size, pos |-> f.pos + 1]
<1>1. f # Junk /\ f = [pkt |-> f.pkt, size |-> f.size, pos |-> f.pos]
  BY FlitFacts
<1>2. [f EXCEPT !.pos = @ + 1] = [pkt |-> f.pkt, size |-> f.size, pos |-> f.pos + 1]
  BY <1>1
<1> QED
  BY <1>1, <1>2 DEF Follows, IsTail

LEMMA MemoryFacts ==
    ASSUME NEW m \in [Slots -> Stored], NEW a, NEW f \in Stored
    PROVE  /\ Store(m, a, f) \in [Slots -> Stored]
           /\ Load(m, a) \in Stored
           /\ a \in Slots => Store(m, a, f)[a] = f
           /\ \A s \in Slots \ {a} : Store(m, a, f)[s] = m[s]
  BY DEF Store, Load, Stored

\* A flit leaves the buffer, and what follows it is expected then.
LEMMA TakeFromStream ==
    ASSUME RecvType, Stream, ib # << >>, ib' = Tail(ib), UNCHANGED lastIn,
           \A f \in Flit : Follows(ib[1], f) => Expected(f)'
    PROVE  /\ Stream'
           /\ ib' \in Seq(Flit) /\ Len(ib') <= Capacity
<1>1. /\ ib' \in Seq(Flit) /\ Len(ib') = Len(ib) - 1
      /\ \A i \in 1 .. Len(ib) - 1 : ib'[i] = ib[i + 1]
  BY HeadTailProperties DEF RecvType
<1>2. Len(ib) \in Nat /\ Len(ib) # 0 /\ Len(ib) <= Capacity
  BY EmptySeq, LenProperties DEF RecvType
<1>3. \A i \in 1 .. Len(ib') - 1 : Follows(ib'[i], ib'[i + 1])
  <2> SUFFICES ASSUME NEW i \in 1 .. Len(ib') - 1
               PROVE  Follows(ib'[i], ib'[i + 1])
    OBVIOUS
  <2>1. i \in 1 .. Len(ib) - 1 /\ i + 1 \in 1 .. Len(ib) - 1
    BY <1>1, <1>2
  <2>2. ib'[i] = ib[i + 1] /\ ib'[i + 1] = ib[(i + 1) + 1]
    BY <1>1, <2>1
  <2> QED
    BY <2>1, <2>2 DEF Stream
<1>4. CASE Len(ib) = 1
  <2>1. ib' = << >>
    BY <1>1, <1>4, EmptySeq
  <2>2. lastIn' = ib[1]
    BY <1>4 DEF Stream
  <2> QED
    BY <1>1, <1>2, <1>3, <2>1, <2>2, CapacityAssumption DEF Stream
<1>5. CASE Len(ib) > 1
  <2>1. ib' # << >>
    <3>1. Len(ib') # 0
      BY <1>1, <1>2, <1>5
    <3> QED
      BY <3>1, EmptySeq
  <2>2. ib'[1] = ib[2] /\ ib[2] \in Flit /\ Follows(ib[1], ib[2])
    BY <1>1, <1>2, <1>5, ElementOfSeq DEF Stream, RecvType
  <2>3. ib'[Len(ib')] = lastIn
    <3>1. Len(ib') \in 1 .. Len(ib) - 1 /\ Len(ib') + 1 = Len(ib)
      BY <1>1, <1>2, <1>5
    <3> QED
      BY <1>1, <3>1 DEF Stream
  <2>4. Expected(ib[1])'
    BY <2>2
  <2> QED
    BY <1>1, <1>2, <1>3, <2>1, <2>3, <2>4, CapacityAssumption DEF Stream
<1>6. Len(ib) = 1 \/ Len(ib) > 1
  <2> DEFINE n == Len(ib)
  <2>1. n \in Nat /\ n # 0
    BY <1>2
  <2> HIDE DEF n
  <2>2. n = 1 \/ n > 1
    BY <2>1
  <2> QED
    BY <2>2 DEF n
<1> QED
  BY <1>4, <1>5, <1>6

\* A step that takes no flit and goes on expecting the same.
LEMMA StreamKept ==
    ASSUME Stream, UNCHANGED <<ib, lastIn>>,
           \A f : Expected(f) => Expected(f)'
    PROVE  Stream'
  BY DEF Stream

-----------------------------------------------------------------------------
\* The first flit of a packet goes to the start of mem1.
LEMMA RecvAddrKeeps ==
    ASSUME RecvInv, RecvAddr, UNCHANGED lastIn
    PROVE  RecvInv'
<1> DEFINE h == ib[1]
<1>1. /\ rstate = "WAIT_ADDR_FLIT" /\ rstate' = "WAIT_SIZE_FLIT"
      /\ ib # << >> /\ ib' = Tail(ib) /\ raddr' = 1
      /\ mem1' = Store(mem1, 0, h)
      /\ UNCHANGED <<rrem, mem0, intr, recvStatus>>
  BY DEF RecvAddr
<1>2. RecvType /\ Progress /\ Stream
  BY DEF RecvInv
<1>3. h \in Flit /\ h \in Stored
  BY <1>1, <1>2, ElementOfSeq, EmptySeq, LenProperties DEF RecvType, Stored
<1>4. h.pos = 0
  BY <1>1, <1>2 DEF Stream, Expected
<1>5. h.size \in Nat /\ MemFlits \in Nat /\ MemFlits >= 2
  BY <1>3, FlitFacts, SizesAssumption
<1>6. mem1' \in [Slots -> Stored] /\ mem1'[0] = h
  <2>1. 0 \in Slots
    BY <1>5 DEF Slots
  <2> QED
    BY <1>1, <1>2, <1>3, <2>1, MemoryFacts DEF RecvType
<1>7. ASSUME NEW f \in Flit, Follows(h, f)
      PROVE  Expected(f)'
  <2>1. f = [pkt |-> h.pkt, size |-> h.size, pos |-> 1]
    BY <1>3, <1>4, <1>5, <1>7, FollowsFacts
  <2> QED
    BY <1>1, <1>6, <2>1 DEF Expected, PacketAt
<1>8. Stream' /\ ib' \in Seq(Flit) /\ Len(ib') <= Capacity
  BY <1>1, <1>2, <1>7, TakeFromStream
<1>9. RecvType'
  BY <1>1, <1>2, <1>6, <1>8 DEF RecvType
<1>10. Progress'
  BY <1>1, <1>3, <1>4, <1>6 DEF Progress
<1> QED
  BY <1>8, <1>9, <1>10 DEF RecvInv

\* The size flit tells how many are to come.
LEMMA RecvSizeKeeps ==
    ASSUME RecvInv, RecvSize, UNCHANGED lastIn
    PROVE  RecvInv'
<1> DEFINE h == ib[1]
<1>1. /\ rstate = "WAIT_SIZE_FLIT" /\ rstate' = "WAIT_PAYLOAD"
      /\ ib # << >> /\ ib' = Tail(ib) /\ raddr' = raddr + 1
      /\ mem1' = Store(mem1, raddr, h)
      /\ rrem' = Word(h) /\ recvStatus' = Word(h) + 2
      /\ UNCHANGED <<mem0, intr>>
  BY DEF RecvSize, PayloadOf
<1>2. RecvType /\ Progress /\ Stream
  BY DEF RecvInv
<1>3. h \in Flit /\ h \in Stored
  BY <1>1, <1>2, ElementOfSeq, EmptySeq, LenProperties DEF RecvType, Stored
<1>4. /\ raddr = 1 /\ mem1[0] \in Flit /\ mem1[0].pos = 0
      /\ h = PacketAt(1)
  BY <1>1, <1>2 DEF Progress, Stream, Expected
<1>5. h.pkt = mem1[0].pkt /\ h.size = mem1[0].size /\ h.pos = 1
  BY <1>4 DEF PacketAt
<1>6. h.size \in Nat /\ MemFlits \in Nat /\ MemFlits >= 2
  BY <1>3, FlitFacts, SizesAssumption
<1>7. rrem' = h.size /\ recvStatus' = h.size + 2 /\ raddr' = 2
  BY <1>1, <1>4, <1>5 DEF Word
<1>8. mem1' \in [Slots -> Stored] /\ mem1'[0] = mem1[0] /\ mem1'[1] = h
  <2>1. 0 \in Slots /\ 1 \in Slots
    BY <1>6 DEF Slots
  <2> QED
    BY <1>1, <1>2, <1>3, <1>4, <2>1, MemoryFacts DEF RecvType
<1>9. ASSUME NEW f \in Flit, Follows(h, f)
      PROVE  Expected(f)'
  <2>1. IF h.size = 0 THEN f.pos = 0
        ELSE f = [pkt |-> h.pkt, size |-> h.size, pos |-> 2]
    BY <1>3, <1>5, <1>6, <1>9, FollowsFacts
  <2> QED
    BY <1>1, <1>5, <1>6, <1>7, <1>8, <2>1 DEF Expected, PacketAt
<1>10. Stream' /\ ib' \in Seq(Flit) /\ Len(ib') <= Capacity
  BY <1>1, <1>2, <1>9, TakeFromStream
<1>11. RecvType'
  BY <1>1, <1>2, <1>6, <1>7, <1>8, <1>10 DEF RecvType
<1>12. \A s \in Slots : s < raddr' => mem1'[s] = PacketAt(s)'
  <2>1. mem1[0] = PacketAt(0)
    BY <1>4, FlitFacts DEF PacketAt
  <2>2. \A s : PacketAt(s)' = PacketAt(s)
    BY <1>8 DEF PacketAt
  <2>3. \A s \in Slots : s < 2 => s = 0 \/ s = 1
    BY <1>6 DEF Slots
  <2> QED
    BY <1>4, <1>7, <1>8, <2>1, <2>2, <2>3
<1>13. Progress'
  BY <1>1, <1>4, <1>5, <1>6, <1>7, <1>8, <1>12 DEF Progress
<1> QED
  BY <1>10, <1>11, <1>13 DEF RecvInv

\* A flit of the payload goes behind those before it.
LEMMA RecvPayloadKeeps ==
    ASSUME RecvInv, RecvPayload, UNCHANGED lastIn
    PROVE  RecvInv'
<1> DEFINE h == ib[1]
<1>1. /\ rstate = "WAIT_PAYLOAD" /\ rstate' = "WAIT_PAYLOAD" /\ rrem > 0
      /\ ib # << >> /\ ib' = Tail(ib) /\ raddr' = raddr + 1
      /\ mem1' = Store(mem1, raddr, h) /\ rrem' = rrem - 1
      /\ UNCHANGED <<mem0, intr, recvStatus>>
  BY DEF RecvPayload
<1>2. RecvType /\ Progress /\ Stream /\ rrem \in Nat /\ raddr \in Nat
  BY DEF RecvInv, RecvType
<1>3. h \in Flit /\ h \in Stored
  BY <1>1, <1>2, ElementOfSeq, EmptySeq, LenProperties DEF RecvType, Stored
<1>4. /\ mem1[0] \in Flit /\ recvStatus = mem1[0].size + 2
      /\ raddr >= 2 /\ raddr + rrem = recvStatus
      /\ \A s \in Slots : s < raddr => mem1[s] = PacketAt(s)
      /\ h = PacketAt(raddr)
  BY <1>1, <1>2 DEF Progress, Stream, Expected
<1>5. h.pkt = mem1[0].pkt /\ h.size = mem1[0].size /\ h.pos = raddr
  BY <1>4 DEF PacketAt
<1>6. h.size \in Nat /\ MemFlits \in Nat /\ MemFlits >= 2
  BY <1>3, FlitFacts, SizesAssumption
<1>7. /\ mem1' \in [Slots -> Stored] /\ 0 \in Slots
      /\ raddr \in Slots => mem1'[raddr] = h
      /\ \A s \in Slots : s < raddr => mem1'[s] = mem1[s]
  <2>1. 0 \in Slots /\ \A s \in Slots : s < raddr => s \in Slots \ {raddr}
    BY <1>2, <1>6 DEF Slots
  <2> QED
    BY <1>1, <1>2, <1>3, <2>1, MemoryFacts DEF RecvType
<1>8. mem1'[0] = mem1[0] /\ \A s : PacketAt(s)' = PacketAt(s)
  <2>1. mem1'[0] = mem1[0]
    BY <1>2, <1>4, <1>7
  <2> QED
    BY <2>1 DEF PacketAt
<1>9. ASSUME NEW f \in Flit, Follows(h, f)
      PROVE  Expected(f)'
  <2>1. IF rrem = 1 THEN f.pos = 0
        ELSE f = [pkt |-> h.pkt, size |-> h.size, pos |-> raddr + 1]
    <3>1. h.pos = h.size + 1 <=> rrem = 1
      BY <1>2, <1>4, <1>5, <1>6
    <3> QED
      BY <1>3, <1>5, <1>9, <3>1, FollowsFacts
  <2>2. rrem # 1 => f = PacketAt(raddr + 1)
    BY <1>5, <2>1 DEF PacketAt
  <2> QED
    BY <1>1, <1>2, <1>8, <2>1, <2>2 DEF Expected
<1>10. Stream' /\ ib' \in Seq(Flit) /\ Len(ib') <= Capacity
  BY <1>1, <1>2, <1>9, TakeFromStream
<1>11. RecvType'
  BY <1>1, <1>2, <1>7, <1>10 DEF RecvType
<1>12. \A s \in Slots : s < raddr' => mem1'[s] = PacketAt(s)'
  <2> SUFFICES ASSUME NEW s \in Slots, s < raddr'
               PROVE  mem1'[s] = PacketAt(s)
    BY <1>8
  <2>1. s = raddr \/ s < raddr
    BY <1>1, <1>2, <1>6 DEF Slots
  <2> QED
    BY <1>4, <1>7, <2>1
<1>13. Progress'
  BY <1>1, <1>2, <1>4, <1>8, <1>12 DEF Progress
<1> QED
  BY <1>10, <1>11, <1>13 DEF RecvInv

\* The steps of the receiver that take no flit.
LEMMA RecvRestKeeps ==
    ASSUME RecvInv, CpuType, UNCHANGED lastIn,
           \/ RecvInterrupt \/ RecvConfig \/ RecvCopy \/ RecvRelease
           \/ RecvFlush \/ RecvWaits
    PROVE  RecvInv'
<1>1. RecvType /\ Progress /\ Stream /\ rrem \in Nat /\ raddr \in Nat
  BY DEF RecvInv, RecvType
<1>2. CASE RecvInterrupt
  <2>1. RecvType' /\ Progress'
    BY <1>1, <1>2 DEF RecvInterrupt, RecvType, Progress, PacketAt, Bit
  <2>2. Stream'
    BY <1>1, <1>2, StreamKept DEF RecvInterrupt, Expected
  <2> QED
    BY <2>1, <2>2 DEF RecvInv
<1>3. CASE RecvConfig
  <2>1. progSize \in Nat
    BY DEF CpuType
  <2>2. RecvType' /\ Progress'
    BY <1>1, <1>3, <2>1 DEF RecvConfig, RecvConfigures, RestartAt,
                            RecvType, Progress
  <2>3. Stream'
    BY <1>1, <1>3, StreamKept DEF RecvConfig, RecvConfigures, Expected
  <2> QED
    BY <2>2, <2>3 DEF RecvInv
<1>4. CASE RecvCopy
  <2>1. mem0' \in [Areas -> [Slots -> Stored]]
    <3>1. Load(mem1, raddr) \in Stored
      BY <1>1 DEF RecvType, Load, Stored
    <3>2. mem0[progAddr] \in [Slots -> Stored]
      BY <1>1 DEF RecvType, CpuType
    <3>3. Store(mem0[progAddr], raddr, Load(mem1, raddr)) \in [Slots -> Stored]
      BY <3>1, <3>2, MemoryFacts
    <3> QED
      BY <1>1, <1>4, <3>3 DEF RecvCopy, RecvType
  <2>2. RecvType' /\ Progress'
    BY <1>1, <1>4, <2>1 DEF RecvCopy, RecvType, Progress
  <2>3. Stream'
    BY <1>1, <1>4, StreamKept DEF RecvCopy, Expected
  <2> QED
    BY <2>2, <2>3 DEF RecvInv
<1>5. CASE RecvRelease
  <2>1. RecvType' /\ Progress'
    BY <1>1, <1>5 DEF RecvRelease, RecvReleases, RecvType, Progress, Bit
  <2>2. Stream'
    BY <1>1, <1>5, StreamKept DEF RecvRelease, RecvReleases, Expected
  <2> QED
    BY <2>1, <2>2 DEF RecvInv
<1>6. CASE RecvFlush
  <2>1. RecvType' /\ Progress'
    BY <1>1, <1>6 DEF RecvFlush, RecvType, Progress
  <2>2. Stream'
    BY <1>1, <1>6, StreamKept DEF RecvFlush, Expected
  <2> QED
    BY <2>1, <2>2 DEF RecvInv
<1>7. CASE RecvWaits
  <2>1. UNCHANGED recvVars
    BY <1>7 DEF RecvWaits
  <2>2. RecvType' /\ Progress'
    BY <1>1, <2>1 DEF recvVars, RecvType, Progress, PacketAt
  <2>3. Stream'
    BY <1>1, <2>1, StreamKept DEF recvVars, Expected, PacketAt
  <2> QED
    BY <2>2, <2>3 DEF RecvInv
<1> QED
  BY <1>2, <1>3, <1>4, <1>5, <1>6, <1>7

\* The steps of the sender, over the main memory the receiver has left.
LEMMA SendKeeps ==
    ASSUME SendInv, CpuType, Send, mem0' \in [Areas -> [Slots -> Stored]]
    PROVE  SendInv'
<1>1. SendType /\ Sending /\ srem \in Nat /\ saddr \in Nat /\ ssize \in Nat
  BY DEF SendInv, SendType
<1>3. CASE SendConfig
  <2>1. progSize \in Nat
    BY DEF CpuType
  <2> QED
    BY <1>1, <1>3, <2>1 DEF SendConfig, SendConfigures, SendInv, SendType, Sending, Bit
<1>4. CASE SendCopy
  <2>1. mem2' \in [Slots -> Stored]
    <3>1. mem0'[progAddr] \in [Slots -> Stored]
      BY DEF CpuType
    <3>2. Load(mem0'[progAddr], saddr) \in Stored
      BY <3>1 DEF Load, Stored
    <3> QED
      BY <1>1, <1>4, <3>2, MemoryFacts DEF SendCopy, SendType
  <2> QED
    BY <1>1, <1>4, <2>1 DEF SendCopy, SendInv, SendType, Sending
<1>5. CASE SendRelease
  BY <1>1, <1>5 DEF SendRelease, SendReleases, RestartAt, SendInv, SendType,
                          Sending
<1>6. CASE SendPush
  <2>1. Load(mem2, saddr) \in Stored
    BY <1>1 DEF SendType, Load, Stored
  <2>2. ob' \in Seq(Stored) /\ Len(ob') <= Capacity
    BY <1>1, <1>6, <2>1, AppendProperties, LenProperties, CapacityAssumption
       DEF SendPush, HasRoom, SendType
  <2> QED
    BY <1>1, <1>6, <2>1, <2>2 DEF SendPush, SendInv, SendType, Sending
<1>7. CASE SendDone
  BY <1>1, <1>7 DEF SendDone, SendInv, SendType, Sending
<1>8. CASE SendFlush
  BY <1>1, <1>8 DEF SendFlush, SendInv, SendType, Sending, Bit
<1>9. CASE SendWaits
  BY <1>1, <1>9 DEF SendWaits, sendVars, SendInv, SendType, Sending
<1> QED
  BY <1>3, <1>4, <1>5, <1>6, <1>7, <1>8, <1>9 DEF Send

\* One step of both processes, each of them at most one flit further.
LEMMA RunPasses ==
    ASSUME IInv, Run
    PROVE  Passes'
<1>1. /\ RecvType /\ Progress /\ SendType /\ Sending /\ CpuType /\ Passes
      /\ rrem \in Nat /\ raddr \in Nat /\ srem \in Nat /\ saddr \in Nat
      /\ ssize \in Nat /\ MemFlits \in Nat
  BY SizesAssumption DEF IInv, RecvInv, SendInv, RecvType, SendType
<1>2. /\ ~ stray /\ Recv /\ Send
      /\ rsize' = IF RecvConfigures THEN progSize ELSE rsize
      /\ stray' = (RecvStrays \/ SendStrays)
  BY DEF Run
<1>3. rsize' \in Nat /\ stray' \in BOOLEAN
  BY <1>1, <1>2 DEF CpuType, Passes
<1>4. /\ rstate' = "COPY_RELEASE" => raddr' + rrem' = rsize'
      /\ rstate' = "WAIT_CONFIG_STALL" => raddr' <= MemFlits
      /\ rstate' \in {"WAIT_PAYLOAD", "COPY_RELEASE"} =>
            \/ raddr' <= MemFlits
            \/ RecvStrays
  <2> USE DEF RecvStrays, Passes, Progress
  <2>1. CASE RecvAddr
    BY <2>1 DEF RecvAddr
  <2>2. CASE RecvSize
    BY <1>1, <2>2, SizesAssumption DEF RecvSize
  <2>3. CASE RecvPayload
    BY <1>1, <1>2, <2>3 DEF RecvPayload, Slots
  <2>4. CASE RecvInterrupt
    BY <1>1, <1>2, <2>4 DEF RecvInterrupt
  <2>5. CASE RecvConfig
    BY <1>1, <1>2, <2>5 DEF RecvConfig, RecvConfigures, RestartAt, CpuType
  <2>6. CASE RecvCopy
    BY <1>1, <1>2, <2>6 DEF RecvCopy, RecvConfigures, Slots
  <2>7. CASE RecvRelease
    BY <2>7 DEF RecvRelease
  <2>8. CASE RecvFlush
    BY <2>8 DEF RecvFlush
  <2>9. CASE RecvWaits
    BY <1>1, <1>2, <2>9 DEF RecvWaits, recvVars, RecvConfigures
  <2> QED
    BY <1>2, <2>1, <2>2, <2>3, <2>4, <2>5, <2>6, <2>7, <2>8, <2>9 DEF Recv
<1>5. /\ sstate' = "SEND_DATA_TO_NOC" => ssize' <= MemFlits
      /\ sstate' = "COPY_AND_RELEASE" => saddr' <= MemFlits \/ SendStrays
  BY <1>1, <1>2 DEF Send, SendConfig, SendConfigures, SendCopy, SendRelease,
     SendReleases, SendPush, SendDone, SendFlush, SendWaits, sendVars, SendStrays,
     Slots, Sending, Passes
<1>6. CASE RecvStrays
  <2>1. CASE rstate = "WAIT_PAYLOAD"
    <3>1. RecvPayload
      BY <1>2, <1>6, <2>1 DEF RecvStrays, Recv, RecvAddr, RecvSize, RecvInterrupt,
         RecvConfig, RecvConfigures, RecvCopy, RecvRelease, RecvReleases, RecvFlush,
         RecvWaits
    <3>2. rstate' = "WAIT_PAYLOAD" /\ mem1'[0] = mem1[0]
      <4>1. raddr >= 2 /\ 0 \in Slots \ {raddr}
        BY <1>1, <2>1, SizesAssumption DEF Progress, Slots
      <4> QED
        BY <1>1, <2>1, <3>1, <4>1 DEF RecvPayload, RecvType, Store
    <3>3. mem1[0].size + 2 > MemFlits
      BY <1>1, <1>6, <2>1, FlitFacts DEF RecvStrays, Progress, Slots
    <3> QED
      BY <1>2, <1>3, <1>4, <1>5, <1>6, <3>2, <3>3 DEF Passes, OnlyOversizeStrays
  <2>2. CASE rstate = "COPY_RELEASE"
    <3>1. rstate' = "COPY_RELEASE" /\ rsize' = rsize
      BY <1>1, <1>2, <1>6, <2>2 DEF RecvStrays, Recv, RecvAddr, RecvSize, RecvPayload,
         RecvInterrupt, RecvConfig, RecvConfigures, RecvCopy, RecvRelease,
         RecvReleases, RecvFlush, RecvWaits
    <3>2. rsize > MemFlits
      BY <1>1, <1>6, <2>2 DEF RecvStrays, Passes, Slots
    <3> QED
      BY <1>2, <1>3, <1>4, <1>5, <1>6, <3>1, <3>2 DEF Passes, OnlyOversizeStrays
  <2> QED
    BY <1>6, <2>1, <2>2 DEF RecvStrays
<1>7. CASE SendStrays
  <2>1. sstate = "COPY_AND_RELEASE" /\ ssize > MemFlits
    BY <1>1, <1>7 DEF SendStrays, Sending, Passes, Slots
  <2>2. sstate' = "COPY_AND_RELEASE" /\ ssize' = ssize
    BY <1>2, <1>7, <2>1 DEF SendStrays, Send, SendConfig, SendConfigures, SendCopy,
       SendRelease, SendReleases, SendPush, SendDone, SendFlush, SendWaits
  <2> QED
    BY <1>2, <1>3, <1>4, <1>5, <1>7, <2>1, <2>2 DEF Passes, OnlyOversizeStrays
<1>8. CASE ~ (RecvStrays \/ SendStrays)
  BY <1>2, <1>3, <1>4, <1>5, <1>8 DEF Passes, OnlyOversizeStrays
<1> QED
  BY <1>6, <1>7, <1>8

\* A flit reaches the buffer behind the one that reached it last.
LEMMA ArriveKeeps ==
    ASSUME RecvInv, NEW f \in Flit, Arrive(f)
    PROVE  RecvInv'
<1>1. /\ RecvType /\ Progress /\ Stream
      /\ Len(ib) < Capacity /\ Follows(lastIn, f) /\ ib' = Append(ib, f)
      /\ lastIn' = f
      /\ UNCHANGED <<rstate, rrem, raddr, mem0, mem1, intr, recvStatus>>
  BY DEF RecvInv, Arrive
<1>2. /\ ib' \in Seq(Flit) /\ Len(ib') = Len(ib) + 1 /\ Len(ib) \in Nat
      /\ \A i \in 1 .. Len(ib) : ib'[i] = ib[i]
      /\ ib'[Len(ib) + 1] = f
  BY <1>1, AppendProperties, LenProperties DEF RecvType
<1>3. RecvType' /\ Progress'
  BY <1>1, <1>2, CapacityAssumption DEF RecvType, Progress, PacketAt
<1>4. \A g : Expected(g)' = Expected(g)
  BY <1>1 DEF Expected, PacketAt
<1>5. ib' # << >> /\ ib'[Len(ib')] = lastIn' /\ lastIn' \in Stored
  BY <1>1, <1>2, EmptySeq DEF Stored
<1>6. CASE ib = << >>
  <2>1. Len(ib) = 0
    BY <1>6
  <2>2. Expected(ib[1])'
    BY <1>1, <1>2, <1>4, <1>6, <2>1 DEF Stream
  <2>3. \A i \in 1 .. Len(ib') - 1 : Follows(ib'[i], ib'[i + 1])
    BY <1>2, <2>1
  <2> QED
    BY <1>3, <1>5, <2>2, <2>3 DEF RecvInv, Stream
<1>7. CASE ib # << >>
  <2>1. Len(ib) >= 1
    BY <1>1, <1>2, <1>7, EmptySeq DEF RecvType
  <2>2. Expected(ib[1])'
    BY <1>1, <1>2, <1>4, <1>7, <2>1 DEF Stream
  <2>3. ASSUME NEW i \in 1 .. Len(ib') - 1
        PROVE  Follows(ib'[i], ib'[i + 1])
    <3>1. CASE i = Len(ib)
      BY <1>1, <1>2, <1>7, <2>1, <3>1 DEF Stream
    <3>2. CASE i # Len(ib)
      <4>1. i \in 1 .. Len(ib) - 1 /\ i \in 1 .. Len(ib) /\ i + 1 \in 1 .. Len(ib)
        BY <1>2, <3>2
      <4> QED
        BY <1>1, <1>2, <4>1 DEF Stream
    <3> QED
      BY <3>1, <3>2
  <2> QED
    BY <1>3, <1>5, <2>2, <2>3 DEF RecvInv, Stream
<1> QED
  BY <1>6, <1>7

-----------------------------------------------------------------------------
LEMMA InitIInv == Init => IInv
<1> SUFFICES ASSUME Init PROVE IInv
  OBVIOUS
<1> USE DEF Init, Stored, Bit
<1>1. RecvType /\ SendType
  BY CapacityAssumption DEF RecvType, SendType
<1>2. CpuType
  BY SizesAssumption DEF CpuType
<1>3. Progress /\ Sending /\ Passes
  BY DEF Progress, Sending, Passes, OnlyOversizeStrays
<1>4. Stream
  BY DEF Stream, Follows, Expected
<1> QED
  BY <1>1, <1>2, <1>3, <1>4 DEF IInv, RecvInv, SendInv

LEMMA NextIInv == IInv /\ [Next]_vars => IInv'
<1> SUFFICES ASSUME IInv, [Next]_vars PROVE IInv'
  OBVIOUS
<1>1. RecvInv /\ SendInv /\ CpuType /\ Passes
  BY DEF IInv
<1>2. CASE Run
  <2>1. RecvInv'
    BY <1>1, <1>2, RecvAddrKeeps, RecvSizeKeeps, RecvPayloadKeeps, RecvRestKeeps
       DEF Run, Recv
  <2>2. SendInv'
    BY <1>1, <1>2, <2>1, SendKeeps DEF Run, RecvInv, RecvType
  <2>3. CpuType'
    BY <1>1, <1>2 DEF Run, cpuVars, CpuType, StallAfter, StallAfterRecv, Bit
  <2> QED
    BY <1>2, <2>1, <2>2, <2>3, RunPasses DEF IInv
<1>3. CASE ArriveSome
  <2>1. PICK f \in Flit : Arrive(f)
    BY <1>3 DEF ArriveSome
  <2>2. RecvInv'
    BY <1>1, <2>1, ArriveKeeps
  <2>3. SendInv' /\ CpuType' /\ Passes'
    BY <1>1, <2>1 DEF Arrive, sendVars, cpuVars, history, SendInv, SendType, Sending,
                      CpuType, Passes, OnlyOversizeStrays
  <2> QED
    BY <2>2, <2>3 DEF IInv
<1>4. CASE Depart
  <2>1. UNCHANGED <<recvVars, lastIn, cpuVars, stall>>
    BY <1>4 DEF Depart
  <2>2. RecvInv' /\ CpuType'
    BY <1>1, <2>1 DEF recvVars, cpuVars, RecvInv, RecvType, Progress, Stream,
                      Expected, PacketAt, CpuType
  <2>3. ob' \in Seq(Stored) /\ Len(ob') <= Capacity
    BY <1>1, <1>4, HeadTailProperties, LenProperties, CapacityAssumption
       DEF Depart, SendInv, SendType
  <2>4. SendInv' /\ Passes'
    BY <1>1, <1>4, <2>3 DEF Depart, recvVars, history, SendInv, SendType, Sending,
                            Passes, OnlyOversizeStrays
  <2> QED
    BY <2>2, <2>4 DEF IInv
<1>5. CASE AnyStore
  <2>1. UNCHANGED <<recvVars, sendVars, lastIn, history>>
    BY <1>5 DEF AnyStore
  <2>2. RecvInv' /\ SendInv' /\ Passes'
    BY <1>1, <2>1 DEF recvVars, sendVars, history, RecvInv, RecvType, Progress, Stream,
                      Expected, PacketAt, SendInv, SendType, Sending, Passes,
                      OnlyOversizeStrays
  <2>3. CpuType'
    BY <1>1, <1>5, SizesAssumption DEF AnyStore, CpuType, Bit
  <2> QED
    BY <2>2, <2>3 DEF IInv
<1>6. CASE UNCHANGED vars
  BY <1>1, <1>6 DEF vars, recvVars, sendVars, cpuVars, history, IInv, RecvInv,
                    RecvType, Progress, Stream, Expected, PacketAt, SendInv,
                    SendType, Sending, CpuType, Passes, OnlyOversizeStrays
<1> QED
  BY <1>2, <1>3, <1>4, <1>5, <1>6 DEF Next

\* The inductive invariant: the packet in progress, the stream it comes from,
\* and the sender's pass over its memory.
THEOREM Invariance == Spec => []IInv
  BY InitIInv, NextIInv, PTL DEF Spec

\* Every variable keeps its type, neither buffer is ever over its capacity.
THEOREM TypeCorrect == Spec => []TypeOK
<1>1. IInv => TypeOK
  BY DEF IInv, RecvInv, RecvType, Stream, SendInv, SendType, CpuType, Passes, TypeOK
<1> QED
  BY <1>1, Invariance, PTL

\* For packets and copies of all sizes, and whatever sizes came before: UMemory is
\* accessed past its end only for one that is larger than the memory.
THEOREM FittingStays == Spec => []OnlyOversizeStrays
<1>1. IInv => OnlyOversizeStrays
  BY DEF IInv, Passes
<1> QED
  BY <1>1, Invariance, PTL

\* recvProcess never takes one flit of a packet for another.
THEOREM HeadIsExpected == Spec => []HeadExpected
<1>1. IInv => HeadExpected
  <2> SUFFICES ASSUME IInv, ib # << >> PROVE HeadExpected
    BY DEF HeadExpected
  <2>1. RecvType /\ Progress /\ Stream
    BY DEF IInv, RecvInv
  <2>2. Expected(Head(ib))
    BY <2>1 DEF Stream
  <2>3. CASE rstate = "WAIT_PAYLOAD"
    <3>1. mem1[0].size \in Nat /\ raddr + rrem = mem1[0].size + 2
      BY <2>1, <2>3, FlitFacts DEF Progress
    <3>2. rrem \in Nat /\ raddr \in Nat
      BY <2>1 DEF RecvType
    <3>3. rrem > 0 => Head(ib).size = mem1[0].size /\ Head(ib).pos = raddr
      BY <2>2, <2>3 DEF Expected, PacketAt
    <3>4. rrem = 0 => Head(ib).pos = 0
      BY <2>2, <2>3 DEF Expected
    <3> QED
      BY <2>3, <3>1, <3>2, <3>3, <3>4 DEF HeadExpected
  <2>4. CASE rstate # "WAIT_PAYLOAD"
    BY <2>2, <2>4 DEF Expected, PacketAt, HeadExpected
  <2> QED
    BY <2>3, <2>4
<1> QED
  BY <1>1, Invariance, PTL

\* From the interrupt until the CPU configures the copy mem1 holds the packet.
THEOREM PacketIsHeld == Spec => []PacketHeld
<1>1. IInv => PacketHeld
  <2> SUFFICES ASSUME IInv, rstate = "WAIT_CONFIG_STALL"
               PROVE  /\ recvStatus = mem1[0].size + 2
                      /\ \A s \in 0 .. recvStatus - 1 :
                            mem1[s] = [mem1[0] EXCEPT !.pos = s]
                      /\ intr = 1
    BY DEF PacketHeld
  <2>1. RecvType /\ Progress /\ Passes /\ MemFlits \in Nat
    BY SizesAssumption DEF IInv, RecvInv
  <2>2. /\ mem1[0] \in Flit /\ recvStatus = mem1[0].size + 2 /\ intr = 1
        /\ raddr = recvStatus /\ raddr \in Nat /\ raddr <= MemFlits
        /\ \A s \in Slots : s < raddr => mem1[s] = PacketAt(s)
    BY <2>1 DEF RecvType, Progress, Passes
  <2>3. \A s : [mem1[0] EXCEPT !.pos = s] = PacketAt(s)
    <3>1. mem1[0] = [pkt |-> mem1[0].pkt, size |-> mem1[0].size, pos |-> mem1[0].pos]
      BY <2>2, FlitFacts
    <3> QED
      BY <3>1 DEF PacketAt
  <2>4. \A s \in 0 .. raddr - 1 : s \in Slots /\ s < raddr
    BY <2>1, <2>2 DEF Slots
  <2> QED
    BY <2>2, <2>3, <2>4
<1> QED
  BY <1>1, Invariance, PTL
=============================================================================

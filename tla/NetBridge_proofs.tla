-------------------------- MODULE NetBridge_proofs --------------------------
(***************************************************************************)
(* What holds of the bridge for every size of its buffers, every number of *)
(* datagrams the socket keeps and every set of packets: the hand-over of   *)
(* datagrams between the two threads, and what the constructor and the     *)
(* destructor leave behind.                                                *)
(***************************************************************************)
EXTENDS NetBridge, SequenceTheorems, TLAPS

Succ(n) == (n + 1) % PacketMod

\* What is allocated or open, stage by stage.  The receive thread is there only
\* after the constructor, so that it uses what is deleted only in the teardown.
LifeInv ==
    /\ stage \in Opening \cup {"running"} \cup Teardown \cup Ended
    /\ held \subseteq Things
    /\ stage \in Opening \ {"thread"} => "ib" \notin held
    /\ stage = "client_addr" => held = {"bridge", "signal"}
    /\ stage = "client_socket" => held = {"bridge", "signal", "client_addr"}
    /\ stage = "server_addr" => held = {"bridge", "signal"} \cup Client
    /\ stage = "server_socket" =>
          held = {"bridge", "signal", "server_addr"} \cup Client
    /\ stage = "server_bind" => held = {"bridge", "signal"} \cup Client \cup Server
    /\ stage \in {"thread", "running", "delete_ib"} => held = Things
    /\ stage = "delete_signal" => held = Things \ {"ib"}
    /\ stage = "delete_client" => held = Things \ {"ib", "signal"}
    /\ stage = "delete_server" => held = {"bridge"} \cup Server
    /\ stage \in {"terminate", "free"} => held = {"bridge"}
    /\ stage \in {"delete_tiles", "exited"} => held = {}
    /\ stage \in Ended =>
          \A e \in {Client, Server} : e \subseteq held \/ e \cap held = {}

ThreadInv ==
    /\ thread \in {"none", "check", "poll", "enter", "recv", "raise", "done",
                   "wild"}
    /\ stage \in Opening => thread = "none"
    /\ stage = "running" => thread # "wild"

\* A datagram is the buffer's from its arrival until its last flit is pushed.
InHand == signal = 1 \/ thread = "raise"

\* The number of the packet after the one that was pushed last.
AfterPushed == IF pushed = Junk THEN 0 ELSE Succ(pushed.pkt)

\* The number the next datagram from the socket will have.
Due == IF InHand THEN Succ(recvBuffer[0].pkt) ELSE AfterPushed

\* What has been pushed of the datagram in the buffer.
Pushing ==
    /\ recvState \in {"READY", "READ_LEN", "RECV_PAYLOAD"}
    /\ recvState = "READY" =>
          /\ pushed = Junk \/ IsTail(pushed)
          /\ InHand => recvBuffer[0].pkt = AfterPushed
    /\ recvState = "READ_LEN" => pushed = recvBuffer[0]
    /\ recvState = "RECV_PAYLOAD" =>
          /\ toRecv = recvBuffer[0].size + 2
          /\ recvCount \in 2 .. toRecv
          /\ pushed = recvBuffer[recvCount - 1]

\* The datagrams in the socket are those after the one in the buffer, in order.
Queued ==
    /\ socket \in Seq(Packets)
    /\ socket # << >> => socket[1].pkt = Due
    /\ \A i \in 1 .. Len(socket) - 1 : socket[i + 1].pkt = Succ(socket[i].pkt)
    /\ arrived = IF socket = << >> THEN Due ELSE Succ(socket[Len(socket)].pkt)

HandOver ==
    thread # "wild" =>
        /\ signal \in {0, 1}
        /\ DatagramHeld
        /\ Pushing
        /\ Queued

IInv == LifeInv /\ ThreadInv /\ HandOver

-----------------------------------------------------------------------------
\* A flit is the flit of a packet that fits.
LEMMA FlitFacts ==
    ASSUME NEW f \in Flit
    PROVE  /\ f = [pkt |-> f.pkt, size |-> f.size, pos |-> f.pos]
           /\ f.pkt \in Int /\ f.size \in Nat /\ f.size + 2 <= BufferFlits
           /\ f.pos \in Nat
           /\ f # Junk
<1>1. PICK p \in Packets : \E i \in 0 .. p.size + 1 : f = FlitOf(p, i)
  BY DEF Flit
<1>2. p.pkt \in Int /\ p.size \in Nat /\ p.size + 2 <= BufferFlits
  BY PacketsAssumption, PacketModAssumption
<1>3. PICK i \in 0 .. p.size + 1 : f = FlitOf(p, i)
  BY <1>1
<1>4. i \in Nat
  BY <1>2, <1>3
<1>5. f.pkt = p.pkt /\ f.size = p.size /\ f.pos = i
  BY <1>3 DEF FlitOf
<1> QED
  BY <1>2, <1>3, <1>4, <1>5 DEF FlitOf, Junk

\* The flits of a whole packet, which succeed one another in its buffer.
LEMMA WholeFacts ==
    ASSUME NEW b, Whole(b)
    PROVE  /\ b[0] \in Flit /\ b[0].pos = 0
           /\ \A i \in 0 .. b[0].size + 1 :
                 /\ b[i] = [pkt |-> b[0].pkt, size |-> b[0].size, pos |-> i]
                 /\ b[i] # Junk
                 /\ IsTail(b[i]) <=> i = b[0].size + 1
<1>1. b[0] \in Flit /\ b[0].pos = 0
  BY DEF Whole
<1>2. b[0].size \in Nat
  BY <1>1, FlitFacts
<1>3. ASSUME NEW i \in 0 .. b[0].size + 1
      PROVE  b[i] = [pkt |-> b[0].pkt, size |-> b[0].size, pos |-> i]
  BY DEF Whole, FlitOf
<1>4. ASSUME NEW i \in 0 .. b[0].size + 1
      PROVE  /\ b[i].pos = i /\ b[i].size = b[0].size
             /\ b[i] # Junk
             /\ IsTail(b[i]) <=> i = b[0].size + 1
  <2>1. b[i].pos = i /\ b[i].size = b[0].size
    <3> DEFINE size == b[0].size
    <3> DEFINE pkt == b[0].pkt
    <3>1. b[i] = [pkt |-> pkt, size |-> size, pos |-> i]
      BY <1>3
    <3>2. b[i].pos = i /\ b[i].size = size
      <4> HIDE DEF size, pkt
      <4> QED
        BY <3>1
    <3> QED
      BY <3>2
  <2>2. i \in Nat
    BY <1>2
  <2>3. Junk.pos = -1
    BY DEF Junk
  <2>4. b[i] # Junk
    BY <2>1, <2>2, <2>3
  <2> QED
    BY <2>1, <2>4 DEF IsTail
<1> QED
  BY <1>1, <1>3, <1>4

\* A datagram that recv() has put into the buffer is whole.
LEMMA ReceivedIsWhole ==
    ASSUME NEW b, NEW p \in Packets
    PROVE  Whole(Received(b, p)) /\ Received(b, p)[0].pkt = p.pkt
<1> DEFINE c == Received(b, p)
<1>1. p.size \in Nat /\ p.size + 2 <= BufferFlits /\ BufferFlits \in Nat
  BY PacketsAssumption
<1>2. ASSUME NEW i \in 0 .. p.size + 1
      PROVE  c[i] = [pkt |-> p.pkt, size |-> p.size, pos |-> i]
  <2>1. i \in Slots /\ i < p.size + 2
    BY <1>1 DEF Slots
  <2> QED
    BY <2>1 DEF Received, FlitOf
<1>3. 0 \in 0 .. p.size + 1
  BY <1>1
<1>4. c[0].pkt = p.pkt /\ c[0].size = p.size /\ c[0].pos = 0
  <2>1. c[0] = [pkt |-> p.pkt, size |-> p.size, pos |-> 0]
    BY <1>2, <1>3
  <2> HIDE DEF c
  <2> QED
    BY <2>1
<1>5. c[0] \in Flit
  <2>1. c[0] = FlitOf(p, 0)
    BY <1>2, <1>3 DEF FlitOf
  <2> QED
    BY <2>1, <1>3 DEF Flit
<1>6. \A i \in 0 .. c[0].size + 1 : c[i] = FlitOf(c[0], i)
  BY <1>2, <1>4 DEF FlitOf
<1> QED
  BY <1>4, <1>5, <1>6 DEF Whole

-----------------------------------------------------------------------------
LEMMA InitIInv == Init => IInv
<1> SUFFICES ASSUME Init PROVE IInv
  OBVIOUS
<1>1. LifeInv /\ ThreadInv
  BY DEF Init, LifeInv, ThreadInv, Opening, Teardown, Ended, Things, Client, Server
<1>2. DatagramHeld /\ Pushing
  BY DEF Init, DatagramHeld, Pushing, InHand
<1>3. Queued
  BY DEF Init, Queued, Due, InHand, AfterPushed
<1> QED
  BY <1>1, <1>2, <1>3 DEF IInv, HandOver, Init

\* The constructor and the destructor, step by step.
LEMMA LifeStep ==
    ASSUME IInv, Life
    PROVE  LifeInv' /\ ThreadInv'
<1> USE DEF Opening, Teardown, Ended, Things, Client, Server
<1>1. CASE Construct
  <2>1. CASE OpenClient
    BY <1>1, <2>1 DEF IInv, LifeInv, ThreadInv, Construct, OpenClient, Open, Throw
  <2>2. CASE OpenServer
    BY <1>1, <2>2 DEF IInv, LifeInv, ThreadInv, Construct, OpenServer, Open, Throw
  <2> QED
    BY <1>1, <2>1, <2>2 DEF Construct
<1>2. CASE StartThread
  BY <1>2 DEF IInv, LifeInv, ThreadInv, StartThread
<1>3. CASE EndSimulation /\ UNCHANGED thread
  BY <1>3 DEF IInv, LifeInv, ThreadInv, EndSimulation
<1>4. CASE Destroy /\ UNCHANGED thread
  BY <1>4 DEF IInv, LifeInv, ThreadInv, Destroy, Delete, SetTerminate, Free, Exit
<1> QED
  BY <1>1, <1>2, <1>3, <1>4 DEF Life

\* A step that leaves the buffer, the signal and the socket alone hands nothing
\* over: the thread passes its test of the signal only while it is low.
LEMMA HandOverKept ==
    ASSUME HandOver,
           UNCHANGED <<signal, recvBuffer, recvVars, socket, arrived>>,
           \/ thread' \in {thread, "wild"}
           \/ /\ thread \notin {"raise", "wild"} /\ thread' # "raise"
              /\ \/ thread' \in {"check", "poll", "done"}
                 \/ signal = 0 /\ recvState = "READY"
    PROVE  HandOver'
<1> SUFFICES ASSUME thread' # "wild" PROVE HandOver'
  BY DEF HandOver
<1>1. signal \in {0, 1} /\ DatagramHeld /\ Pushing /\ Queued
  BY DEF HandOver
<1>2. InHand' = InHand
  BY DEF InHand
<1>3. DatagramHeld'
  BY <1>1 DEF recvVars, DatagramHeld, Whole
<1>4. Pushing'
  BY <1>1, <1>2 DEF recvVars, Pushing, AfterPushed
<1>5. Queued'
  BY <1>1, <1>2 DEF recvVars, Queued, Due, AfterPushed
<1> QED
  BY <1>1, <1>3, <1>4, <1>5 DEF HandOver

\* recv() has the buffer to itself, and brings the datagram that is due.
LEMMA ReturnFromRecvKeeps ==
    ASSUME HandOver, ReturnFromRecv, UNCHANGED <<arrived, recvVars>>
    PROVE  HandOver'
<1>1. DatagramHeld /\ Pushing /\ Queued /\ signal = 0 /\ recvState = "READY"
  BY DEF HandOver, ReturnFromRecv, DatagramHeld
<1>2. /\ socket \in Seq(Packets) /\ socket # << >> /\ socket' = Tail(socket)
      /\ recvBuffer' = Received(recvBuffer, socket[1])
      /\ thread = "recv" /\ thread' = "raise" /\ signal' = 0
  BY <1>1 DEF ReturnFromRecv, Queued
<1>3. socket[1] \in Packets
  BY <1>2, ElementOfSeq
<1>4. Whole(recvBuffer)' /\ recvBuffer[0].pkt' = socket[1].pkt
  BY <1>2, <1>3, ReceivedIsWhole DEF Whole
<1>5. socket[1].pkt = AfterPushed /\ AfterPushed' = AfterPushed
  BY <1>1, <1>2 DEF Queued, Due, InHand, recvVars, AfterPushed
<1>6. DatagramHeld'
  BY <1>1, <1>2, <1>4 DEF DatagramHeld, recvVars
<1>7. Pushing'
  BY <1>1, <1>4, <1>5 DEF Pushing, recvVars
<1>8. InHand' /\ Due' = Succ(socket[1].pkt)
  BY <1>2, <1>4 DEF InHand, Due, Succ
<1>9. Queued'
  <2>1. socket' \in Seq(Packets) /\ Len(socket') = Len(socket) - 1
    BY <1>2, HeadTailProperties
  <2>2. \A i \in 1 .. Len(socket) - 1 : socket'[i] = socket[i + 1]
    BY <1>2, HeadTailProperties
  <2>3. Len(socket) \in Nat \ {0}
    BY <1>2, EmptySeq, LenProperties
  <2>4. CASE Len(socket) = 1
    <3>1. socket' = << >>
      BY <2>1, <2>4, EmptySeq
    <3>2. arrived' = Due'
      BY <1>1, <1>2, <1>8, <2>4 DEF Queued
    <3> QED
      BY <2>1, <3>1, <3>2, <2>4 DEF Queued
  <2>5. CASE Len(socket) > 1
    <3>1. socket' # << >>
      BY <2>1, <2>5, EmptySeq
    <3>2. socket'[1] = socket[2]
      BY <2>2, <2>3, <2>5
    <3>3. socket'[1].pkt = Due'
      BY <1>1, <1>8, <2>3, <2>5, <3>2 DEF Queued
    <3>4. socket'[Len(socket')] = socket[Len(socket)]
      BY <2>1, <2>2, <2>3, <2>5
    <3>5. arrived' = Succ(socket'[Len(socket')].pkt)
      BY <1>1, <1>2, <3>4 DEF Queued
    <3>6. ASSUME NEW i \in 1 .. Len(socket') - 1
          PROVE  socket'[i + 1].pkt = Succ(socket'[i].pkt)
      <4>1. i + 1 \in 1 .. Len(socket) - 1 /\ i \in 1 .. Len(socket) - 1
        BY <2>1, <2>3
      <4>2. socket'[i] = socket[i + 1] /\ socket'[i + 1] = socket[i + 2]
        BY <2>2, <2>3, <4>1
      <4>3. socket[(i + 1) + 1].pkt = Succ(socket[i + 1].pkt)
        BY <1>1, <4>1 DEF Queued
      <4> QED
        BY <4>2, <4>3
    <3> QED
      BY <2>1, <3>1, <3>3, <3>5, <3>6 DEF Queued, Succ
  <2> QED
    BY <2>3, <2>4, <2>5
<1> QED
  BY <1>2, <1>6, <1>7, <1>9 DEF HandOver

\* A raise gives the buffer to the simulation thread.
LEMMA RaiseSignalKeeps ==
    ASSUME HandOver, RaiseSignal, UNCHANGED <<arrived, recvVars>>
    PROVE  HandOver'
<1>1. signal \in {0, 1} /\ DatagramHeld /\ Pushing /\ Queued
  BY DEF HandOver, RaiseSignal
<1>2. InHand /\ InHand'
  BY DEF RaiseSignal, InHand
<1>3. DatagramHeld'
  BY <1>1 DEF RaiseSignal, DatagramHeld, Whole, recvVars
<1>4. Pushing'
  BY <1>1, <1>2 DEF RaiseSignal, Pushing, recvVars, AfterPushed
<1>5. Queued'
  BY <1>1, <1>2 DEF RaiseSignal, Queued, recvVars, Due
<1> QED
  BY <1>3, <1>4, <1>5 DEF HandOver, RaiseSignal

\* While a datagram is relayed its buffer stays, and so does what is due.
LEMMA RelayedKept ==
    ASSUME Queued, DatagramHeld, thread # "wild", signal = 1, signal' = 1,
           UNCHANGED <<thread, recvBuffer, socket, arrived>>
    PROVE  DatagramHeld' /\ Queued' /\ Whole(recvBuffer)
<1>1. InHand /\ InHand'
  BY DEF InHand
<1> QED
  BY <1>1 DEF DatagramHeld, Queued, Due, Whole

\* The relay of a datagram to the router: flit after flit, then the signal is
\* lowered and the buffer is the receive thread's again.
LEMMA SimulateKeeps ==
    ASSUME HandOver, thread # "wild", Simulate
    PROVE  HandOver' /\ [Follows(pushed, pushed')]_pushed
<1>1. /\ signal \in {0, 1} /\ DatagramHeld /\ Pushing /\ Queued
      /\ UNCHANGED <<thread, recvBuffer, socket, arrived>>
      /\ udpToNocProcess
  BY DEF HandOver, Simulate, Run, netVars
<1>2. CASE RelayAddr
  <2>1. DatagramHeld' /\ Queued' /\ Whole(recvBuffer)
    BY <1>1, <1>2, RelayedKept DEF RelayAddr
  <2>2. recvState = "READY" /\ InHand /\ pushed' = recvBuffer[0]
    BY <1>2 DEF RelayAddr, InHand, Push
  <2>3. Pushing'
    BY <1>1, <1>2, <2>2 DEF RelayAddr, Pushing
  <2>4. Follows(pushed, pushed')
    BY <1>1, <2>1, <2>2, WholeFacts DEF Pushing, Follows, AfterPushed, Succ
  <2> QED
    BY <1>1, <1>2, <2>1, <2>3, <2>4 DEF HandOver, RelayAddr
<1>3. CASE RelayLen
  <2>1. signal = 1 /\ signal' = 1
    BY <1>1, <1>3 DEF RelayLen, DatagramHeld
  <2>2. DatagramHeld' /\ Queued' /\ Whole(recvBuffer)
    BY <1>1, <2>1, RelayedKept
  <2>3. pushed = recvBuffer[0] /\ pushed' = recvBuffer[1]
    BY <1>1, <1>3 DEF RelayLen, Push, Pushing
  <2>4. /\ recvBuffer[0].size \in Nat
        /\ recvBuffer[0] = [pkt |-> recvBuffer[0].pkt,
                            size |-> recvBuffer[0].size, pos |-> 0]
        /\ recvBuffer[1] = [pkt |-> recvBuffer[0].pkt,
                            size |-> recvBuffer[0].size, pos |-> 1]
        /\ recvBuffer[0] # Junk /\ ~IsTail(recvBuffer[0])
    <3>1. recvBuffer[0].size \in Nat
      BY <2>2, WholeFacts, FlitFacts
    <3>2. 0 \in 0 .. recvBuffer[0].size + 1 /\ 1 \in 0 .. recvBuffer[0].size + 1
      BY <3>1
    <3> QED
      BY <2>2, <3>1, <3>2, WholeFacts
  <2>5. toRecv' = recvBuffer[0].size + 2 /\ recvCount' = 2
    BY <1>3, <2>4 DEF RelayLen, Word
  <2>6. Pushing'
    BY <1>1, <1>3, <2>3, <2>4, <2>5 DEF RelayLen, Pushing
  <2>7. Follows(pushed, pushed')
    BY <2>3, <2>4 DEF Follows
  <2> QED
    BY <1>1, <2>1, <2>2, <2>6, <2>7 DEF HandOver
<1>4. CASE RelayPayload
  <2>1. signal = 1 /\ signal' = 1
    BY <1>1, <1>4 DEF RelayPayload, DatagramHeld
  <2>2. DatagramHeld' /\ Queued' /\ Whole(recvBuffer)
    BY <1>1, <2>1, RelayedKept
  <2>3. /\ toRecv = recvBuffer[0].size + 2 /\ recvCount \in 2 .. toRecv
        /\ pushed = recvBuffer[recvCount - 1] /\ pushed' = recvBuffer[recvCount]
        /\ recvCount < toRecv
    BY <1>1, <1>4 DEF RelayPayload, Push, Pushing
  <2>4. recvBuffer[0].size \in Nat
    BY <2>2, WholeFacts, FlitFacts
  <2>5. /\ recvCount \in 0 .. recvBuffer[0].size + 1
        /\ recvCount - 1 \in 0 .. recvBuffer[0].size + 1
        /\ recvCount - 1 # recvBuffer[0].size + 1
    BY <2>3, <2>4
  <2>6. /\ recvCount' = recvCount + 1 /\ recvCount' \in 2 .. toRecv
        /\ recvCount' - 1 = recvCount
    BY <1>4, <2>3, <2>4 DEF RelayPayload
  <2>7. Pushing'
    BY <1>1, <1>4, <2>3, <2>6 DEF RelayPayload, Pushing
  <2>8. Follows(pushed, pushed')
    <3>1. /\ pushed = [pkt |-> recvBuffer[0].pkt, size |-> recvBuffer[0].size,
                       pos |-> recvCount - 1]
          /\ pushed # Junk /\ ~IsTail(pushed)
          /\ pushed' = [pkt |-> recvBuffer[0].pkt, size |-> recvBuffer[0].size,
                        pos |-> recvCount]
      BY <2>2, <2>3, <2>5, WholeFacts
    <3>2. (recvCount - 1) + 1 = recvCount
      BY <2>3, <2>4
    <3> QED
      BY <3>1, <3>2 DEF Follows
  <2> QED
    BY <1>1, <2>1, <2>2, <2>7, <2>8 DEF HandOver
<1>5. CASE Lower
  <2>1. /\ signal = 1 /\ Whole(recvBuffer) /\ signal' = 0
        /\ thread \in {"check", "poll", "done"} /\ pushed' = pushed
        /\ recvState' = "READY"
    BY <1>1, <1>5 DEF Lower, DatagramHeld
  <2>2. recvBuffer[0].size \in Nat
    BY <2>1, WholeFacts, FlitFacts
  <2>3. toRecv = recvBuffer[0].size + 2 /\ pushed = recvBuffer[toRecv - 1]
    BY <1>1, <1>5, <2>2 DEF Lower, Pushing
  <2>4. toRecv - 1 = recvBuffer[0].size + 1
    BY <2>2, <2>3
  <2>5. IsTail(pushed) /\ pushed # Junk /\ pushed.pkt = recvBuffer[0].pkt
    <3>1. toRecv - 1 \in 0 .. recvBuffer[0].size + 1
      BY <2>2, <2>4
    <3>2. /\ recvBuffer[toRecv - 1] = [pkt |-> recvBuffer[0].pkt,
                                       size |-> recvBuffer[0].size,
                                       pos |-> toRecv - 1]
          /\ recvBuffer[toRecv - 1] # Junk /\ IsTail(recvBuffer[toRecv - 1])
      BY <2>1, <2>4, <3>1, WholeFacts
    <3> QED
      BY <2>3, <3>2
  <2>6. InHand /\ ~InHand'
    BY <1>1, <2>1 DEF InHand
  <2>7. Due' = Due
    BY <2>1, <2>5, <2>6 DEF Due, AfterPushed
  <2>8. DatagramHeld'
    BY <1>1, <2>1 DEF DatagramHeld
  <2>9. Pushing'
    BY <2>1, <2>5, <2>6 DEF Pushing
  <2>10. Queued'
    BY <1>1, <2>7 DEF Queued
  <2> QED
    BY <1>1, <2>1, <2>8, <2>9, <2>10 DEF HandOver
<1>6. CASE RelayWaits
  <2>1. UNCHANGED <<signal, recvBuffer, recvVars, socket, arrived>>
    BY <1>1, <1>6 DEF RelayWaits
  <2> QED
    BY <1>1, <2>1, HandOverKept DEF recvVars
<1> QED
  BY <1>1, <1>2, <1>3, <1>4, <1>5, <1>6 DEF udpToNocProcess

\* A datagram that arrives takes the next number, behind those that wait.
LEMMA ArriveKeeps ==
    ASSUME HandOver, thread # "wild", Outside
    PROVE  HandOver'
<1>1. /\ signal \in {0, 1} /\ DatagramHeld /\ Pushing /\ Queued
      /\ UNCHANGED <<thread, signal, recvBuffer, recvVars>>
  BY DEF HandOver, Outside
<1>2. PICK p \in Packets : p.pkt = arrived /\ socket' = Append(socket, p)
  BY DEF Outside, Arrive
<1>3. arrived' = Succ(arrived)
  BY DEF Outside, Arrive, Succ
<1>4. InHand' = InHand /\ Due' = Due
  BY <1>1 DEF InHand, Due, AfterPushed, recvVars
<1>5. DatagramHeld' /\ Pushing'
  BY <1>1, <1>4 DEF DatagramHeld, Whole, Pushing, AfterPushed, recvVars
<1>6. Queued'
  <2>1. socket \in Seq(Packets) /\ Len(socket) \in Nat
    BY <1>1, LenProperties DEF Queued
  <2>2. /\ socket' \in Seq(Packets) /\ Len(socket') = Len(socket) + 1
        /\ \A i \in 1 .. Len(socket) : socket'[i] = socket[i]
        /\ socket'[Len(socket) + 1] = p
    BY <1>2, <2>1, AppendProperties
  <2>3. socket' # << >>
    BY <2>1, <2>2, EmptySeq
  <2>4. arrived' = Succ(socket'[Len(socket')].pkt)
    BY <1>2, <1>3, <2>2
  <2>5. CASE socket = << >>
    <3>1. Len(socket) = 0
      BY <2>5
    <3>2. socket'[1].pkt = Due'
      BY <1>1, <1>2, <1>4, <2>2, <2>5, <3>1 DEF Queued
    <3> QED
      BY <2>2, <2>3, <2>4, <3>1, <3>2 DEF Queued
  <2>6. CASE socket # << >>
    <3>1. Len(socket) >= 1
      BY <2>1, <2>6, EmptySeq
    <3>2. socket'[1].pkt = Due'
      BY <1>1, <1>4, <2>1, <2>2, <2>6, <3>1 DEF Queued
    <3>3. ASSUME NEW i \in 1 .. Len(socket') - 1
          PROVE  socket'[i + 1].pkt = Succ(socket'[i].pkt)
      <4>1. CASE i = Len(socket)
        BY <1>1, <1>2, <2>1, <2>2, <2>6, <4>1 DEF Queued
      <4>2. CASE i # Len(socket)
        <5>1. i \in 1 .. Len(socket) - 1 /\ i + 1 \in 1 .. Len(socket)
              /\ i \in 1 .. Len(socket)
          BY <2>1, <2>2, <4>2
        <5> QED
          BY <1>1, <2>2, <5>1 DEF Queued
      <4> QED
        BY <4>1, <4>2
    <3> QED
      BY <2>2, <2>3, <2>4, <3>2, <3>3 DEF Queued, Succ
  <2> QED
    BY <2>5, <2>6
<1> QED
  BY <1>1, <1>5, <1>6 DEF HandOver

-----------------------------------------------------------------------------
\* The receive thread, the simulation thread, the router and the outside leave
\* the life of the bridge alone, until a use of what is deleted ends it.
LEMMA ThreadStepKeeps ==
    ASSUME IInv, ThreadStep, UNCHANGED <<lifeVars, arrived, recvVars>>
    PROVE  IInv'
<1>1. LifeInv /\ ThreadInv /\ HandOver
  BY DEF IInv
<1>2. stage \notin Opening /\ thread # "wild"
  BY <1>1 DEF ThreadInv, ThreadStep, CheckTerminate, PollSignal, EnterRecv,
              ReturnFromRecv, RaiseSignal
<1>3. LifeInv' /\ ThreadInv'
  BY <1>1, <1>2 DEF LifeInv, ThreadInv, lifeVars, ThreadStep, CheckTerminate,
                    PollSignal, EnterRecv, ReturnFromRecv, RaiseSignal
<1>4. DatagramHeld
  BY <1>1, <1>2 DEF HandOver
<1>5. HandOver'
  <2>1. CASE CheckTerminate
    BY <1>1, <2>1, HandOverKept DEF CheckTerminate
  <2>2. CASE PollSignal
    <3>1. signal # 0 => thread' = "check"
      BY <2>2 DEF PollSignal
    <3>2. signal = 0 => recvState = "READY"
      BY <1>2, <1>4 DEF DatagramHeld
    <3> QED
      BY <1>1, <2>2, <3>1, <3>2, HandOverKept DEF PollSignal
  <2>3. CASE EnterRecv
    <3>1. signal = 0 /\ recvState = "READY"
      BY <1>1, <1>2, <1>4, <2>3 DEF EnterRecv, DatagramHeld, HandOver
    <3> QED
      BY <1>1, <2>3, <3>1, HandOverKept DEF EnterRecv
  <2> QED
    BY <1>1, <2>1, <2>2, <2>3, ReturnFromRecvKeeps, RaiseSignalKeeps DEF ThreadStep
<1> QED
  BY <1>3, <1>5 DEF IInv

LEMMA UseDeletedKeeps ==
    ASSUME IInv, UseDeleted, UNCHANGED held
    PROVE  IInv'
<1>1. LifeInv /\ ThreadInv
  BY DEF IInv
<1>2. thread' = "wild"
  BY DEF UseDeleted
<1>3. stage \in Teardown
  <2>1. stage \in Opening \cup {"running"} \cup Teardown
    BY <1>1 DEF LifeInv, UseDeleted
  <2>2. stage \notin Opening
    BY <1>1 DEF ThreadInv, UseDeleted
  <2>3. stage # "running"
    BY <1>1 DEF LifeInv, ThreadInv, UseDeleted, Touches, Things, Server
  <2> QED
    BY <2>1, <2>2, <2>3
<1>4. ThreadInv' /\ HandOver'
  BY <1>2, <1>3 DEF ThreadInv, HandOver, UseDeleted, Opening, Teardown, Ended
<1>5. stage' = stage => LifeInv'
  BY <1>1 DEF LifeInv
<1>6. stage' = "crashed" => LifeInv'
  BY <1>1, <1>3 DEF LifeInv, Opening, Teardown, Ended, Things, Client, Server
<1> QED
  BY <1>4, <1>5, <1>6 DEF IInv, UseDeleted

LEMMA NextIInv == IInv /\ [Next]_vars => IInv'
<1> SUFFICES ASSUME IInv, [Next]_vars PROVE IInv'
  OBVIOUS
<1>1. LifeInv /\ ThreadInv /\ HandOver
  BY DEF IInv
<1>2. CASE Life
  <2>1. UNCHANGED <<signal, recvBuffer, recvVars, socket, arrived>>
    BY <1>2 DEF Life, netVars
  <2>2. thread' = thread \/ (thread = "none" /\ thread' = "check")
    <3>1. stage = "thread" => thread = "none"
      BY <1>1 DEF ThreadInv, Opening
    <3> QED
      BY <1>2, <3>1 DEF Life, Construct, StartThread
  <2>3. HandOver'
    BY <1>1, <2>1, <2>2, HandOverKept
  <2> QED
    BY <1>2, <2>3, LifeStep DEF IInv
<1>3. CASE ReceiveThread
  BY <1>3, ThreadStepKeeps, UseDeletedKeeps DEF ReceiveThread
<1>4. CASE Simulate
  <2>1. thread # "wild" /\ LifeInv' /\ ThreadInv'
    BY <1>1, <1>4 DEF Simulate, Run, LifeInv, ThreadInv, lifeVars
  <2> QED
    BY <1>1, <1>4, <2>1, SimulateKeeps DEF IInv
<1>5. CASE Router
  <2>1. UNCHANGED <<lifeVars, thread, signal, recvBuffer, recvVars, socket, arrived>>
    BY <1>5 DEF Router, netVars
  <2>2. LifeInv' /\ ThreadInv'
    BY <1>1, <2>1 DEF LifeInv, ThreadInv, lifeVars
  <2> QED
    BY <1>1, <2>1, <2>2, HandOverKept DEF IInv
<1>6. CASE Outside
  <2>1. LifeInv' /\ ThreadInv'
    BY <1>1, <1>6 DEF Outside, LifeInv, ThreadInv, lifeVars
  <2>2. HandOver'
    BY <1>1, <1>6, ArriveKeeps DEF HandOver, Outside
  <2> QED
    BY <2>1, <2>2 DEF IInv
<1>7. CASE UNCHANGED vars
  <2>1. UNCHANGED <<lifeVars, thread, signal, recvBuffer, recvVars, socket, arrived>>
    BY <1>7 DEF vars, netVars
  <2>2. LifeInv' /\ ThreadInv'
    BY <1>1, <2>1 DEF LifeInv, ThreadInv, lifeVars
  <2> QED
    BY <1>1, <2>1, <2>2, HandOverKept DEF IInv
<1> QED
  BY <1>2, <1>3, <1>4, <1>5, <1>6, <1>7 DEF Next

\* The inductive invariant: what is held in each stage, where the receive
\* thread may be, and the hand-over of datagrams.
THEOREM Invariance == Spec => []IInv
  BY InitIInv, NextIInv, PTL DEF Spec

\* The buffer is the simulation thread's from the raise of the signal in
\* udpRecvThread until udpToNocProcess lowers it, and holds one whole datagram.
THEOREM DatagramIsHeld == Spec => []DatagramHeld
<1>1. IInv => DatagramHeld
  BY DEF IInv, HandOver, DatagramHeld
<1> QED
  BY <1>1, Invariance, PTL

\* udpToNocProcess pushes the datagrams the socket took, each one whole, once
\* and in order.
THEOREM InboundOrdered == Spec => InboundInOrder
<1>1. IInv /\ [Next]_vars => [Follows(pushed, pushed')]_pushed
  <2> SUFFICES ASSUME IInv, [Next]_vars, pushed' # pushed
               PROVE  Follows(pushed, pushed')
    OBVIOUS
  <2>1. Simulate
    BY DEF Next, vars, Life, ReceiveThread, Router, Outside, recvVars
  <2>2. thread # "wild"
    BY <2>1 DEF IInv, ThreadInv, Simulate, Run
  <2> QED
    BY <2>1, <2>2, SimulateKeeps DEF IInv
<1> QED
  BY <1>1, Invariance, PTL DEF Spec, InboundInOrder

\* The constructors and destructors of the endpoints leave none half open, in
\* whatever way the process ends.
THEOREM EndpointsKept == Spec => []EndpointsWhole
<1>1. IInv => EndpointsWhole
  BY DEF IInv, LifeInv, EndpointsWhole, Ended
<1> QED
  BY <1>1, Invariance, PTL

-----------------------------------------------------------------------------
(***************************************************************************)
(* The types, and the way out: nocToUdpProcess finds the packets in the    *)
(* stream of flits by counting, as the receiver of the network interface.  *)
(***************************************************************************)
\* The flit at position i of the packet in the send buffer.
OutAt(i) == [pkt |-> sendBuffer[0].pkt, size |-> sendBuffer[0].size, pos |-> i]

\* What the buffer holds of the packet in progress: it is the one after the
\* last that was sent.
Collected ==
    /\ sendState \in {"SEND_LEN", "SEND_PAYLOAD"} =>
          /\ sendBuffer[0] \in Flit /\ sendBuffer[0].pos = 0
          /\ sendBuffer[0].pkt = Succ(sent[0].pkt)
    /\ sendState = "SEND_PAYLOAD" =>
          /\ toSend = sendBuffer[0].size + 2
          /\ sendCount \in 2 .. toSend
          /\ \A i \in 0 .. sendCount - 1 : sendBuffer[i] = OutAt(i)

\* What is taken for the next flit.
Awaited(f) ==
    CASE sendState = "READY" -> f.pos = 0 /\ f.pkt = Succ(sent[0].pkt)
      [] sendState = "SEND_LEN" -> f = OutAt(1)
      [] sendState = "SEND_PAYLOAD" ->
            IF sendCount < toSend THEN f = OutAt(sendCount)
            ELSE f.pos = 0 /\ f.pkt = Succ(sendBuffer[0].pkt)

\* The flits in the buffer, and the one after them, succeed one another, and
\* the first of them is awaited.
OutStream ==
    /\ ib = << >> => \A f \in Flit : Follows(given, f) => Awaited(f)
    /\ ib # << >> => Awaited(ib[1]) /\ ib[Len(ib)] = given
    /\ \A i \in 1 .. Len(ib) - 1 : Follows(ib[i], ib[i + 1])

OutType ==
    /\ ib \in Seq(Flit) /\ Len(ib) <= Capacity /\ given \in Flit \cup {Junk}
    /\ sendBuffer \in [Slots -> Flit \cup {Junk}]
    /\ sent \in [Slots -> Flit \cup {Junk}]
    /\ sendState \in {"READY", "SEND_LEN", "SEND_PAYLOAD"}
    /\ toSend \in 0 .. BufferFlits /\ sendCount \in 0 .. BufferFlits

OutInv == OutType /\ Collected /\ OutStream

InType ==
    /\ terminate \in {0, 1} /\ signal \in {0, 1}
    /\ socket \in Seq(Packets) /\ Len(socket) <= SocketCapacity
    /\ arrived \in Number
    /\ recvBuffer \in [Slots -> Flit \cup {Junk}]
    /\ recvState \in {"READY", "READ_LEN", "RECV_PAYLOAD"}
    /\ toRecv \in 0 .. BufferFlits /\ recvCount \in 0 .. BufferFlits
    /\ ob \in Seq(Flit) /\ Len(ob) <= Capacity
    /\ pushed \in Flit \cup {Junk}

-----------------------------------------------------------------------------
\* After a flit comes the next of its packet, or the first of the next packet.
LEMMA FollowsFacts ==
    ASSUME NEW f \in Flit, NEW g \in Flit, Follows(f, g)
    PROVE  IF f.pos = f.size + 1 THEN g.pos = 0 /\ g.pkt = Succ(f.pkt)
           ELSE g = [pkt |-> f.pkt, size |-> f.size, pos |-> f.pos + 1]
<1>1. f # Junk /\ f = [pkt |-> f.pkt, size |-> f.size, pos |-> f.pos]
  BY FlitFacts
<1>2. [f EXCEPT !.pos = @ + 1] = [pkt |-> f.pkt, size |-> f.size, pos |-> f.pos + 1]
  <2> DEFINE a == f.pkt
  <2> DEFINE b == f.size
  <2> DEFINE c == f.pos
  <2>1. f = [pkt |-> a, size |-> b, pos |-> c]
    BY <1>1
  <2>2. [f EXCEPT !.pos = @ + 1] = [pkt |-> a, size |-> b, pos |-> c + 1]
    <3> HIDE DEF a, b, c
    <3> QED
      BY <2>1
  <2> QED
    BY <2>2
<1> QED
  BY <1>1, <1>2 DEF Follows, IsTail, Succ

\* A flit leaves the input buffer, and what follows it is awaited then.
LEMMA TakeFromStream ==
    ASSUME OutType, OutStream, ib # << >>, ib' = Tail(ib), UNCHANGED given,
           \A f \in Flit : Follows(ib[1], f) => Awaited(f)'
    PROVE  OutStream' /\ ib' \in Seq(Flit) /\ Len(ib') <= Capacity
<1>1. /\ ib' \in Seq(Flit) /\ Len(ib') = Len(ib) - 1
      /\ \A i \in 1 .. Len(ib) - 1 : ib'[i] = ib[i + 1]
  BY HeadTailProperties DEF OutType
<1>2. Len(ib) \in Nat /\ Len(ib) # 0 /\ Len(ib) <= Capacity
  BY EmptySeq, LenProperties DEF OutType
<1>3. \A i \in 1 .. Len(ib') - 1 : Follows(ib'[i], ib'[i + 1])
  <2> SUFFICES ASSUME NEW i \in 1 .. Len(ib') - 1
               PROVE  Follows(ib'[i], ib'[i + 1])
    OBVIOUS
  <2>1. i \in 1 .. Len(ib) - 1 /\ i + 1 \in 1 .. Len(ib) - 1
    BY <1>1, <1>2
  <2>2. ib'[i] = ib[i + 1] /\ ib'[i + 1] = ib[(i + 1) + 1]
    BY <1>1, <2>1
  <2> QED
    BY <2>1, <2>2 DEF OutStream
<1>4. CASE Len(ib) = 1
  <2>1. ib' = << >>
    BY <1>1, <1>4, EmptySeq
  <2>2. given' = ib[1]
    BY <1>4 DEF OutStream
  <2> QED
    BY <1>1, <1>2, <1>3, <2>1, <2>2, CapacityAssumption DEF OutStream
<1>5. CASE Len(ib) > 1
  <2>1. ib' # << >>
    <3>1. Len(ib') # 0
      BY <1>1, <1>2, <1>5
    <3> QED
      BY <3>1, EmptySeq
  <2>2. ib'[1] = ib[2] /\ ib[2] \in Flit /\ Follows(ib[1], ib[2])
    BY <1>1, <1>2, <1>5, ElementOfSeq DEF OutStream, OutType
  <2>3. ib'[Len(ib')] = given
    <3>1. Len(ib') \in 1 .. Len(ib) - 1 /\ Len(ib') + 1 = Len(ib)
      BY <1>1, <1>2, <1>5
    <3> QED
      BY <1>1, <3>1 DEF OutStream
  <2>4. Awaited(ib[1])'
    BY <2>2
  <2> QED
    BY <1>1, <1>2, <1>3, <2>1, <2>3, <2>4, CapacityAssumption DEF OutStream
<1>6. Len(ib) = 1 \/ Len(ib) > 1
  <2> DEFINE n == Len(ib)
  <2>1. n \in Nat /\ n # 0
    BY <1>2
  <2> HIDE DEF n
  <2>2. n = 1 \/ n > 1
    BY <2>1
  <2> QED
    BY <2>2 DEF n
<1> QED
  BY <1>4, <1>5, <1>6

\* What the step that takes a flit into a slot of the buffer has to show.
LEMMA TakeFacts ==
    ASSUME OutInv, NEW slot \in Slots, Take(slot)
    PROVE  /\ ib # << >> /\ ib' = Tail(ib) /\ ib[1] \in Flit /\ Awaited(ib[1])
           /\ sendBuffer' \in [Slots -> Flit \cup {Junk}]
           /\ sendBuffer'[slot] = ib[1]
           /\ \A i \in Slots \ {slot} : sendBuffer'[i] = sendBuffer[i]
<1>1. ib # << >> /\ ib' = Tail(ib) /\ sendBuffer' = [sendBuffer EXCEPT ![slot] = ib[1]]
  BY DEF Take
<1>2. ib[1] \in Flit
  BY <1>1, ElementOfSeq, EmptySeq, LenProperties DEF OutInv, OutType
<1> QED
  BY <1>1, <1>2 DEF OutInv, OutType, OutStream

LEMMA TakeAddrKeeps ==
    ASSUME OutInv, TakeAddr, UNCHANGED given, 0 \in Slots
    PROVE  OutInv'
<1> DEFINE h == ib[1]
<1>1. /\ sendState = "READY" /\ sendState' = "SEND_LEN"
      /\ UNCHANGED <<toSend, sendCount, sent>>
      /\ OutType /\ OutStream
  BY DEF TakeAddr, OutInv
<1>2. /\ ib # << >> /\ ib' = Tail(ib) /\ h \in Flit /\ Awaited(h)
      /\ sendBuffer' \in [Slots -> Flit \cup {Junk}] /\ sendBuffer'[0] = h
  BY TakeFacts DEF TakeAddr
<1>3. h.pos = 0 /\ h.pkt = Succ(sent[0].pkt) /\ h.size \in Nat
  BY <1>1, <1>2, FlitFacts DEF Awaited
<1>4. ASSUME NEW f \in Flit, Follows(h, f)
      PROVE  Awaited(f)'
  <2>1. f = [pkt |-> h.pkt, size |-> h.size, pos |-> 1]
    BY <1>2, <1>3, <1>4, FollowsFacts
  <2> QED
    BY <1>1, <1>2, <2>1 DEF Awaited, OutAt
<1>5. OutStream' /\ ib' \in Seq(Flit) /\ Len(ib') <= Capacity
  BY <1>1, <1>2, <1>4, TakeFromStream
<1>6. OutType'
  BY <1>1, <1>2, <1>5 DEF OutType
<1>7. Collected'
  BY <1>1, <1>2, <1>3 DEF Collected
<1> QED
  BY <1>5, <1>6, <1>7 DEF OutInv

LEMMA TakeLenKeeps ==
    ASSUME OutInv, TakeLen, UNCHANGED given
    PROVE  OutInv'
<1> DEFINE h == ib[1]
<1>1. /\ sendState = "SEND_LEN" /\ sendState' = "SEND_PAYLOAD"
      /\ sendCount' = 2 /\ toSend' = Word(h) + 2 /\ UNCHANGED sent
      /\ OutType /\ OutStream
      /\ sendBuffer[0] \in Flit /\ sendBuffer[0].pos = 0
      /\ sendBuffer[0].pkt = Succ(sent[0].pkt)
  BY DEF TakeLen, OutInv, Collected
<1>2. sendBuffer[0].size \in Nat /\ sendBuffer[0].size + 2 <= BufferFlits
  BY <1>1, FlitFacts
<1>3. BufferFlits \in Nat /\ 0 \in Slots /\ 1 \in Slots
  BY <1>2, PacketsAssumption DEF Slots
<1>4. /\ ib # << >> /\ ib' = Tail(ib) /\ h \in Flit /\ Awaited(h)
      /\ sendBuffer' \in [Slots -> Flit \cup {Junk}]
      /\ sendBuffer'[1] = h /\ sendBuffer'[0] = sendBuffer[0]
  BY <1>3, TakeFacts DEF TakeLen
<1>5. h = OutAt(1) /\ h.pkt = sendBuffer[0].pkt /\ h.size = sendBuffer[0].size
      /\ h.pos = 1
  BY <1>1, <1>4 DEF Awaited, OutAt
<1>6. toSend' = h.size + 2
  BY <1>1, <1>5 DEF Word
<1>7. ASSUME NEW f \in Flit, Follows(h, f)
      PROVE  Awaited(f)'
  <2>1. IF h.size = 0 THEN f.pos = 0 /\ f.pkt = Succ(h.pkt)
        ELSE f = [pkt |-> h.pkt, size |-> h.size, pos |-> 2]
    BY <1>2, <1>4, <1>5, <1>7, FollowsFacts
  <2> QED
    BY <1>1, <1>2, <1>4, <1>5, <1>6, <2>1 DEF Awaited, OutAt
<1>8. OutStream' /\ ib' \in Seq(Flit) /\ Len(ib') <= Capacity
  BY <1>1, <1>4, <1>7, TakeFromStream
<1>9. OutType'
  BY <1>1, <1>2, <1>3, <1>4, <1>5, <1>6, <1>8 DEF OutType
<1>10. \A i \in 0 .. sendCount' - 1 : sendBuffer'[i] = OutAt(i)'
  <2>1. sendBuffer[0] = OutAt(0)
    BY <1>1, FlitFacts DEF OutAt
  <2>2. \A i : OutAt(i)' = OutAt(i)
    BY <1>4 DEF OutAt
  <2> QED
    BY <1>1, <1>4, <1>5, <2>1, <2>2
<1>11. Collected'
  BY <1>1, <1>2, <1>4, <1>5, <1>6, <1>10 DEF Collected
<1> QED
  BY <1>8, <1>9, <1>11 DEF OutInv

LEMMA TakePayloadKeeps ==
    ASSUME OutInv, TakePayload, UNCHANGED given
    PROVE  OutInv'
<1> DEFINE h == ib[1]
<1>1. /\ sendState = "SEND_PAYLOAD" /\ sendState' = "SEND_PAYLOAD"
      /\ sendCount < toSend /\ sendCount' = sendCount + 1
      /\ UNCHANGED <<toSend, sent>>
      /\ OutType /\ OutStream
      /\ sendBuffer[0] \in Flit /\ sendBuffer[0].pos = 0
      /\ sendBuffer[0].pkt = Succ(sent[0].pkt)
      /\ toSend = sendBuffer[0].size + 2 /\ sendCount \in 2 .. toSend
      /\ \A i \in 0 .. sendCount - 1 : sendBuffer[i] = OutAt(i)
  BY DEF TakePayload, OutInv, Collected
<1>2. sendBuffer[0].size \in Nat /\ sendBuffer[0].size + 2 <= BufferFlits
  BY <1>1, FlitFacts
<1>3. /\ BufferFlits \in Nat /\ sendCount \in Nat /\ sendCount \in Slots
      /\ \A i \in 0 .. sendCount - 1 : i \in Slots \ {sendCount}
  BY <1>1, <1>2, PacketsAssumption DEF Slots
<1>4. /\ ib # << >> /\ ib' = Tail(ib) /\ h \in Flit /\ Awaited(h)
      /\ sendBuffer' \in [Slots -> Flit \cup {Junk}]
      /\ sendBuffer'[sendCount] = h
      /\ \A i \in 0 .. sendCount - 1 : sendBuffer'[i] = sendBuffer[i]
  BY <1>3, TakeFacts DEF TakePayload
<1>5. h = OutAt(sendCount) /\ h.pkt = sendBuffer[0].pkt
      /\ h.size = sendBuffer[0].size /\ h.pos = sendCount
  BY <1>1, <1>4 DEF Awaited, OutAt
<1>6. sendBuffer'[0] = sendBuffer[0] /\ \A i : OutAt(i)' = OutAt(i)
  <2>1. sendBuffer'[0] = sendBuffer[0]
    BY <1>1, <1>2, <1>4
  <2> QED
    BY <2>1 DEF OutAt
<1>7. ASSUME NEW f \in Flit, Follows(h, f)
      PROVE  Awaited(f)'
  <2>1. IF sendCount + 1 = toSend THEN f.pos = 0 /\ f.pkt = Succ(h.pkt)
        ELSE f = [pkt |-> h.pkt, size |-> h.size, pos |-> sendCount + 1]
    <3>1. h.pos = h.size + 1 <=> sendCount + 1 = toSend
      BY <1>1, <1>2, <1>3, <1>5
    <3> QED
      BY <1>4, <1>5, <1>7, <3>1, FollowsFacts
  <2>2. sendCount + 1 # toSend => f = OutAt(sendCount + 1) /\ sendCount + 1 < toSend
    BY <1>1, <1>2, <1>3, <1>5, <2>1 DEF OutAt
  <2>3. sendCount + 1 = toSend => ~(sendCount + 1 < toSend)
    BY <1>1, <1>2, <1>3
  <2> QED
    BY <1>1, <1>5, <1>6, <2>1, <2>2, <2>3 DEF Awaited
<1>8. OutStream' /\ ib' \in Seq(Flit) /\ Len(ib') <= Capacity
  BY <1>1, <1>4, <1>7, TakeFromStream
<1>9. OutType'
  BY <1>1, <1>2, <1>3, <1>4, <1>8 DEF OutType
<1>10. \A i \in 0 .. sendCount' - 1 : sendBuffer'[i] = OutAt(i)'
  <2> SUFFICES ASSUME NEW i \in 0 .. sendCount' - 1
               PROVE  sendBuffer'[i] = OutAt(i)
    BY <1>6
  <2>1. i = sendCount \/ i \in 0 .. sendCount - 1
    BY <1>1, <1>3
  <2> QED
    BY <1>1, <1>4, <1>5, <2>1
<1>11. Collected'
  BY <1>1, <1>2, <1>3, <1>6, <1>10 DEF Collected
<1> QED
  BY <1>8, <1>9, <1>11 DEF OutInv

\* The datagram goes when the packet in the buffer is whole.
LEMMA SendDatagramKeeps ==
    ASSUME OutInv, SendDatagram, UNCHANGED given
    PROVE  /\ OutInv'
           /\ Whole(sent') /\ sent'[0].pkt = (sent[0].pkt + 1) % PacketMod
<1>1. /\ sendState = "SEND_PAYLOAD" /\ sendState' = "READY"
      /\ sendCount >= toSend /\ sent' = sendBuffer
      /\ UNCHANGED <<sendBuffer, toSend, sendCount, ib, given>>
      /\ OutType /\ OutStream
      /\ sendBuffer[0] \in Flit /\ sendBuffer[0].pos = 0
      /\ sendBuffer[0].pkt = Succ(sent[0].pkt)
      /\ toSend = sendBuffer[0].size + 2 /\ sendCount \in 2 .. toSend
      /\ \A i \in 0 .. sendCount - 1 : sendBuffer[i] = OutAt(i)
  BY DEF SendDatagram, OutInv, Collected
<1>2. sendBuffer[0].size \in Nat
  BY <1>1, FlitFacts
<1>3. 0 .. sendCount - 1 = 0 .. sendBuffer[0].size + 1 /\ ~(sendCount < toSend)
  BY <1>1, <1>2
<1>4. Whole(sent')
  BY <1>1, <1>3 DEF Whole, FlitOf, OutAt
<1>5. OutType' /\ Collected'
  BY <1>1 DEF OutType, Collected
<1>6. \A f : Awaited(f) => Awaited(f)'
  BY <1>1, <1>3 DEF Awaited
<1>7. OutStream'
  BY <1>1, <1>6 DEF OutStream
<1> QED
  BY <1>1, <1>4, <1>5, <1>7 DEF OutInv, Succ

\* nocToUdpProcess.
LEMMA OutboundStep ==
    ASSUME OutInv, nocToUdpProcess, UNCHANGED given
    PROVE  /\ OutInv'
           /\ sent' # sent =>
                 Whole(sent') /\ sent'[0].pkt = (sent[0].pkt + 1) % PacketMod
<1>1. CASE TakeAddr
  <2>1. ib # << >> /\ ib[1] \in Flit
    BY <1>1, ElementOfSeq, EmptySeq, LenProperties DEF TakeAddr, Take, OutInv, OutType
  <2>2. 0 \in Slots
    <3>1. ib[1].size \in Nat /\ ib[1].size + 2 <= BufferFlits
      BY <2>1, FlitFacts
    <3> QED
      BY <3>1, PacketsAssumption DEF Slots
  <2> QED
    BY <1>1, <2>2, TakeAddrKeeps DEF TakeAddr
<1>2. CASE TakeLen
  BY <1>2, TakeLenKeeps DEF TakeLen
<1>3. CASE TakePayload
  BY <1>3, TakePayloadKeeps DEF TakePayload
<1>4. CASE SendDatagram
  BY <1>4, SendDatagramKeeps
<1>5. CASE TakeWaits
  BY <1>5 DEF TakeWaits, sendVars, OutInv, OutType, Collected, OutStream, Awaited, OutAt
<1> QED
  BY <1>1, <1>2, <1>3, <1>4, <1>5 DEF nocToUdpProcess

\* A flit of the router goes behind those that wait.
LEMMA RouterGivesKeeps ==
    ASSUME OutInv, RouterGives, UNCHANGED sendVars
    PROVE  OutInv'
<1>1. PICK f \in Flit : Follows(given, f) /\ ib' = Append(ib, f) /\ given' = f
  BY DEF RouterGives
<1>2. OutType /\ Collected /\ OutStream /\ Len(ib) < Capacity
  BY DEF OutInv, RouterGives
<1>3. /\ ib' \in Seq(Flit) /\ Len(ib') = Len(ib) + 1 /\ Len(ib) \in Nat
      /\ \A i \in 1 .. Len(ib) : ib'[i] = ib[i]
      /\ ib'[Len(ib) + 1] = f
  BY <1>1, <1>2, AppendProperties, LenProperties DEF OutType
<1>4. OutType' /\ Collected'
  BY <1>1, <1>2, <1>3, CapacityAssumption DEF OutType, Collected, OutAt, sendVars
<1>5. \A g : Awaited(g)' = Awaited(g)
  BY DEF Awaited, OutAt, sendVars
<1>6. ib' # << >> /\ ib'[Len(ib')] = given'
  BY <1>1, <1>3
<1>7. CASE ib = << >>
  <2>1. Len(ib) = 0
    BY <1>7
  <2>2. Awaited(ib[1])'
    BY <1>1, <1>2, <1>3, <1>5, <1>7, <2>1 DEF OutStream
  <2>3. \A i \in 1 .. Len(ib') - 1 : Follows(ib'[i], ib'[i + 1])
    BY <1>3, <2>1
  <2> QED
    BY <1>4, <1>6, <2>2, <2>3 DEF OutInv, OutStream
<1>8. CASE ib # << >>
  <2>1. Len(ib) >= 1
    BY <1>2, <1>3, <1>8, EmptySeq DEF OutType
  <2>2. Awaited(ib[1])'
    BY <1>2, <1>3, <1>5, <1>8, <2>1 DEF OutStream
  <2>3. ASSUME NEW i \in 1 .. Len(ib') - 1
        PROVE  Follows(ib'[i], ib'[i + 1])
    <3>1. CASE i = Len(ib)
      BY <1>1, <1>2, <1>3, <1>8, <2>1, <3>1 DEF OutStream
    <3>2. CASE i # Len(ib)
      <4>1. i \in 1 .. Len(ib) - 1 /\ i \in 1 .. Len(ib) /\ i + 1 \in 1 .. Len(ib)
        BY <1>3, <3>2
      <4> QED
        BY <1>2, <1>3, <4>1 DEF OutStream
    <3> QED
      BY <3>1, <3>2
  <2> QED
    BY <1>4, <1>6, <2>2, <2>3 DEF OutInv, OutStream
<1> QED
  BY <1>7, <1>8

LEMMA InitOutInv == Init => OutInv
<1> SUFFICES ASSUME Init PROVE OutInv
  OBVIOUS
<1>1. OutType
  BY CapacityAssumption, PacketsAssumption DEF Init, OutType
<1>2. Collected
  BY DEF Init, Collected
<1>3. ASSUME NEW f \in Flit, Follows(Junk, f)
      PROVE  f.pos = 0 /\ f.pkt = Succ(sent[0].pkt)
  <2>1. f.pos = 0 /\ f.pkt = 0
    BY <1>3 DEF Follows
  <2>2. f.size \in Nat /\ f.size + 2 <= BufferFlits
    BY FlitFacts
  <2>3. 0 \in Slots
    BY <2>2, PacketsAssumption DEF Slots
  <2>4. sent[0].pkt = -1
    BY <2>3 DEF Init, Junk
  <2>5. Succ(-1) = 0
    BY PacketModAssumption DEF Succ
  <2> QED
    BY <2>1, <2>4, <2>5
<1>4. OutStream
  BY <1>3 DEF Init, OutStream, Awaited
<1> QED
  BY <1>1, <1>2, <1>4 DEF OutInv

LEMMA NextOutInv ==
    ASSUME OutInv, [Next]_vars
    PROVE  /\ OutInv'
           /\ sent' # sent =>
                 Whole(sent') /\ sent'[0].pkt = (sent[0].pkt + 1) % PacketMod
<1>1. CASE Simulate
  BY <1>1, OutboundStep DEF Simulate, Run
<1>2. CASE Router
  <2>1. UNCHANGED sendVars
    BY <1>2 DEF Router
  <2>2. CASE RouterGives
    BY <2>1, <2>2, RouterGivesKeeps DEF sendVars
  <2>3. CASE RouterTakes
    BY <2>1, <2>3 DEF RouterTakes, sendVars, OutInv, OutType, Collected, OutStream,
                      Awaited, OutAt
  <2> QED
    BY <1>2, <2>2, <2>3 DEF Router
<1>3. CASE Life \/ ReceiveThread \/ Outside \/ UNCHANGED vars
  <2>1. UNCHANGED <<sendVars, ib, given>>
    BY <1>3 DEF Life, ReceiveThread, Outside, vars, nocVars
  <2> QED
    BY <2>1 DEF sendVars, OutInv, OutType, Collected, OutStream, Awaited, OutAt
<1> QED
  BY <1>1, <1>2, <1>3 DEF Next

\* nocToUdpProcess sends whole packets, each once and in order, at the start of
\* its datagrams.
THEOREM OutboundIsWhole == Spec => OutboundWhole
<1>1. Init => OutInv
  BY InitOutInv
<1>2. OutInv /\ [Next]_vars => OutInv'
  BY NextOutInv
<1>3. OutInv /\ [Next]_vars =>
         [Whole(sent') /\ sent'[0].pkt = (sent[0].pkt + 1) % PacketMod]_sent
  BY NextOutInv
<1> QED
  BY <1>1, <1>2, <1>3, PTL DEF Spec, OutboundWhole

-----------------------------------------------------------------------------
\* What the relay of a datagram reads is in the buffer, and its counters fit.
LEMMA SimulateInType ==
    ASSUME IInv, InType, Simulate
    PROVE  InType'
<1>1. thread # "wild"
  BY DEF IInv, ThreadInv, Simulate, Run
<1>2. /\ DatagramHeld /\ Pushing /\ udpToNocProcess
      /\ UNCHANGED <<terminate, socket, arrived, recvBuffer>>
  BY <1>1 DEF IInv, HandOver, Simulate, Run, netVars, lifeVars
<1>3. /\ ob \in Seq(Flit) /\ Len(ob) \in Nat /\ Len(ob) <= Capacity
      /\ toRecv \in 0 .. BufferFlits /\ recvCount \in 0 .. BufferFlits
      /\ BufferFlits \in Nat /\ Capacity \in Nat
  BY LenProperties, PacketsAssumption, CapacityAssumption DEF InType
<1>4. Whole(recvBuffer) =>
         /\ recvBuffer[0].size \in Nat /\ recvBuffer[0].size + 2 <= BufferFlits
         /\ \A i \in 0 .. recvBuffer[0].size + 1 :
               recvBuffer[i] \in Flit /\ recvBuffer[i].size = recvBuffer[0].size
               /\ recvBuffer[i].pos = i
  <2> SUFFICES ASSUME Whole(recvBuffer)
               PROVE  /\ recvBuffer[0].size \in Nat
                      /\ recvBuffer[0].size + 2 <= BufferFlits
                      /\ \A i \in 0 .. recvBuffer[0].size + 1 :
                            /\ recvBuffer[i] \in Flit
                            /\ recvBuffer[i].size = recvBuffer[0].size
                            /\ recvBuffer[i].pos = i
    OBVIOUS
  <2> DEFINE size == recvBuffer[0].size
  <2> DEFINE pkt == recvBuffer[0].pkt
  <2>1. size \in Nat /\ size + 2 <= BufferFlits
    BY WholeFacts, FlitFacts
  <2>2. ASSUME NEW i \in 0 .. size + 1
        PROVE  /\ recvBuffer[i] \in Flit
               /\ recvBuffer[i].size = size /\ recvBuffer[i].pos = i
    <3>1. recvBuffer[i] = [pkt |-> pkt, size |-> size, pos |-> i]
      BY WholeFacts
    <3>2. i \in Slots
      BY <2>1, <1>3 DEF Slots
    <3>3. recvBuffer[i] \in Flit \cup {Junk} /\ recvBuffer[i] # Junk
      BY <3>2, WholeFacts DEF InType
    <3>4. recvBuffer[i].size = size /\ recvBuffer[i].pos = i
      <4> HIDE DEF size, pkt
      <4> QED
        BY <3>1
    <3> QED
      BY <3>3, <3>4
  <2> QED
    BY <2>1, <2>2
<1>5. ASSUME NEW f \in Flit, Push(f)
      PROVE  /\ ob' \in Seq(Flit) /\ Len(ob') <= Capacity
             /\ pushed' \in Flit \cup {Junk}
  BY <1>3, <1>5, AppendProperties DEF Push
<1>6. CASE RelayAddr
  <2>1. recvBuffer[0] \in Flit
    BY <1>1, <1>2, <1>6, WholeFacts DEF RelayAddr, DatagramHeld
  <2> QED
    BY <1>2, <1>5, <1>6, <2>1 DEF RelayAddr, InType
<1>7. CASE RelayLen
  <2>1. Whole(recvBuffer)
    BY <1>1, <1>2, <1>7 DEF RelayLen, DatagramHeld
  <2>2. recvBuffer[0].size \in Nat /\ recvBuffer[0].size + 2 <= BufferFlits
    BY <1>4, <2>1
  <2>3. 1 \in 0 .. recvBuffer[0].size + 1
    BY <2>2
  <2>4. recvBuffer[1] \in Flit /\ Word(recvBuffer[1]) = recvBuffer[0].size
    BY <1>4, <2>1, <2>3 DEF Word
  <2>5. toRecv' \in 0 .. BufferFlits /\ recvCount' \in 0 .. BufferFlits
    BY <1>3, <1>7, <2>2, <2>4 DEF RelayLen
  <2> QED
    BY <1>2, <1>5, <1>7, <2>4, <2>5 DEF RelayLen, InType
<1>8. CASE RelayPayload
  <2>1. Whole(recvBuffer)
    BY <1>1, <1>2, <1>8 DEF RelayPayload, DatagramHeld
  <2>2. recvBuffer[0].size \in Nat /\ toRecv = recvBuffer[0].size + 2
    BY <1>2, <1>4, <1>8, <2>1 DEF RelayPayload, Pushing
  <2>3. recvCount \in 0 .. recvBuffer[0].size + 1
    BY <1>3, <1>8, <2>2 DEF RelayPayload
  <2>4. recvBuffer[recvCount] \in Flit
    BY <1>4, <2>1, <2>3
  <2>5. recvCount' \in 0 .. BufferFlits
    BY <1>3, <1>8 DEF RelayPayload
  <2> QED
    BY <1>2, <1>5, <1>8, <2>4, <2>5 DEF RelayPayload, InType
<1>9. CASE Lower
  BY <1>2, <1>9 DEF Lower, InType
<1>10. CASE RelayWaits
  BY <1>2, <1>10 DEF RelayWaits, recvVars, InType
<1> QED
  BY <1>2, <1>6, <1>7, <1>8, <1>9, <1>10 DEF udpToNocProcess

\* recv() brings a packet of the socket.
LEMMA ThreadInType ==
    ASSUME InType, ThreadStep, UNCHANGED <<terminate, arrived, recvVars, ob>>
    PROVE  InType'
<1>1. socket \in Seq(Packets) /\ Len(socket) \in Nat /\ Len(socket) <= SocketCapacity
  BY LenProperties DEF InType
<1>2. CASE ReturnFromRecv
  <2>1. socket # << >> /\ socket' = Tail(socket) /\ signal' = signal
        /\ recvBuffer' = Received(recvBuffer, Head(socket))
    BY <1>2 DEF ReturnFromRecv
  <2>2. Head(socket) \in Packets /\ socket' \in Seq(Packets)
        /\ Len(socket') = Len(socket) - 1
    BY <1>1, <2>1, HeadTailProperties
  <2>3. Len(socket') <= SocketCapacity
    <3> DEFINE n == Len(socket)
    <3>1. n \in Nat /\ n <= SocketCapacity /\ Len(socket') = n - 1
      BY <1>1, <2>2
    <3>2. Len(socket') < n
      BY <3>1
    <3> QED
      BY <3>1, <3>2, SocketAssumption
  <2>4. ASSUME NEW p \in Packets, NEW i \in Slots
        PROVE  Received(recvBuffer, p)[i] \in Flit \cup {Junk}
    <3>1. p.size \in Nat
      BY PacketsAssumption
    <3>2. i < p.size + 2 => FlitOf(p, i) \in Flit
      BY <3>1, PacketsAssumption DEF Flit, Slots
    <3> QED
      BY <3>2 DEF Received, InType
  <2>5. recvBuffer' \in [Slots -> Flit \cup {Junk}]
    BY <2>1, <2>2, <2>4 DEF Received
  <2> QED
    BY <2>1, <2>2, <2>3, <2>5 DEF InType, recvVars
<1>3. CASE ~ReturnFromRecv
  BY <1>3 DEF ThreadStep, CheckTerminate, PollSignal, EnterRecv, RaiseSignal,
              InType, recvVars
<1> QED
  BY <1>2, <1>3

\* A datagram arrives if there is room for it.
LEMMA ArriveInType ==
    ASSUME InType, Arrive, UNCHANGED <<terminate, signal, recvBuffer, recvVars, ob>>
    PROVE  InType'
<1>1. socket \in Seq(Packets) /\ Len(socket) \in Nat /\ Len(socket) <= SocketCapacity
  BY LenProperties DEF InType
<1>2. PICK p \in Packets : socket' = Append(socket, p)
  BY DEF Arrive
<1>3. socket' \in Seq(Packets) /\ Len(socket') = Len(socket) + 1
  BY <1>1, <1>2, AppendProperties
<1>4. Len(socket') <= SocketCapacity
  BY <1>1, <1>3, SocketAssumption DEF Arrive
<1>5. arrived' \in Number
  BY PacketModAssumption DEF Arrive, InType, Number
<1> QED
  BY <1>3, <1>4, <1>5 DEF InType, recvVars

LEMMA NextInType ==
    ASSUME IInv, InType, [Next]_vars
    PROVE  InType'
<1>1. CASE Simulate
  BY <1>1, SimulateInType
<1>2. CASE ReceiveThread
  <2>1. CASE ThreadStep /\ UNCHANGED <<lifeVars, arrived, recvVars, sendVars, nocVars>>
    BY <2>1, ThreadInType DEF lifeVars, nocVars
  <2>2. CASE UseDeleted /\ UNCHANGED <<held, terminate, netVars, signal, recvBuffer,
                                       recvVars, sendVars, nocVars>>
    BY <2>2 DEF InType, netVars, recvVars, nocVars
  <2> QED
    BY <1>2, <2>1, <2>2 DEF ReceiveThread
<1>3. CASE Outside
  BY <1>3, ArriveInType DEF Outside, lifeVars, nocVars
<1>4. CASE Life
  BY <1>4 DEF Life, Construct, StartThread, EndSimulation, Destroy, Delete, SetTerminate,
              Free, Exit, InType, netVars, recvVars, nocVars
<1>5. CASE Router
  <2>1. UNCHANGED <<terminate, socket, arrived, signal, recvBuffer, recvVars>>
    BY <1>5 DEF Router, lifeVars, netVars
  <2>2. ob' \in Seq(Flit) /\ Len(ob') <= Capacity
    <3>1. CASE RouterTakes
      <4>1. ob \in Seq(Flit) /\ ob # << >> /\ ob' = Tail(ob) /\ Len(ob) <= Capacity
        BY <3>1 DEF RouterTakes, InType
      <4>2. ob' \in Seq(Flit) /\ Len(ob') = Len(ob) - 1 /\ Len(ob) \in Nat
        BY <4>1, HeadTailProperties, LenProperties
      <4> QED
        BY <4>1, <4>2, CapacityAssumption
    <3>2. CASE RouterGives
      BY <3>2 DEF RouterGives, InType
    <3> QED
      BY <1>5, <3>1, <3>2 DEF Router
  <2> QED
    BY <2>1, <2>2 DEF InType, recvVars
<1>6. CASE UNCHANGED vars
  BY <1>6 DEF vars, lifeVars, netVars, recvVars, nocVars, InType
<1> QED
  BY <1>1, <1>2, <1>3, <1>4, <1>5, <1>6 DEF Next

\* Every variable keeps its type: no buffer outgrows its capacity, no counter
\* the buffer it counts in.
THEOREM TypeCorrect == Spec => []TypeOK
<1>1. Init => InType
  BY CapacityAssumption, PacketsAssumption, PacketModAssumption, SocketAssumption
     DEF Init, InType, Number
<1>2. IInv /\ InType /\ [Next]_vars => InType'
  BY NextInType
<1>3. OutInv /\ [Next]_vars => OutInv'
  BY NextOutInv
<1>4. IInv /\ InType /\ OutInv => TypeOK
  BY DEF IInv, LifeInv, ThreadInv, InType, OutInv, OutType, TypeOK
<1> QED
  BY <1>1, <1>2, <1>3, <1>4, InitOutInv, Invariance, PTL DEF Spec

=============================================================================

--------------------------- MODULE Router_proofs ---------------------------
(***************************************************************************)
(* The safety of one router, for every position, buffer capacity, set of   *)
(* connected ports and set of packets.                                     *)
(***************************************************************************)
EXTENDS Router, SequenceTheorems, TLAPS

\* All that the proofs use of the width of a flit.
LEMMA Width ==
    /\ HalfMod \in Int /\ HalfMod > 8
    /\ FlitMod = 2 * HalfMod /\ SizeLimit = 2 * HalfMod - 3
    /\ FlitWord = 0 .. 2 * HalfMod - 1
    /\ Counter = -HalfMod .. HalfMod - 1
<1>1. HalfMod \in Int /\ HalfMod > 8
  BY DEF HalfMod
<1> QED
  BY <1>1 DEF FlitMod, SizeLimit, FlitWord, Counter

\* Routing answers one of the five ports (TRouter::GetRouteXY).
LEMMA RouteIsPort ==
    ASSUME NEW w \in FlitWord
    PROVE  RouteXY(X, Y, w) \in Ports
BY DEF RouteXY, Ports, NORTH, WEST, SOUTH, EAST, LOCAL_PORT

\* What storing a packet's size in an int16_t keeps of it.
LEMMA Int16Facts ==
    ASSUME NEW n \in 0 .. SizeLimit
    PROVE  /\ Int16(n) \in Counter
           /\ Int16(n) # AWAIT_ADDR
           /\ Int16(n) # AWAIT_SIZE
           /\ Int16(n) = 0 <=> n = 0
           /\ n > 0 => Int16(Int16(n) - 1) = Int16(n - 1)
BY Width DEF Int16, AWAIT_ADDR, AWAIT_SIZE

LEMMA FlitFields ==
    ASSUME NEW f \in Flit
    PROVE  /\ f.src \in Ports /\ f.dst \in FlitWord /\ f.size \in 0 .. SizeLimit
           /\ f.pos \in 0 .. SizeLimit + 1 /\ f.pos <= f.size + 1
           /\ RouteOf(f) \in Ports
BY RouteIsPort DEF Flit, RouteOf

\* What remains of a packet of n words when position p, before its end, is out.
LEMMA Countdown ==
    ASSUME NEW n \in 0 .. SizeLimit, NEW p \in 0 .. SizeLimit + 1, p < n + 1
    PROVE  /\ n + 1 - (p + 1) \in 0 .. SizeLimit /\ p + 1 # 0
           /\ p + 1 = n + 1 <=> n + 1 - (p + 1) = 0
           /\ p # 0 => /\ n + 1 - p \in 0 .. SizeLimit /\ n + 1 - p > 0
                       /\ (n + 1 - p) - 1 = n + 1 - (p + 1)
           /\ p = 0 => n + 1 - (p + 1) = n
BY Width

\* A flit is a 16-bit word.
LEMMA WordIsFlitWord ==
    ASSUME NEW f \in Flit
    PROVE  Word(f) \in FlitWord
BY FlitFields, PayloadAssumption, Width DEF Word

\* The flit after one that is not a tail belongs to the same packet.
LEMMA FollowsInPacket ==
    ASSUME NEW f \in Flit, NEW g \in Flit, Follows(f, g)
    PROVE  /\ IsTail(f) => g.pos = 0
           /\ ~ IsTail(f) => /\ g.src = f.src /\ g.size = f.size
                             /\ g.pos = f.pos + 1 /\ RouteOf(g) = RouteOf(f)
           /\ f # g
BY FlitFields, Width DEF Follows, RouteOf, IsTail

LEMMA IdleIsFlit ==
    ASSUME NEW p \in Ports
    PROVE  Idle(p) \in Flit /\ IsTail(Idle(p)) /\ Idle(p).src = p
BY Width DEF Idle, Flit, IsTail

\* Popping a buffer.
LEMMA TailFacts ==
    ASSUME NEW S, NEW s \in Seq(S), s # << >>
    PROVE  /\ Len(s) = 1 => Tail(s) = << >>
           /\ Len(s) # 1 => /\ Tail(s) # << >> /\ Tail(s)[1] = s[2]
                            /\ Tail(s)[Len(Tail(s))] = s[Len(s)]
                            /\ 1 \in 1 .. Len(s) - 1
<1>1. /\ Len(s) \in Nat /\ Len(s) # 0
      /\ Tail(s) \in Seq(S) /\ Len(Tail(s)) = Len(s) - 1
  BY EmptySeq, LenProperties, HeadTailProperties
<1>2. \A k \in 1 .. Len(s) - 1 : Tail(s)[k] = s[k + 1]
  BY <1>1
<1>3. ASSUME NEW n \in Nat, n # 0, n # 1
      PROVE  /\ 1 \in 1 .. n - 1 /\ n - 1 \in 1 .. n - 1
             /\ (n - 1) + 1 = n /\ n - 1 # 0
  BY ONLY <1>3
<1>4. Len(s) = 1 => Tail(s) = << >>
  <2>1. Len(s) = 1 => Len(Tail(s)) = 0
    BY <1>1
  <2> QED
    BY <2>1, <1>1, EmptySeq
<1>5. CASE Len(s) # 1
  <2>1. /\ 1 \in 1 .. Len(s) - 1 /\ Len(s) - 1 \in 1 .. Len(s) - 1
        /\ (Len(s) - 1) + 1 = Len(s) /\ Len(s) - 1 # 0
    BY <1>1, <1>3, <1>5
  <2>2. Tail(s) # << >>
    BY <2>1, <1>1, EmptySeq
  <2>3. Tail(s)[1] = s[1 + 1] /\ Tail(s)[Len(s) - 1] = s[(Len(s) - 1) + 1]
    BY <2>1, <1>2
  <2> QED
    BY <1>1, <2>1, <2>2, <2>3
<1> QED
  BY <1>4, <1>5

\* Pushing into a buffer.
LEMMA AppendFacts ==
    ASSUME NEW S, NEW s \in Seq(S), NEW e \in S
    PROVE  /\ Append(s, e) # << >>
           /\ Append(s, e)[Len(Append(s, e))] = e
           /\ s # << >> => Append(s, e)[1] = s[1]
<1>1. /\ Len(s) \in Nat
      /\ s # << >> => Len(s) # 0
      /\ Append(s, e) # << >> /\ Len(Append(s, e)) = Len(s) + 1
      /\ Append(s, e)[Len(s) + 1] = e
  BY EmptySeq, LenProperties, AppendProperties
<1>2. ASSUME s # << >> PROVE Append(s, e)[1] = s[1]
  <2>1. 1 \in 1 .. Len(s)
    BY <1>1, <1>2
  <2> QED
    BY <2>1, AppendProperties
<1> QED
  BY <1>1, <1>2

-----------------------------------------------------------------------------
LEMMA InitIInv == Init => IInv
<1> SUFFICES ASSUME Init PROVE IInv
  OBVIOUS
<1> USE DEF Init
<1>1. TypeOK
  <2>1. \A p \in Ports : Idle(p) \in Flit /\ 0 \in Counter /\ << >> \in Seq(Flit)
    BY IdleIsFlit, Width
  <2>2. LOCAL_PORT \in Ports /\ Len(<< >>) <= Capacity
    BY CapacityAssumption DEF LOCAL_PORT, Ports
  <2> QED
    BY <2>1, <2>2 DEF TypeOK
<1>2. CrossbarExclusive /\ CounterTracksPacket /\ ConnectionRoutes
  BY DEF CrossbarExclusive, CounterTracksPacket, ConnectionRoutes
<1>3. ReleasedOnlyAtTail
  BY IdleIsFlit DEF ReleasedOnlyAtTail
<1>4. InputsChained
  BY IdleIsFlit DEF InputsChained, Before, MidPacket
<1> QED
  BY <1>1, <1>2, <1>3, <1>4 DEF IInv

-----------------------------------------------------------------------------
(***************************************************************************)
(* A neighbour pushes a flit that continues its stream.                    *)
(***************************************************************************)
LEMMA PushStep ==
    ASSUME IInv, NEW p \in Ports, NEW f \in Flit, f.src = p, Push(p, f)
    PROVE  IInv'
<1> USE DEF IInv
<1>0. /\ Len(ib[p]) < Capacity /\ Follows(lastIn[p], f)
      /\ ib' = [ib EXCEPT ![p] = Append(@, f)]
      /\ lastIn' = [lastIn EXCEPT ![p] = f]
      /\ UNCHANGED <<ob, sw, fts, rr, crashed, lastOut>>
  BY DEF Push
<1>1. /\ ib \in [Ports -> Seq(Flit)] /\ ib' \in [Ports -> Seq(Flit)]
      /\ ib'[p] = Append(ib[p], f) /\ Len(ib'[p]) = Len(ib[p]) + 1
      /\ \A q \in Ports : q # p => ib'[q] = ib[q] /\ lastIn'[q] = lastIn[q]
      /\ lastIn'[p] = f
  BY <1>0 DEF TypeOK
<1>2. TypeOK'
  BY <1>0, <1>1, CapacityAssumption DEF TypeOK
<1>3. CrossbarExclusive' /\ CounterTracksPacket' /\ ReleasedOnlyAtTail'
  BY <1>0 DEF CrossbarExclusive, CounterTracksPacket, ReleasedOnlyAtTail
<1>4. \A q \in Ports : Before(q)' = Before(q)
  BY <1>0 DEF Before, MidPacket
<1>5. InputsChained'
  <2> SUFFICES ASSUME NEW q \in Ports
      PROVE /\ \A k \in 1 .. Len(ib'[q]) : ib'[q][k].src = q
            /\ \A k \in 1 .. Len(ib'[q]) - 1 : Follows(ib'[q][k], ib'[q][k + 1])
            /\ ib'[q] # << >> => /\ Follows(Before(q), ib'[q][1])
                                 /\ lastIn'[q] = ib'[q][Len(ib'[q])]
            /\ ib'[q] = << >> => \/ lastIn'[q] = Before(q)
                                 \/ IsTail(lastIn'[q]) /\ IsTail(Before(q))
            /\ lastIn'[q].src = q
    BY <1>4 DEF InputsChained
  <2>1. CASE q # p
    BY <2>1, <1>1, SMTT(20) DEF InputsChained
  <2>2. CASE q = p
    <3>1. ib'[p] # << >> /\ ib'[p][Len(ib'[p])] = f
      <4>1. ib[p] \in Seq(Flit) /\ ib'[p] = Append(ib[p], f)
        BY <1>1
      <4>2. /\ Append(ib[p], f) # << >>
            /\ Append(ib[p], f)[Len(Append(ib[p], f))] = f
        BY <4>1, AppendFacts
      <4> QED
        BY <4>1, <4>2, Zenon
    <3>2. \A k \in 1 .. Len(ib[p]) : ib'[p][k] = ib[p][k]
      <4>1. ib[p] \in Seq(Flit) /\ ib'[p] = Append(ib[p], f)
        BY <1>1
      <4>2. \A k \in 1 .. Len(ib[p]) : Append(ib[p], f)[k] = ib[p][k]
        BY <4>1, AppendProperties
      <4> QED
        BY <4>1, <4>2, Zenon
    <3>3. \A k \in 1 .. Len(ib'[p]) : ib'[p][k].src = p
      BY <1>1, <3>1, <3>2 DEF InputsChained
    <3>4. CASE ib[p] = << >>
      <4>1. ib'[p][1] = f /\ Len(ib'[p]) = 1
        <5>1. Len(ib[p]) = 0
          BY <3>4, EmptySeq
        <5> QED
          BY <5>1, <3>1, <1>1
      <4>2. Follows(Before(p), f)
        BY <3>4, <1>0 DEF InputsChained, Follows
      <4> QED
        BY <4>1, <4>2, <3>1, <3>3, <2>2, <1>1
    <3>5. CASE ib[p] # << >>
      <4>1. Len(ib[p]) \in Nat \ {0} /\ ib'[p][1] = ib[p][1]
        BY <3>5, <3>2, <1>1
      <4>2. lastIn[p] = ib[p][Len(ib[p])]
        BY <3>5 DEF InputsChained
      <4>3. ASSUME NEW k \in 1 .. Len(ib'[p]) - 1
            PROVE  Follows(ib'[p][k], ib'[p][k + 1])
        <5>1. CASE k = Len(ib[p])
          BY <5>1, <4>1, <4>2, <3>1, <3>2, <1>0, <1>1
        <5>2. CASE k # Len(ib[p])
          BY <5>2, <4>1, <3>2, <1>1 DEF InputsChained
        <5> QED
          BY <5>1, <5>2
      <4> QED
        BY <4>1, <4>3, <3>1, <3>3, <3>5, <2>2, <1>1 DEF InputsChained
    <3> QED
      BY <3>4, <3>5
  <2> QED
    BY <2>1, <2>2
<1>6. ConnectionRoutes'
  <2> SUFFICES ASSUME NEW q \in Ports, sw[q] # FREE
      PROVE IF fts[q] = AWAIT_ADDR
            THEN ib'[q] # << >> /\ RouteOf(ib'[q][1]) = sw[q]
            ELSE RouteOf(lastOut[sw[q]]) = sw[q]
    BY <1>0 DEF ConnectionRoutes
  <2>1. ib[q] # << >> => ib'[q] # << >> /\ ib'[q][1] = ib[q][1]
    <3>1. CASE q = p
      BY <3>1, <1>1, AppendFacts
    <3>2. CASE q # p
      BY <3>2, <1>1
    <3> QED
      BY <3>1, <3>2
  <2> QED
    BY <2>1, <1>4 DEF ConnectionRoutes
<1> QED
  BY <1>2, <1>3, <1>5, <1>6

LEMMA StartStep ==
    ASSUME IInv, NEW p \in Ports, StartPacket(p)
    PROVE  IInv'
<1>1. PICK k \in Packets :
        k.src = p /\ Push(p, [src |-> p, dst |-> k.dst, size |-> k.size, pos |-> 0])
  BY DEF StartPacket
<1>2. [src |-> p, dst |-> k.dst, size |-> k.size, pos |-> 0] \in Flit
  BY PacketsAssumption, Width DEF Flit
<1> QED
  BY <1>1, <1>2, PushStep

LEMMA ContinueStep ==
    ASSUME IInv, NEW p \in Ports, ContinuePacket(p)
    PROVE  IInv'
<1>1. lastIn[p] \in Flit /\ ~ IsTail(lastIn[p]) /\ lastIn[p].src = p
  BY DEF ContinuePacket, IInv, TypeOK, InputsChained
<1>2. Successor(lastIn[p]) \in Flit /\ Successor(lastIn[p]).src = p
  BY <1>1, FlitFields, Width DEF Flit, IsTail, Successor
<1>3. Push(p, Successor(lastIn[p]))
  BY DEF ContinuePacket
<1> QED
  BY <1>2, <1>3, PushStep

LEMMA DepartStep ==
    ASSUME IInv, NEW q \in Ports, Depart(q)
    PROVE  IInv'
<1> USE DEF IInv
<1>1. /\ ob[q] \in Seq(Flit) /\ ob[q] # << >>
      /\ ob' = [ob EXCEPT ![q] = Tail(@)]
      /\ UNCHANGED <<ib, sw, fts, rr, crashed, lastIn, lastOut>>
  BY DEF Depart, TypeOK
<1>2. Tail(ob[q]) \in Seq(Flit) /\ Len(Tail(ob[q])) = Len(ob[q]) - 1
  BY <1>1
<1>3. TypeOK'
  BY <1>1, <1>2, CapacityAssumption DEF TypeOK
<1>4. CrossbarExclusive' /\ CounterTracksPacket' /\ ReleasedOnlyAtTail'
  BY <1>1 DEF CrossbarExclusive, CounterTracksPacket, ReleasedOnlyAtTail
<1>5. InputsChained' /\ ConnectionRoutes'
  BY <1>1 DEF InputsChained, ConnectionRoutes, Before, MidPacket
<1> QED
  BY <1>3, <1>4, <1>5

-----------------------------------------------------------------------------
(***************************************************************************)
(* TRouter::Run.  First the control phase: connecting one more input keeps *)
(* what the invariant says of the crossbar.                                *)
(***************************************************************************)
LEMMA HeadOfInput ==
    ASSUME IInv, NEW p \in Ports, ib[p] # << >>
    PROVE  /\ Head(ib[p]) = ib[p][1] /\ ib[p][1] \in Flit /\ ib[p][1].src = p
           /\ Len(ib[p]) \in Nat \ {0}
           /\ Follows(Before(p), ib[p][1])
<1>1. ib[p] \in Seq(Flit) /\ Len(ib[p]) \in Nat \ {0}
  BY DEF IInv, TypeOK
<1>2. Head(ib[p]) = ib[p][1] /\ ib[p][1] \in Flit
  BY <1>1
<1> QED
  BY <1>1, <1>2 DEF IInv, InputsChained

LEMMA GrantedTarget ==
    ASSUME IInv, Granted
    PROVE  /\ rr \in Ports /\ sw[rr] = FREE /\ ib[rr] # << >>
           /\ \A i \in Ports : sw[i] # Target
           /\ Target \in Ports /\ Target = RouteOf(ib[rr][1])
<1>1. rr \in Ports /\ sw[rr] = FREE /\ ib[rr] # << >> /\ \A i \in Ports : sw[i] # Target
  BY DEF Granted, Grant, Waiting, IInv, TypeOK
<1>2. ib[rr][1].pos = 0
  BY <1>1, HeadOfInput, IdleIsFlit, FollowsInPacket DEF Before, MidPacket
<1>3. Target = RouteOf(ib[rr][1])
  BY <1>1, <1>2, HeadOfInput DEF Target, Word, RouteOf
<1> QED
  BY <1>1, <1>3, HeadOfInput, FlitFields

LEMMA ControlPhase ==
    ASSUME IInv
    PROVE  /\ Crossbar \in [Ports -> Ports \cup {FREE}]
           /\ Counts \in [Ports -> Counter]
           /\ \A i, j \in Ports : Crossbar[i] # FREE /\ Crossbar[i] = Crossbar[j] => i = j
           /\ \A i \in Ports : Crossbar[i] # FREE =>
                LET f == lastOut[Crossbar[i]] IN
                IF Counts[i] = AWAIT_ADDR
                THEN /\ IsTail(f) /\ Before(i) = Idle(i)
                     /\ ib[i] # << >> /\ RouteOf(ib[i][1]) = Crossbar[i]
                ELSE /\ f.src = i /\ ~ IsTail(f) /\ Before(i) = f
                     /\ Counts[i] = IF f.pos = 0 THEN AWAIT_SIZE
                                    ELSE Int16(f.size + 1 - f.pos)
                     /\ RouteOf(f) = Crossbar[i]
           /\ \A i \in Ports : Crossbar[i] = FREE => sw[i] = FREE
           /\ \A q \in Ports : (\A i \in Ports : Crossbar[i] # q) => IsTail(lastOut[q])
<1> USE DEF IInv
<1>1. CASE ~ Granted
  <2>1. Crossbar = sw /\ Counts = fts
    BY <1>1 DEF Crossbar, Counts
  <2> QED
    BY <2>1 DEF TypeOK, CrossbarExclusive, CounterTracksPacket, ConnectionRoutes,
                ReleasedOnlyAtTail, Before, MidPacket
<1>2. CASE Granted
  <2>1. /\ rr \in Ports /\ sw[rr] = FREE /\ ib[rr] # << >>
        /\ \A i \in Ports : sw[i] # Target
        /\ Target \in Ports /\ Target = RouteOf(ib[rr][1])
    BY <1>2, GrantedTarget
  <2>2. /\ Crossbar = [sw EXCEPT ![rr] = Target]
        /\ Counts = [fts EXCEPT ![rr] = AWAIT_ADDR]
    BY <1>2 DEF Crossbar, Counts
  <2>3. /\ Crossbar[rr] = Target /\ Counts[rr] = AWAIT_ADDR
        /\ \A i \in Ports : i # rr => Crossbar[i] = sw[i] /\ Counts[i] = fts[i]
    BY <2>1, <2>2 DEF TypeOK
  <2>4. AWAIT_ADDR \in Counter /\ FREE \notin Ports
    BY Width DEF AWAIT_ADDR, FREE, Ports
  <2>5. Crossbar \in [Ports -> Ports \cup {FREE}] /\ Counts \in [Ports -> Counter]
    BY <2>1, <2>2, <2>4 DEF TypeOK
  <2>6. \A i, j \in Ports : Crossbar[i] # FREE /\ Crossbar[i] = Crossbar[j] => i = j
    BY <2>1, <2>3 DEF CrossbarExclusive
  <2>7. IsTail(lastOut[Target])
    BY <2>1 DEF ReleasedOnlyAtTail
  <2>8. \A q \in Ports : (\A i \in Ports : Crossbar[i] # q) => IsTail(lastOut[q])
    BY <2>1, <2>3, <2>4 DEF ReleasedOnlyAtTail
  <2>9. Before(rr) = Idle(rr)
    BY <2>1 DEF Before, MidPacket
  <2>10. ASSUME NEW i \in Ports, i # rr, Crossbar[i] # FREE
         PROVE  LET f == lastOut[Crossbar[i]] IN
                IF Counts[i] = AWAIT_ADDR
                THEN /\ IsTail(f) /\ Before(i) = Idle(i)
                     /\ ib[i] # << >> /\ RouteOf(ib[i][1]) = Crossbar[i]
                ELSE /\ f.src = i /\ ~ IsTail(f) /\ Before(i) = f
                     /\ Counts[i] = IF f.pos = 0 THEN AWAIT_SIZE
                                    ELSE Int16(f.size + 1 - f.pos)
                     /\ RouteOf(f) = Crossbar[i]
    BY <2>3, <2>10 DEF CounterTracksPacket, ConnectionRoutes, Before, MidPacket
  <2> QED
    BY <2>1, <2>3, <2>4, <2>5, <2>6, <2>7, <2>8, <2>9, <2>10
<1> QED
  BY <1>1, <1>2

(***************************************************************************)
(* Then one driven flit: it continues the packet its output is in, and the *)
(* counter is left at zero exactly by the last one.                        *)
(***************************************************************************)
LEMMA DriveOne ==
    ASSUME IInv, NEW i \in Driving
    PROVE  /\ i \in Ports /\ ib[i] # << >> /\ ib[i][1] \in Flit /\ ib[i][1].src = i
           /\ Crossbar[i] \in Ports
           /\ ~ Full[Crossbar[i]]
           /\ Crossbar[i] \in DrivenOutputs /\ FlitFor(Crossbar[i]) = ib[i][1]
           /\ Follows(lastOut[Crossbar[i]], ib[i][1])
           /\ RouteOf(ib[i][1]) = Crossbar[i]
           /\ CountOf(i) \in Counter /\ CountOf(i) # AWAIT_ADDR
           /\ CountOf(i) = 0 <=> IsTail(ib[i][1])
           /\ ~ IsTail(ib[i][1]) =>
                CountOf(i) = IF ib[i][1].pos = 0 THEN AWAIT_SIZE
                             ELSE Int16(ib[i][1].size + 1 - ib[i][1].pos)
<1> DEFINE q == Crossbar[i]
           h == ib[i][1]
           f == lastOut[q]
<1>1. i \in Ports /\ q # FREE /\ ib[i] # << >> /\ ~ Full[q]
  BY DEF Driving, Drives, Waiting
<1>2. q \in Ports
  BY <1>1, ControlPhase
<1>3. h \in Flit /\ h.src = i /\ Head(ib[i]) = h /\ Follows(Before(i), h)
  BY <1>1, HeadOfInput
<1>4. f \in Flit
  BY <1>2 DEF IInv, TypeOK
<1>5. q \in DrivenOutputs /\ FlitFor(q) = h
  <2>1. \A j \in Driving : j \in Ports
    BY DEF Driving, Drives
  <2>2. \A j \in Driving : Crossbar[j] = q => j = i
    BY <2>1, <1>1, ControlPhase
  <2>3. (CHOOSE j \in Driving : Crossbar[j] = q) = i
    BY <2>2
  <2> QED
    BY <2>3, <1>3 DEF DrivenOutputs, FlitFor
<1>6. CASE Counts[i] = AWAIT_ADDR
  <2>1. IsTail(f) /\ Before(i) = Idle(i) /\ RouteOf(h) = q
    BY <1>1, <1>6, ControlPhase
  <2>2. h.pos = 0
    BY <2>1, <1>1, <1>3, IdleIsFlit, FollowsInPacket
  <2>3. ~ IsTail(h) /\ Follows(f, h)
    BY <2>1, <2>2, <1>3, FlitFields, Width DEF IsTail, Follows
  <2>4. CountOf(i) = AWAIT_SIZE
    BY <1>6 DEF CountOf, CountAfter
  <2>5. AWAIT_SIZE \in Counter /\ AWAIT_SIZE # AWAIT_ADDR /\ AWAIT_SIZE # 0
    BY Width DEF AWAIT_SIZE, AWAIT_ADDR
  <2> QED
    BY <1>1, <1>2, <1>3, <1>5, <2>1, <2>2, <2>3, <2>4, <2>5
<1>7. CASE Counts[i] # AWAIT_ADDR
  <2>1. /\ ~ IsTail(f) /\ Before(i) = f /\ RouteOf(f) = q
        /\ Counts[i] = IF f.pos = 0 THEN AWAIT_SIZE ELSE Int16(f.size + 1 - f.pos)
    BY <1>1, <1>7, ControlPhase
  <2>2. Follows(f, h) /\ h.size = f.size /\ h.pos = f.pos + 1 /\ RouteOf(h) = q
    BY <2>1, <1>3, <1>4, FollowsInPacket
  <2>3. /\ f.size \in 0 .. SizeLimit /\ f.pos \in 0 .. SizeLimit + 1
        /\ f.pos < f.size + 1
    <3>1. /\ f.size \in 0 .. SizeLimit /\ f.pos \in 0 .. SizeLimit + 1
          /\ f.pos <= f.size + 1
      BY <1>4, FlitFields
    <3>2. f.pos # f.size + 1
      BY <2>1 DEF IsTail
    <3>3. ASSUME NEW a \in 0 .. SizeLimit, NEW b \in 0 .. SizeLimit + 1,
                 b <= a + 1, b # a + 1
          PROVE  b < a + 1
      BY ONLY Width, <3>3
    <3> QED
      BY <3>1, <3>2, <3>3
  <2>4. CountOf(i) = Int16(h.size + 1 - h.pos)
    <3>1. CASE f.pos = 0
      <4>1. h.pos = 1 /\ Word(h) = h.size /\ Counts[i] = AWAIT_SIZE
        BY <3>1, <2>1, <2>2 DEF Word
      <4>2. AWAIT_SIZE # AWAIT_ADDR
        BY DEF AWAIT_SIZE, AWAIT_ADDR
      <4>3. CountOf(i) = Int16(h.size)
        BY <4>1, <4>2, <1>3 DEF CountOf, CountAfter
      <4>4. h.size + 1 - h.pos = h.size
        BY <3>1, <2>2, <2>3, Countdown
      <4> QED
        BY <4>3, <4>4
    <3>2. CASE f.pos # 0
      <4> DEFINE n == f.size + 1 - f.pos
      <4>1. n \in 0 .. SizeLimit /\ n > 0 /\ n - 1 = h.size + 1 - h.pos
        BY <3>2, <2>2, <2>3, Countdown
      <4>2. Counts[i] = Int16(n)
        BY <3>2, <2>1
      <4>3. Counts[i] # AWAIT_SIZE /\ Int16(Counts[i] - 1) = Int16(n - 1)
        BY <4>1, <4>2, Int16Facts
      <4>4. CountOf(i) = Int16(Counts[i] - 1)
        BY <4>3, <1>7 DEF CountOf, CountAfter
      <4> QED
        BY <4>1, <4>3, <4>4
    <3> QED
      BY <3>1, <3>2
  <2>5. h.size + 1 - h.pos \in 0 .. SizeLimit /\ h.pos # 0
    BY <2>2, <2>3, Countdown
  <2>6. /\ CountOf(i) \in Counter /\ CountOf(i) # AWAIT_ADDR
        /\ CountOf(i) = 0 <=> h.size + 1 - h.pos = 0
    BY <2>4, <2>5, Int16Facts
  <2>7. IsTail(h) <=> h.size + 1 - h.pos = 0
    BY <2>2, <2>3, Countdown DEF IsTail
  <2> QED
    BY <1>1, <1>2, <1>3, <1>5, <2>2, <2>4, <2>5, <2>6, <2>7
<1> QED
  BY <1>6, <1>7

-----------------------------------------------------------------------------
(***************************************************************************)
(* The new state of every port, in the words the invariant needs.          *)
(***************************************************************************)
LEMMA RunEffect ==
    ASSUME IInv, Run
    PROVE  /\ \A q \in Ports : q \notin DrivenOutputs =>
                lastOut'[q] = lastOut[q] /\ ob'[q] = ob[q]
           /\ \A i \in Driving :
                /\ ib'[i] = Tail(ib[i]) /\ fts'[i] = CountOf(i)
                /\ sw'[i] = IF IsTail(ib[i][1]) THEN FREE ELSE Crossbar[i]
                /\ lastOut'[Crossbar[i]] = ib[i][1]
                /\ ob'[Crossbar[i]] = Append(ob[Crossbar[i]], ib[i][1])
           /\ \A i \in Ports : i \notin Driving =>
                /\ ib'[i] = ib[i] /\ fts'[i] = Counts[i] /\ sw'[i] = Crossbar[i]
                /\ Crossbar[i] # FREE =>
                    Crossbar[i] \in Ports /\ lastOut'[Crossbar[i]] = lastOut[Crossbar[i]]
           /\ \A q \in DrivenOutputs : \E i \in Driving : q = Crossbar[i]
           /\ Driving \subseteq Ports
<1>1. Driving \subseteq Ports
  BY DEF Driving, Drives
<1>2. \A q \in DrivenOutputs : \E i \in Driving : q = Crossbar[i]
  BY DEF DrivenOutputs
<1>3. \A q \in Ports : q \notin DrivenOutputs =>
        lastOut'[q] = lastOut[q] /\ ob'[q] = ob[q]
  BY DEF Run
<1>4. ASSUME NEW i \in Driving
      PROVE  /\ ib'[i] = Tail(ib[i]) /\ fts'[i] = CountOf(i)
             /\ sw'[i] = IF IsTail(ib[i][1]) THEN FREE ELSE Crossbar[i]
             /\ lastOut'[Crossbar[i]] = ib[i][1]
             /\ ob'[Crossbar[i]] = Append(ob[Crossbar[i]], ib[i][1])
  BY <1>1, DriveOne DEF Run
<1>5. ASSUME NEW i \in Ports, i \notin Driving
      PROVE  /\ ib'[i] = ib[i] /\ fts'[i] = Counts[i] /\ sw'[i] = Crossbar[i]
             /\ Crossbar[i] # FREE =>
                 Crossbar[i] \in Ports /\ lastOut'[Crossbar[i]] = lastOut[Crossbar[i]]
  <2>1. ib'[i] = ib[i] /\ fts'[i] = Counts[i] /\ sw'[i] = Crossbar[i]
    BY <1>5 DEF Run
  <2>2. ASSUME Crossbar[i] # FREE
        PROVE  Crossbar[i] \in Ports /\ Crossbar[i] \notin DrivenOutputs
    <3>1. Crossbar[i] \in Ports
      BY <2>2, ControlPhase
    <3>2. \A j \in Driving : Crossbar[j] # Crossbar[i]
      BY <1>1, <1>5, <2>2, ControlPhase
    <3> QED
      BY <3>1, <3>2, <1>2
  <2> QED
    BY <2>1, <2>2, <1>3
<1> QED
  BY <1>1, <1>2, <1>3, <1>4, <1>5

LEMMA RunTypeOK ==
    ASSUME IInv, Run
    PROVE  TypeOK'
<1> USE DEF IInv
<1>1. ib' \in [Ports -> Seq(Flit)] /\ \A p \in Ports : Len(ib'[p]) <= Capacity
  <2>1. ASSUME NEW p \in Ports PROVE ib'[p] \in Seq(Flit) /\ Len(ib'[p]) <= Capacity
    <3>1. ib[p] \in Seq(Flit) /\ Len(ib[p]) <= Capacity
      BY DEF TypeOK
    <3>2. CASE p \in Driving
      <4>1. ib[p] # << >> /\ ib'[p] = Tail(ib[p])
        BY <3>2, DriveOne, RunEffect
      <4> QED
        BY <3>1, <4>1, CapacityAssumption
    <3>3. CASE p \notin Driving
      BY <3>1, <3>3, RunEffect
    <3> QED
      BY <3>2, <3>3
  <2> QED
    BY <2>1 DEF Run
<1>2. /\ ob' \in [Ports -> Seq(Flit)] /\ lastOut' \in [Ports -> Flit]
      /\ \A q \in Ports : Len(ob'[q]) <= Capacity
  <2>1. ASSUME NEW q \in Ports
        PROVE  ob'[q] \in Seq(Flit) /\ lastOut'[q] \in Flit /\ Len(ob'[q]) <= Capacity
    <3>1. ob[q] \in Seq(Flit) /\ lastOut[q] \in Flit /\ Len(ob[q]) <= Capacity
      BY DEF TypeOK
    <3>2. CASE q \in DrivenOutputs
      <4>1. PICK i \in Driving : q = Crossbar[i]
        BY <3>2, RunEffect
      <4>2. /\ ib[i][1] \in Flit /\ ~ Full[q]
            /\ lastOut'[q] = ib[i][1] /\ ob'[q] = Append(ob[q], ib[i][1])
        BY <4>1, DriveOne, RunEffect
      <4>3. Len(ob[q]) # Capacity
        BY <4>2 DEF Full
      <4> QED
        BY <3>1, <4>2, <4>3, CapacityAssumption
    <3>3. CASE q \notin DrivenOutputs
      BY <3>1, <3>3, RunEffect
    <3> QED
      BY <3>2, <3>3
  <2> QED
    BY <2>1 DEF Run
<1>3. sw' \in [Ports -> Ports \cup {FREE}] /\ fts' \in [Ports -> Counter]
  <2>1. ASSUME NEW i \in Ports PROVE sw'[i] \in Ports \cup {FREE} /\ fts'[i] \in Counter
    <3>1. CASE i \in Driving
      BY <3>1, DriveOne, RunEffect
    <3>2. CASE i \notin Driving
      BY <3>2, ControlPhase, RunEffect
    <3> QED
      BY <3>1, <3>2
  <2> QED
    BY <2>1 DEF Run
<1>4. rr' \in Ports
  BY DEF Run, NextPriority, TypeOK, Ports
<1> QED
  BY <1>1, <1>2, <1>3, <1>4 DEF TypeOK, Run

LEMMA RunCrossbar ==
    ASSUME IInv, Run
    PROVE  CrossbarExclusive' /\ CounterTracksPacket' /\ ReleasedOnlyAtTail'
           /\ ConnectionRoutes'
<1>1. CrossbarExclusive'
  <2>1. \A i \in Ports : sw'[i] # FREE => sw'[i] = Crossbar[i]
    BY RunEffect
  <2> QED
    BY <2>1, ControlPhase DEF CrossbarExclusive
<1>2. ASSUME NEW i \in Ports, sw'[i] # FREE
      PROVE  /\ LET f == lastOut'[sw'[i]] IN
                IF fts'[i] = AWAIT_ADDR THEN IsTail(f)
                ELSE /\ f.src = i /\ ~ IsTail(f)
                     /\ fts'[i] = IF f.pos = 0 THEN AWAIT_SIZE
                                  ELSE Int16(f.size + 1 - f.pos)
             /\ IF fts'[i] = AWAIT_ADDR
                THEN ib'[i] # << >> /\ RouteOf(ib'[i][1]) = sw'[i]
                ELSE RouteOf(lastOut'[sw'[i]]) = sw'[i]
  <2>1. CASE i \in Driving
    <3>1. ~ IsTail(ib[i][1]) /\ sw'[i] = Crossbar[i] /\ lastOut'[sw'[i]] = ib[i][1]
      BY <1>2, <2>1, RunEffect
    <3> QED
      BY <2>1, <3>1, RunEffect, DriveOne
  <2>2. CASE i \notin Driving
    <3>1. /\ ib'[i] = ib[i] /\ fts'[i] = Counts[i] /\ sw'[i] = Crossbar[i]
          /\ lastOut'[Crossbar[i]] = lastOut[Crossbar[i]]
      BY <1>2, <2>2, RunEffect
    <3> QED
      BY <1>2, <3>1, ControlPhase
  <2> QED
    BY <2>1, <2>2
<1>3. CounterTracksPacket' /\ ConnectionRoutes'
  BY <1>2 DEF CounterTracksPacket, ConnectionRoutes
<1>4. ASSUME NEW q \in Ports, \A i \in Ports : sw'[i] # q
      PROVE  IsTail(lastOut'[q])
  <2>1. CASE q \in DrivenOutputs
    <3>1. PICK i \in Driving : q = Crossbar[i]
      BY <2>1, RunEffect
    <3>2. i \in Ports /\ sw'[i] # q
      BY <3>1, <1>4, DriveOne
    <3> QED
      BY <3>1, <3>2, RunEffect
  <2>2. CASE q \notin DrivenOutputs
    <3>1. ASSUME NEW i \in Ports PROVE Crossbar[i] # q
      <4>1. CASE i \in Driving
        BY <4>1, <2>2, DriveOne
      <4>2. CASE i \notin Driving
        BY <4>2, <1>4, RunEffect
      <4> QED
        BY <4>1, <4>2
    <3> QED
      BY <2>2, <3>1, ControlPhase, RunEffect
  <2> QED
    BY <2>1, <2>2
<1> QED
  BY <1>1, <1>3, <1>4 DEF ReleasedOnlyAtTail

LEMMA RunInputs ==
    ASSUME IInv, Run
    PROVE  InputsChained'
<1> SUFFICES ASSUME NEW p \in Ports
    PROVE /\ \A k \in 1 .. Len(ib'[p]) : ib'[p][k].src = p
          /\ \A k \in 1 .. Len(ib'[p]) - 1 : Follows(ib'[p][k], ib'[p][k + 1])
          /\ ib'[p] # << >> => /\ Follows(Before(p)', ib'[p][1])
                               /\ lastIn'[p] = ib'[p][Len(ib'[p])]
          /\ ib'[p] = << >> => \/ lastIn'[p] = Before(p)'
                               \/ IsTail(lastIn'[p]) /\ IsTail(Before(p)')
          /\ lastIn'[p].src = p
  BY DEF InputsChained
<1>0. lastIn' = lastIn
  BY DEF Run
<1>1. CASE p \notin Driving
  <2>1. ib'[p] = ib[p] /\ fts'[p] = Counts[p] /\ sw'[p] = Crossbar[p]
    BY <1>1, RunEffect
  <2>2. Before(p)' = Before(p)
    <3>1. CASE Crossbar[p] = FREE
      BY <3>1, <2>1, ControlPhase DEF Before, MidPacket
    <3>2. CASE Crossbar[p] # FREE
      BY <3>2, <2>1, <1>1, ControlPhase, RunEffect DEF Before, MidPacket
    <3> QED
      BY <3>1, <3>2
  <2> QED
    BY <2>1, <2>2, <1>0 DEF IInv, InputsChained
<1>2. CASE p \in Driving
  <2> DEFINE s == ib[p]
             h == ib[p][1]
  <2>1. /\ s \in Seq(Flit) /\ s # << >> /\ Len(s) \in Nat \ {0} /\ h \in Flit
        /\ ib'[p] = Tail(s)
    BY <1>2, RunEffect, DriveOne, HeadOfInput DEF IInv, TypeOK
  <2>2. /\ Len(ib'[p]) = Len(s) - 1
        /\ \A k \in 1 .. Len(s) - 1 : ib'[p][k] = s[k + 1]
    BY <2>1
  <2>3. /\ \A k \in 1 .. Len(s) : s[k].src = p
        /\ \A k \in 1 .. Len(s) - 1 : Follows(s[k], s[k + 1])
        /\ lastIn[p] = s[Len(s)] /\ lastIn[p].src = p
    BY <2>1 DEF IInv, InputsChained
  <2>4. Before(p)' = h \/ (IsTail(h) /\ Before(p)' = Idle(p))
    <3>1. CASE IsTail(h)
      <4>1. sw'[p] = FREE
        BY <3>1, <1>2, RunEffect
      <4> QED
        BY <3>1, <4>1 DEF Before, MidPacket, Idle
    <3>2. CASE ~ IsTail(h)
      <4>1. sw'[p] = Crossbar[p] /\ fts'[p] = CountOf(p) /\ lastOut'[Crossbar[p]] = h
        BY <3>2, <1>2, RunEffect
      <4>2. Crossbar[p] # FREE /\ CountOf(p) # AWAIT_ADDR
        BY <1>2, DriveOne DEF Ports, FREE
      <4> QED
        BY <4>1, <4>2 DEF Before, MidPacket
    <3> QED
      BY <3>1, <3>2
  <2>5. IsTail(Idle(p))
    BY IdleIsFlit
  <2>6. \A k \in 1 .. Len(ib'[p]) : ib'[p][k].src = p
    BY <2>1, <2>2, <2>3
  <2>7. \A k \in 1 .. Len(ib'[p]) - 1 : Follows(ib'[p][k], ib'[p][k + 1])
    BY <2>1, <2>2, <2>3
  <2>8. CASE Len(s) = 1
    <3>1. ib'[p] = << >>
      BY <2>1, <2>8, TailFacts
    <3>2. lastIn[p] = h
      BY <2>3, <2>8
    <3>3. \/ lastIn'[p] = Before(p)'
          \/ IsTail(lastIn'[p]) /\ IsTail(Before(p)')
      BY <3>2, <2>4, <2>5, <1>0
    <3> QED
      BY <3>1, <3>3, <2>3, <2>6, <2>7, <1>0
  <2>9. CASE Len(s) # 1
    <3>1. /\ ib'[p] # << >> /\ ib'[p][1] = s[2]
          /\ ib'[p][Len(ib'[p])] = s[Len(s)]
      BY <2>1, <2>9, TailFacts
    <3>2. Follows(h, s[2])
      <4>1. 1 \in 1 .. Len(s) - 1 /\ 1 + 1 = 2
        BY <2>1, <2>9, TailFacts
      <4>2. Follows(s[1], s[1 + 1])
        BY <4>1, <2>3
      <4> QED
        BY <4>1, <4>2
    <3>3. Follows(Before(p)', s[2])
      BY <3>2, <2>4, <2>5 DEF Follows
    <3> QED
      BY <3>1, <3>3, <2>3, <2>6, <2>7, <1>0
  <2> QED
    BY <2>8, <2>9
<1> QED
  BY <1>1, <1>2

LEMMA RunStep == IInv /\ Run => IInv'
BY RunTypeOK, RunCrossbar, RunInputs DEF IInv

-----------------------------------------------------------------------------
LEMMA NextIInv == IInv /\ [Next]_vars => IInv'
<1> SUFFICES ASSUME IInv, [Next]_vars PROVE IInv'
  OBVIOUS
<1>1. CASE Run
  BY <1>1, RunStep
<1>2. CASE RunCrashes
  BY <1>2 DEF RunCrashes, IInv, TypeOK, CrossbarExclusive, CounterTracksPacket,
              ReleasedOnlyAtTail, InputsChained, ConnectionRoutes, Before, MidPacket
<1>3. ASSUME NEW p \in Ports, StartPacket(p) PROVE IInv'
  BY <1>3, StartStep
<1>4. ASSUME NEW p \in Ports, ContinuePacket(p) PROVE IInv'
  BY <1>4, ContinueStep
<1>5. ASSUME NEW q \in Ports, Depart(q) PROVE IInv'
  BY <1>5, DepartStep
<1>6. CASE UNCHANGED vars
  BY <1>6 DEF vars, IInv, TypeOK, CrossbarExclusive, CounterTracksPacket,
              ReleasedOnlyAtTail, InputsChained, ConnectionRoutes, Before, MidPacket
<1> QED
  BY <1>1, <1>2, <1>3, <1>4, <1>5, <1>6 DEF Next

\* The inductive invariant holds in every reachable state.
THEOREM Invariance == Spec => []IInv
<1>1. Init => IInv
  BY InitIInv
<1>2. IInv /\ [Next]_vars => IInv'
  BY NextIInv
<1> QED
  BY <1>1, <1>2, PTL DEF Spec

\* Buffers stay within their capacity, counters within an int16_t.
THEOREM TypeCorrect == Spec => []TypeOK
<1>1. IInv => TypeOK
  BY DEF IInv
<1> QED
  BY <1>1, Invariance, PTL

\* Two inputs are never connected to the same output (TRouter::Run, 116-130).
THEOREM CrossbarIsExclusive == Spec => []CrossbarExclusive
<1>1. IInv => CrossbarExclusive
  BY DEF IInv
<1> QED
  BY <1>1, Invariance, PTL

\* The packet counter never loses its place, for every size up to 65533
\* (TRouter::Run, 158-184).
THEOREM CountersTrack == Spec => [](CounterTracksPacket /\ ReleasedOnlyAtTail)
<1>1. IInv => CounterTracksPacket /\ ReleasedOnlyAtTail
  BY DEF IInv
<1> QED
  BY <1>1, Invariance, PTL

\* Wormhole integrity: packets leave an output whole, one after the other, and
\* only at the output they are addressed to (TRouter::Run, 134-188).
THEOREM LinksFramed == Spec => OutputLinksFramed
<1>1. IInv /\ [Next]_vars => [LinkStep]_vars
  <2> SUFFICES ASSUME IInv, Next PROVE LinkStep
    BY DEF vars, LinkStep
  <2>1. CASE Run
    <3> SUFFICES ASSUME NEW q \in Ports, lastOut'[q] # lastOut[q]
        PROVE Follows(lastOut[q], lastOut'[q]) /\ RouteOf(lastOut'[q]) = q
      BY DEF LinkStep
    <3>1. PICK i \in Driving : q = Crossbar[i]
      BY <2>1, RunEffect
    <3> QED
      BY <2>1, <3>1, RunEffect, DriveOne
  <2>2. CASE ~ Run
    <3>1. lastOut' = lastOut
      BY <2>2 DEF Next, RunCrashes, StartPacket, ContinuePacket, Push, Depart
    <3> QED
      BY <3>1 DEF LinkStep
  <2> QED
    BY <2>1, <2>2
<1> QED
  BY <1>1, Invariance, PTL DEF Spec, OutputLinksFramed

-----------------------------------------------------------------------------
(***************************************************************************)
(* Routers at the edge of the mesh have ports without a buffer.            *)
(***************************************************************************)
RoutesStayConnected ==
    /\ ~ crashed
    /\ \A p \in Ports :
        /\ sw[p] # FREE => sw[p] \in Connected
        /\ \A k \in 1 .. Len(ib[p]) : RouteOf(ib[p][k]) \in Connected
        /\ ~ IsTail(lastIn[p]) => RouteOf(lastIn[p]) \in Connected

LEMMA PushStaysConnected ==
    ASSUME IInv, RoutesStayConnected, NEW p \in Ports, NEW f \in Flit, Push(p, f),
           RouteOf(f) \in Connected
    PROVE  RoutesStayConnected'
<1>1. /\ ib \in [Ports -> Seq(Flit)] /\ lastIn \in [Ports -> Flit]
      /\ ib' = [ib EXCEPT ![p] = Append(@, f)]
      /\ lastIn' = [lastIn EXCEPT ![p] = f]
      /\ UNCHANGED <<sw, crashed>>
  BY DEF Push, IInv, TypeOK
<1>2. ASSUME NEW q \in Ports
      PROVE  /\ \A k \in 1 .. Len(ib'[q]) : RouteOf(ib'[q][k]) \in Connected
             /\ ~ IsTail(lastIn'[q]) => RouteOf(lastIn'[q]) \in Connected
  <2>1. CASE q = p
    <3>1. ib'[p] = Append(ib[p], f) /\ lastIn'[p] = f /\ ib[p] \in Seq(Flit)
      BY <1>1
    <3>2. \A k \in 1 .. Len(ib'[p]) : ib'[p][k] = f \/ (k \in 1 .. Len(ib[p]) /\ ib'[p][k] = ib[p][k])
      BY <3>1
    <3> QED
      BY <2>1, <3>1, <3>2 DEF RoutesStayConnected
  <2>2. CASE q # p
    BY <2>2, <1>1 DEF RoutesStayConnected
  <2> QED
    BY <2>1, <2>2
<1> QED
  BY <1>1, <1>2 DEF RoutesStayConnected

LEMMA RunStaysConnected ==
    ASSUME IInv, RoutesStayConnected
    PROVE  ~ ReachesNull /\ (Run => RoutesStayConnected')
<1>1. ASSUME NEW i \in Ports, Crossbar[i] # FREE PROVE Crossbar[i] \in Connected
  <2>1. CASE ~ Granted
    BY <2>1, <1>1 DEF Crossbar, RoutesStayConnected
  <2>2. CASE Granted
    <3>1. Target \in Connected
      BY <2>2, GrantedTarget, HeadOfInput DEF RoutesStayConnected
    <3>2. Crossbar[i] = IF i = rr THEN Target ELSE sw[i]
      BY <2>2 DEF Crossbar, IInv, TypeOK
    <3> QED
      BY <1>1, <3>1, <3>2 DEF RoutesStayConnected
  <2> QED
    BY <2>1, <2>2
<1>2. ASSUME Run PROVE RoutesStayConnected'
  <2>1. \A p \in Ports : sw'[p] # FREE => sw'[p] = Crossbar[p]
    BY <1>2, RunEffect
  <2>2. ASSUME NEW p \in Ports
        PROVE  \A k \in 1 .. Len(ib'[p]) : RouteOf(ib'[p][k]) \in Connected
    <3>1. ib[p] \in Seq(Flit)
      BY DEF IInv, TypeOK
    <3>2. CASE p \in Driving
      <4>1. ib[p] # << >> /\ ib'[p] = Tail(ib[p])
        BY <3>2, <1>2, DriveOne, RunEffect
      <4>2. \A k \in 1 .. Len(ib'[p]) : k + 1 \in 1 .. Len(ib[p]) /\ ib'[p][k] = ib[p][k + 1]
        BY <3>1, <4>1
      <4> QED
        BY <4>2 DEF RoutesStayConnected
    <3>3. CASE p \notin Driving
      BY <3>3, <1>2, RunEffect DEF RoutesStayConnected
    <3> QED
      BY <3>2, <3>3
  <2>3. lastIn' = lastIn /\ crashed' = crashed
    BY <1>2 DEF Run
  <2> QED
    BY <2>1, <2>2, <2>3, <1>1 DEF RoutesStayConnected
<1> QED
  BY <1>1, <1>2 DEF ReachesNull

\* If the neighbours only send packets that route to a connected port, the
\* router never dereferences a null output buffer (TRouter::Run, 139-155).
THEOREM NoNullBuffer ==
    ASSUME \A k \in Packets : RouteXY(X, Y, k.dst) \in Connected
    PROVE  Spec => []NullNeverReached
<1>1. Init => RoutesStayConnected
  BY IdleIsFlit DEF Init, RoutesStayConnected
<1>2. IInv /\ RoutesStayConnected /\ [Next]_vars => RoutesStayConnected'
  <2> SUFFICES ASSUME IInv, RoutesStayConnected, [Next]_vars PROVE RoutesStayConnected'
    OBVIOUS
  <2>1. CASE Run
    BY <2>1, RunStaysConnected
  <2>2. CASE RunCrashes
    BY <2>2, RunStaysConnected DEF RunCrashes
  <2>3. ASSUME NEW p \in Ports, StartPacket(p) PROVE RoutesStayConnected'
    <3>1. PICK k \in Packets :
            Push(p, [src |-> p, dst |-> k.dst, size |-> k.size, pos |-> 0])
      BY <2>3 DEF StartPacket
    <3>2. [src |-> p, dst |-> k.dst, size |-> k.size, pos |-> 0] \in Flit
      BY PacketsAssumption, Width DEF Flit
    <3>3. RouteOf([src |-> p, dst |-> k.dst, size |-> k.size, pos |-> 0]) \in Connected
      BY DEF RouteOf
    <3> QED
      BY <3>1, <3>2, <3>3, PushStaysConnected
  <2>4. ASSUME NEW p \in Ports, ContinuePacket(p) PROVE RoutesStayConnected'
    <3>1. lastIn[p] \in Flit /\ ~ IsTail(lastIn[p]) /\ Push(p, Successor(lastIn[p]))
      BY <2>4 DEF ContinuePacket, IInv, TypeOK
    <3>2. Successor(lastIn[p]) \in Flit
      BY <3>1, FlitFields, Width DEF Flit, IsTail, Successor
    <3>3. RouteOf(Successor(lastIn[p])) \in Connected
      BY <3>1 DEF RoutesStayConnected, RouteOf, Successor
    <3> QED
      BY <3>1, <3>2, <3>3, PushStaysConnected
  <2>5. ASSUME NEW q \in Ports, Depart(q) PROVE RoutesStayConnected'
    BY <2>5 DEF Depart, RoutesStayConnected
  <2>6. CASE UNCHANGED vars
    BY <2>6 DEF vars, RoutesStayConnected
  <2> QED
    BY <2>1, <2>2, <2>3, <2>4, <2>5, <2>6 DEF Next
<1>3. RoutesStayConnected => NullNeverReached
  BY DEF RoutesStayConnected, NullNeverReached
<1> QED
  BY <1>1, <1>2, <1>3, Invariance, PTL DEF Spec
=============================================================================

----------------------------- MODULE Noc_proofs -----------------------------
EXTENDS Noc, SequenceTheorems, WellFoundedInduction, TLAPS

\* What a link carries next: the first flit of any packet (Start), or a flit.
Start == [msg |-> [src |-> << >>, dst |-> << >>, num |-> 0, size |-> 0], pos |-> 0]
Expect == {Start} \cup {f \in Flits : f.pos \in 1 .. f.msg.size + 1}
Fits(e, f) == IF e = Start THEN f.pos = 0 ELSE f = e
After(f) == IF f.pos = f.msg.size + 1 THEN Start
            ELSE [msg |-> f.msg, pos |-> f.pos + 1]

\* A buffer holds what its producer has pushed and its consumer not yet taken.
Chain(b, down, up) ==
    IF b = << >> THEN up = down
    ELSE /\ Fits(down, b[1]) /\ up = After(b[Len(b)])
         /\ \A k \in 1 .. Len(b) - 1 : Fits(After(b[k]), b[k + 1])

RouteOf(n, m) == RouteXY(n[1], n[2], m.dst[1] * 16 + m.dst[2])

\* A packet for m comes into n at port p only if the neighbour there routes it so.
Approach(n, p, m) ==
    p # LOCAL_PORT => /\ Neighbour(n, p) \in Nodes
                      /\ RouteOf(Neighbour(n, p), m) = Opposite(p)

\* The counter of an input whose next flit is at position pos of m.
CountAt(m, pos) == IF pos = 0 THEN AWAIT_ADDR
                   ELSE IF pos = 1 THEN AWAIT_SIZE ELSE Int16(m.size + 2 - pos)

Pushing(n) == IF nextPos[n] = 0 THEN Start
              ELSE [msg |-> Message(n, nextPkt[n]), pos |-> nextPos[n]]
Upstream(lo, n, p) ==
    IF p = LOCAL_PORT THEN Pushing(n)
    ELSE IF Neighbour(n, p) \in Nodes THEN lo[Neighbour(n, p)][Opposite(p)]
    ELSE Start

Wanted(lo, n, i, q, count) ==
    IF q # FREE /\ count # AWAIT_ADDR THEN lo[n][q] ELSE Start

Connection(lo, n, i, q, count) ==
    IF count = AWAIT_ADDR
    THEN lo[n][q] = Start /\ ib[n][i] # << >> /\ RouteOf(n, ib[n][i][1].msg) = q
    ELSE LET e == lo[n][q]
         IN  /\ e # Start /\ RouteOf(n, e.msg) = q /\ Approach(n, i, e.msg)
             /\ count = CountAt(e.msg, e.pos)

\* The crossbar and counters of a router, before or within a cycle.
Switched(lo, n, crossbar, counts) ==
    /\ \A i, j \in Ports : crossbar[i] # FREE /\ crossbar[i] = crossbar[j] => i = j
    /\ \A i \in Ports : crossbar[i] # FREE => Connection(lo, n, i, crossbar[i], counts[i])
    /\ \A q \in Ports : (\A i \in Ports : crossbar[i] # q) => lo[n][q] = Start

Linked(lo, n, p) ==
    /\ Chain(ib[n][p], Wanted(lo, n, p, sw[n][p], fts[n][p]), Upstream(lo, n, p))
    /\ \A k \in 1 .. Len(ib[n][p]) : Approach(n, p, ib[n][p][k].msg)

Taken(n) == IF inbox[n] = << >> THEN Start ELSE After(inbox[n][Len(inbox[n])])

Collected(lo, n) ==
    /\ Chain(ni[n], Taken(n), lo[n][LOCAL_PORT])
    /\ \A k \in 1 .. Len(ni[n]) : ni[n][k].msg.dst = n
    /\ inbox[n] # << >> =>
          /\ inbox[n][1].msg.dst = n /\ Len(inbox[n]) <= inbox[n][1].msg.size + 1
          /\ \A k \in 1 .. Len(inbox[n]) : inbox[n][k] = [msg |-> inbox[n][1].msg, pos |-> k - 1]
    /\ \A k \in 1 .. Len(received[n]) : received[n][k].dst = n

NodeInv(lo, n) ==
    /\ Switched(lo, n, sw[n], fts[n])
    /\ \A p \in Ports : Linked(lo, n, p)
    /\ Pushing(n) \in Expect
    /\ Collected(lo, n)

MeshInv(lo) == \A n \in Nodes : NodeInv(lo, n)

-----------------------------------------------------------------------------
\* All that the proofs use of the width of a flit.
LEMMA Width16 ==
    /\ HalfMod \in Int /\ HalfMod > 128 /\ FlitMod = 2 * HalfMod /\ FlitMod \in Nat
    /\ FlitWord = 0 .. 2 * HalfMod - 1 /\ Counter = -HalfMod .. HalfMod - 1
<1>1. HalfMod \in Int /\ HalfMod > 128
  BY DEF HalfMod
<1> QED
  BY <1>1 DEF FlitMod, FlitWord, Counter

LEMMA NodeFacts ==
    ASSUME NEW n \in Nodes
    PROVE  /\ n = <<n[1], n[2]>> /\ n[1] \in 0 .. 15 /\ n[2] \in 0 .. 15
           /\ n[1] \in 0 .. Width - 1 /\ n[2] \in 0 .. Height - 1
  BY MeshAssumption DEF Nodes

\* Two routers that are neighbours see each other through opposite ports.
LEMMA NeighbourFacts ==
    ASSUME NEW n \in Nodes, NEW p \in Ports, p # LOCAL_PORT
    PROVE  /\ Opposite(p) \in Ports /\ Opposite(p) # LOCAL_PORT
           /\ Opposite(Opposite(p)) = p
           /\ Neighbour(n, p) # n
           /\ Neighbour(Neighbour(n, p), Opposite(p)) = n
<1>1. n = <<n[1], n[2]>> /\ n[1] \in Int /\ n[2] \in Int
  BY NodeFacts
<1>2. p \in {NORTH, WEST, SOUTH, EAST}
  BY DEF Ports, LOCAL_PORT, NORTH, WEST, SOUTH, EAST
<1> USE DEF Opposite, Neighbour, Ports, LOCAL_PORT, NORTH, WEST, SOUTH, EAST
<1>3. Opposite(p) \in Ports /\ Opposite(p) # LOCAL_PORT /\ Opposite(Opposite(p)) = p
  BY <1>2
<1>4. CASE p = NORTH
  BY <1>1, <1>3, <1>4
<1>5. CASE p = SOUTH
  BY <1>1, <1>3, <1>5
<1>6. CASE p = WEST
  BY <1>1, <1>3, <1>6
<1>7. CASE p = EAST
  BY <1>1, <1>3, <1>7
<1> QED
  BY <1>2, <1>4, <1>5, <1>6, <1>7

\* A port is wired to one router only.
LEMMA NeighbourInjective ==
    ASSUME NEW n \in Nodes, NEW p \in Ports, NEW q \in Ports,
           p # LOCAL_PORT, q # LOCAL_PORT, Neighbour(n, p) = Neighbour(n, q)
    PROVE  p = q
<1>1. n[1] \in Int /\ n[2] \in Int
  BY NodeFacts
<1> QED
  BY <1>1 DEF Neighbour, Ports, LOCAL_PORT, NORTH, WEST, SOUTH, EAST

\* The address flit names the node.
LEMMA AddressFacts ==
    ASSUME NEW d \in Nodes
    PROVE  /\ d[1] * 16 + d[2] \in FlitWord
           /\ TargetX(d[1] * 16 + d[2]) = d[1] /\ TargetY(d[1] * 16 + d[2]) = d[2]
<1>1. d[1] \in 0 .. 15 /\ d[2] \in 0 .. 15
  BY NodeFacts
<1>2. d[1] * 16 + d[2] \in 0 .. 255
  BY <1>1
<1>3. (d[1] * 16 + d[2]) \div 16 = d[1] /\ (d[1] * 16 + d[2]) % 16 = d[2]
  BY <1>1
<1>4. d[1] % 16 = d[1]
  BY <1>1
<1>5. d[1] * 16 + d[2] \in FlitWord
  <2>1. \A w \in 0 .. 255 : w \in FlitWord
    BY Width16
  <2> QED
    BY <1>2, <2>1
<1> QED
  BY <1>3, <1>4, <1>5 DEF TargetX, TargetY

LEMMA MessageFacts ==
    ASSUME NEW m \in Messages
    PROVE  /\ m.dst \in Nodes /\ m.size \in 0 .. FlitMod - 3 /\ m.size \in Nat
           /\ m # Start.msg
<1>1. PICK n \in Nodes : m \in {Message(n, k) : k \in 1 .. Len(Traffic[n])}
  BY DEF Messages
<1>2. PICK k \in 1 .. Len(Traffic[n]) : m = Message(n, k)
  BY <1>1
<1>3. Traffic[n][k] \in [dst : Nodes, size : 0 .. FlitMod - 3]
  BY <1>2, TrafficAssumption, ElementOfSeq
<1>4. m.dst = Traffic[n][k].dst /\ m.size = Traffic[n][k].size /\ m.num = k
  BY <1>2 DEF Message
<1> QED
  BY <1>3, <1>4, Width16 DEF Start

LEMMA FlitFacts ==
    ASSUME NEW f \in Flits
    PROVE  /\ f = [msg |-> f.msg, pos |-> f.pos]
           /\ f.msg \in Messages /\ f.pos \in Nat
           /\ f.msg.dst \in Nodes /\ f.msg.size \in 0 .. FlitMod - 3 /\ f.msg.size \in Nat
           /\ f # Start
  BY MessageFacts DEF Flits, Start

-----------------------------------------------------------------------------
(***************************************************************************)
(* Routing, by coordinates.                                                *)
(***************************************************************************)
\* Where a packet that is routed for d goes at n.
LEMMA RouteFacts ==
    ASSUME NEW n \in Nodes, NEW m, m.dst \in Nodes
    PROVE  /\ RouteOf(n, m) =
                IF n[1] = m.dst[1]
                THEN IF n[2] = m.dst[2] THEN LOCAL_PORT
                     ELSE IF n[2] > m.dst[2] THEN SOUTH ELSE NORTH
                ELSE IF n[1] > m.dst[1] THEN WEST ELSE EAST
           /\ RouteOf(n, m) \in Ports
           /\ RouteOf(n, m) = LOCAL_PORT => m.dst = n
<1>1. RouteOf(n, m) =
          IF n[1] = m.dst[1]
          THEN IF n[2] = m.dst[2] THEN LOCAL_PORT
               ELSE IF n[2] > m.dst[2] THEN SOUTH ELSE NORTH
          ELSE IF n[1] > m.dst[1] THEN WEST ELSE EAST
  BY AddressFacts DEF RouteOf, RouteXY
<1>2. n = <<n[1], n[2]>> /\ m.dst = <<m.dst[1], m.dst[2]>>
  BY NodeFacts
<1> QED
  BY <1>1, <1>2 DEF Ports, LOCAL_PORT, NORTH, WEST, SOUTH, EAST

\* It goes to a port something is connected to, and comes in where it should.
LEMMA RouteStays ==
    ASSUME NEW n \in Nodes, NEW m, m.dst \in Nodes
    PROVE  /\ Connected(n, RouteOf(n, m))
           /\ RouteOf(n, m) # LOCAL_PORT =>
                  /\ Neighbour(n, RouteOf(n, m)) \in Nodes
                  /\ Approach(Neighbour(n, RouteOf(n, m)), Opposite(RouteOf(n, m)), m)
<1> DEFINE q == RouteOf(n, m)
<1>1. /\ n = <<n[1], n[2]>> /\ n[1] \in 0 .. Width - 1 /\ n[2] \in 0 .. Height - 1
      /\ m.dst[1] \in 0 .. Width - 1 /\ m.dst[2] \in 0 .. Height - 1
      /\ Width \in Nat /\ Height \in Nat
  BY NodeFacts, MeshAssumption
<1>2. q # LOCAL_PORT => Neighbour(n, q) \in Nodes
  BY <1>1, RouteFacts DEF Neighbour, Nodes, LOCAL_PORT, NORTH, WEST, SOUTH, EAST
<1>3. q # LOCAL_PORT => Approach(Neighbour(n, q), Opposite(q), m)
  BY RouteFacts, NeighbourFacts DEF Approach
<1> QED
  BY <1>2, <1>3 DEF Connected

\* And having come in at p it leaves neither through p nor from a column to a row.
LEMMA RouteTurns ==
    ASSUME NEW n \in Nodes, NEW p \in Ports, NEW m, m.dst \in Nodes, Approach(n, p, m)
    PROVE  /\ p # LOCAL_PORT => RouteOf(n, m) # p
           /\ p \in {NORTH, SOUTH} => RouteOf(n, m) \in {NORTH, SOUTH, LOCAL_PORT}
<1>1. CASE p = LOCAL_PORT
  BY <1>1 DEF LOCAL_PORT, NORTH, SOUTH
<1>2. CASE p # LOCAL_PORT
  <2>1. Neighbour(n, p) \in Nodes /\ RouteOf(Neighbour(n, p), m) = Opposite(p)
    BY <1>2 DEF Approach
  <2>2. /\ n[1] \in Int /\ n[2] \in Int /\ m.dst[1] \in Int /\ m.dst[2] \in Int
    BY NodeFacts
  <2>3. p \in {NORTH, WEST, SOUTH, EAST}
    BY <1>2 DEF Ports, LOCAL_PORT, NORTH, WEST, SOUTH, EAST
  <2> USE DEF Neighbour, Opposite, LOCAL_PORT, NORTH, WEST, SOUTH, EAST
  <2>4. CASE p = NORTH
    BY <2>1, <2>2, <2>4, RouteFacts
  <2>5. CASE p = SOUTH
    BY <2>1, <2>2, <2>5, RouteFacts
  <2>6. CASE p = WEST
    BY <2>1, <2>2, <2>6, RouteFacts
  <2>7. CASE p = EAST
    BY <2>1, <2>2, <2>7, RouteFacts
  <2> QED
    BY <2>3, <2>4, <2>5, <2>6, <2>7
<1> QED
  BY <1>1, <1>2

-----------------------------------------------------------------------------
(***************************************************************************)
(* Streams of flits.                                                       *)
(***************************************************************************)
\* A flit that is expected is within its packet, and so is the one after it.
LEMMA ExpectFacts ==
    ASSUME NEW e \in Expect, NEW f \in Flits, Fits(e, f)
    PROVE  /\ f.pos <= f.msg.size + 1
           /\ After(f) \in Expect
           /\ After(f) # Start <=> f.pos # f.msg.size + 1
           /\ After(f) # Start => After(f).msg = f.msg /\ After(f).pos = f.pos + 1
           /\ e # Start => e.msg = f.msg /\ e.pos = f.pos /\ f.pos # 0
           /\ e = Start => f.pos = 0
<1>1. /\ f.msg \in Messages /\ f.pos \in Nat /\ f.msg.size \in Nat
  BY FlitFacts
<1>2. /\ e = Start => f.pos = 0
      /\ e # Start => e = f /\ f.pos \in 1 .. f.msg.size + 1
  BY DEF Fits, Expect
<1>3. f.pos <= f.msg.size + 1
  BY <1>1, <1>2
<1>4. CASE f.pos = f.msg.size + 1
  BY <1>1, <1>2, <1>3, <1>4 DEF After, Expect
<1>5. CASE f.pos # f.msg.size + 1
  <2> DEFINE g == [msg |-> f.msg, pos |-> f.pos + 1]
  <2>1. g \in Flits /\ g.pos \in 1 .. g.msg.size + 1
    BY <1>1, <1>3, <1>5 DEF Flits
  <2>2. After(f) = g /\ g # Start
    BY <1>1, <1>5 DEF After, Start
  <2> QED
    BY <1>1, <1>2, <1>3, <1>5, <2>1, <2>2 DEF Expect
<1> QED
  BY <1>4, <1>5

LEMMA ChainPush ==
    ASSUME NEW b \in Seq(Flits), NEW f \in Flits, NEW down, NEW up,
           Chain(b, down, up), Fits(up, f)
    PROVE  Chain(Append(b, f), down, After(f))
<1> DEFINE c == Append(b, f)
<1>1. /\ Len(b) \in Nat /\ c # << >> /\ Len(c) = Len(b) + 1
      /\ \A k \in 1 .. Len(b) : c[k] = b[k]
      /\ c[Len(b) + 1] = f
  BY AppendProperties, LenProperties
<1>2. c[Len(c)] = f
  BY <1>1
<1>3. CASE b = << >>
  <2>1. Len(b) = 0 /\ Fits(down, f)
    BY <1>3 DEF Chain
  <2>2. c[1] = f /\ Len(c) - 1 = 0
    BY <1>1, <2>1
  <2> HIDE DEF c
  <2>3. Chain(c, down, After(f))
    BY <1>1, <1>2, <2>1, <2>2 DEF Chain
  <2> QED
    BY <2>3 DEF c
<1>4. CASE b # << >>
  <2>1. /\ Len(b) >= 1 /\ Fits(down, b[1]) /\ up = After(b[Len(b)])
        /\ \A k \in 1 .. Len(b) - 1 : Fits(After(b[k]), b[k + 1])
    BY <1>4, EmptySeq DEF Chain
  <2>2. c[1] = b[1]
    BY <1>1, <2>1
  <2>3. ASSUME NEW k \in 1 .. Len(c) - 1
        PROVE  Fits(After(c[k]), c[k + 1])
    <3>1. CASE k = Len(b)
      BY <1>1, <2>1, <3>1
    <3>2. CASE k # Len(b)
      <4>1. k \in 1 .. Len(b) - 1 /\ k \in 1 .. Len(b) /\ k + 1 \in 1 .. Len(b)
        BY <1>1, <3>2
      <4> QED
        BY <1>1, <2>1, <4>1
    <3> QED
      BY <3>1, <3>2
  <2> HIDE DEF c
  <2>4. Chain(c, down, After(f))
    BY <1>1, <1>2, <2>1, <2>2, <2>3 DEF Chain
  <2> QED
    BY <2>4 DEF c
<1> QED
  BY <1>3, <1>4

LEMMA ChainPop ==
    ASSUME NEW b \in Seq(Flits), NEW down, NEW up, Chain(b, down, up), b # << >>
    PROVE  /\ Fits(down, b[1])
           /\ Chain(Tail(b), After(b[1]), up)
<1> DEFINE c == Tail(b)
<1>1. /\ Len(b) \in Nat /\ Len(b) # 0 /\ c \in Seq(Flits) /\ Len(c) = Len(b) - 1
      /\ \A k \in 1 .. Len(b) - 1 : c[k] = b[k + 1]
  BY EmptySeq, HeadTailProperties, LenProperties
<1>2. /\ Fits(down, b[1]) /\ up = After(b[Len(b)])
      /\ \A k \in 1 .. Len(b) - 1 : Fits(After(b[k]), b[k + 1])
  BY DEF Chain
<1> HIDE DEF c
<1>3. CASE Len(b) = 1
  <2>1. c = << >>
    BY <1>1, <1>3, EmptySeq
  <2>2. up = After(b[1])
    BY <1>2, <1>3
  <2>3. Chain(c, After(b[1]), up)
    BY <2>1, <2>2 DEF Chain
  <2> QED
    BY <1>2, <2>3 DEF c
<1>4. CASE Len(b) # 1
  <2>1. Len(c) # 0 /\ 1 \in 1 .. Len(b) - 1 /\ Len(c) \in 1 .. Len(b) - 1
        /\ Len(c) + 1 = Len(b)
    BY <1>1, <1>4
  <2>2. c # << >>
    BY <2>1, EmptySeq
  <2>3. Fits(After(b[1]), c[1]) /\ up = After(c[Len(c)])
    BY <1>1, <1>2, <2>1
  <2>4. ASSUME NEW k \in 1 .. Len(c) - 1
        PROVE  Fits(After(c[k]), c[k + 1])
    <3>1. k \in 1 .. Len(b) - 1 /\ k + 1 \in 1 .. Len(b) - 1
      BY <1>1
    <3> QED
      BY <1>1, <1>2, <3>1
  <2>5. Chain(c, After(b[1]), up)
    BY <2>2, <2>3, <2>4 DEF Chain
  <2> QED
    BY <1>2, <2>5 DEF c
<1> QED
  BY <1>3, <1>4

\* What storing the size of a packet in an int16_t keeps of it.
LEMMA Int16Facts ==
    ASSUME NEW k \in 0 .. FlitMod - 3
    PROVE  /\ Int16(k) \in Counter /\ Int16(k) # AWAIT_ADDR /\ Int16(k) # AWAIT_SIZE
           /\ Int16(k) = 0 <=> k = 0
           /\ k > 0 => Int16(Int16(k) - 1) = Int16(k - 1)
  BY Width16 DEF Int16, AWAIT_ADDR, AWAIT_SIZE

\* The counter tells the position in the packet, and reaches 0 with its last flit.
LEMMA CountFacts ==
    ASSUME NEW f \in Flits, f.pos <= f.msg.size + 1
    PROVE  /\ f.pos # 0 => CountAt(f.msg, f.pos) # AWAIT_ADDR
           /\ CountAfter(CountAt(f.msg, f.pos), Word(f)) =
                IF f.pos = f.msg.size + 1 THEN 0 ELSE CountAt(f.msg, f.pos + 1)
           /\ f.pos # f.msg.size + 1 => CountAt(f.msg, f.pos + 1) # 0
<1> DEFINE s == f.msg.size
           p == f.pos
<1>1. /\ s \in 0 .. FlitMod - 3 /\ p \in Nat /\ s \in Nat /\ p <= s + 1 /\ FlitMod \in Nat
  BY FlitFacts, Width16
<1> HIDE DEF s, p
<1>2. CASE p = 0
  <2>1. CountAt(f.msg, p) = AWAIT_ADDR /\ CountAt(f.msg, p + 1) = AWAIT_SIZE /\ p # s + 1
    BY <1>1, <1>2 DEF CountAt
  <2> QED
    BY <1>2, <2>1 DEF CountAfter, s, p, AWAIT_SIZE
<1>3. CASE p = 1
  <2>1. /\ CountAt(f.msg, p) = AWAIT_SIZE /\ CountAt(f.msg, p + 1) = Int16(s + 2 - (p + 1))
        /\ s + 2 - (p + 1) = s
    BY <1>1, <1>3 DEF CountAt, s
  <2>2. Word(f) = s
    BY <1>3 DEF Word, s, p
  <2>3. AWAIT_SIZE # AWAIT_ADDR
    BY DEF AWAIT_ADDR, AWAIT_SIZE
  <2>4. CountAfter(CountAt(f.msg, p), Word(f)) = Int16(s)
    BY <2>1, <2>2, <2>3 DEF CountAfter
  <2>5. Int16(s) = 0 <=> s = 0
    BY <1>1, Int16Facts
  <2>6. p = s + 1 <=> s = 0
    BY <1>1, <1>3
  <2> QED
    BY <1>3, <2>1, <2>3, <2>4, <2>5, <2>6 DEF s, p
<1>4. CASE p > 1
  <2> DEFINE k == s + 2 - p
  <2>1. /\ k \in 0 .. FlitMod - 3 /\ k > 0 /\ k - 1 \in 0 .. FlitMod - 3
        /\ s + 2 - (p + 1) = k - 1 /\ (p = s + 1 <=> k - 1 = 0)
    BY <1>1, <1>4
  <2>2. CountAt(f.msg, p) = Int16(k) /\ CountAt(f.msg, p + 1) = Int16(k - 1)
    BY <1>1, <1>4, <2>1 DEF CountAt, s
  <2> HIDE DEF k
  <2>3. /\ Int16(k) # AWAIT_ADDR /\ Int16(k) # AWAIT_SIZE
        /\ Int16(Int16(k) - 1) = Int16(k - 1) /\ (Int16(k - 1) = 0 <=> k - 1 = 0)
    BY <2>1, Int16Facts
  <2>4. CountAfter(CountAt(f.msg, p), Word(f)) = Int16(k - 1)
    BY <2>2, <2>3 DEF CountAfter
  <2>5. CountAt(f.msg, p) # AWAIT_ADDR
    BY <2>2, <2>3
  <2>6. CountAfter(CountAt(f.msg, p), Word(f)) = IF p = s + 1 THEN 0 ELSE CountAt(f.msg, p + 1)
    BY <2>1, <2>2, <2>3, <2>4
  <2>7. p # s + 1 => CountAt(f.msg, p + 1) # 0
    BY <2>1, <2>2, <2>3
  <2> QED
    BY <2>5, <2>6, <2>7 DEF s, p
<1> QED
  BY <1>1, <1>2, <1>3, <1>4 DEF p

\* A counter stays an int16_t whatever the flit.
LEMMA CounterType ==
    ASSUME NEW c \in Counter, NEW w \in FlitWord
    PROVE  CountAfter(c, w) \in Counter /\ AWAIT_ADDR \in Counter /\ 0 \in Counter
  BY Width16 DEF CountAfter, Int16, AWAIT_ADDR, AWAIT_SIZE

LEMMA WordType ==
    ASSUME NEW f \in Flits
    PROVE  Word(f) \in FlitWord
<1>1. f.msg.size \in FlitWord
  BY FlitFacts, Width16
<1> QED
  BY <1>1, FlitFacts, AddressFacts, PayloadAssumption DEF Word

-----------------------------------------------------------------------------
(***************************************************************************)
(* One Run of a router, its parts named.                                   *)
(***************************************************************************)
Driving(n) == Drives(Crossbar(n), Waiting(n), Full(n))
Left(n, i) == CountAfter(Counts(n)[i], Word(Head(ib[n][i])))
Inputs(n, q) == {i \in Driving(n) : Crossbar(n)[i] = q}
Driven(n, q) == IF Inputs(n, q) = {} THEN << >>
                ELSE <<Head(ib[n][CHOOSE i \in Inputs(n, q) : TRUE])>>

LEMMA RunEffect ==
    ASSUME TypeOK, NEW n \in Nodes, RunRouter(n)
    PROVE  /\ ib' = [m \in Nodes |-> [p \in Ports |->
                  IF m = n THEN IF p \in Driving(n) THEN Tail(ib[n][p]) ELSE ib[n][p]
                  ELSE IF p # LOCAL_PORT /\ Neighbour(m, p) = n
                  THEN ib[m][p] \o Driven(n, Opposite(p)) ELSE ib[m][p]]]
           /\ ni' = [ni EXCEPT ![n] = ni[n] \o Driven(n, LOCAL_PORT)]
           /\ fts' = [fts EXCEPT ![n] = [i \in Ports |->
                  IF i \in Driving(n) THEN Left(n, i) ELSE Counts(n)[i]]]
           /\ sw' = [sw EXCEPT ![n] = [i \in Ports |->
                  IF i \in Driving(n) /\ Left(n, i) = 0 THEN FREE ELSE Crossbar(n)[i]]]
  BY DEF RunRouter, Driving, Left, Inputs, Driven

\* The same, router by router and port by port.
LEMMA RunAtPort ==
    ASSUME TypeOK, NEW n \in Nodes, RunRouter(n), NEW m \in Nodes, NEW p \in Ports
    PROVE  /\ m = n => ib'[m][p] = IF p \in Driving(n) THEN Tail(ib[n][p]) ELSE ib[n][p]
           /\ m # n /\ p # LOCAL_PORT /\ Neighbour(m, p) = n
                  => ib'[m][p] = ib[m][p] \o Driven(n, Opposite(p))
           /\ m # n /\ (p = LOCAL_PORT \/ Neighbour(m, p) # n) => ib'[m][p] = ib[m][p]
<1> DEFINE row(k) == [o \in Ports |->
                  IF k = n THEN IF o \in Driving(n) THEN Tail(ib[n][o]) ELSE ib[n][o]
                  ELSE IF o # LOCAL_PORT /\ Neighbour(k, o) = n
                  THEN ib[k][o] \o Driven(n, Opposite(o)) ELSE ib[k][o]]
<1>1. ib' = [k \in Nodes |-> row(k)]
  BY RunEffect
<1> HIDE DEF row
<1>2. ib'[m][p] = row(m)[p]
  BY <1>1
<1> QED
  BY <1>2 DEF row

LEMMA RunAt ==
    ASSUME TypeOK, NEW n \in Nodes, RunRouter(n), NEW m \in Nodes
    PROVE  /\ ni'[m] = IF m = n THEN ni[n] \o Driven(n, LOCAL_PORT) ELSE ni[m]
           /\ m # n => fts'[m] = fts[m] /\ sw'[m] = sw[m]
           /\ \A i \in Ports :
                /\ fts'[n][i] = IF i \in Driving(n) THEN Left(n, i) ELSE Counts(n)[i]
                /\ sw'[n][i] = IF i \in Driving(n) /\ Left(n, i) = 0 THEN FREE ELSE Crossbar(n)[i]
<1>1. ni \in [Nodes -> Buffers]
  BY DEF TypeOK
<1>2. fts \in [Nodes -> [Ports -> Counter]]
  BY DEF TypeOK
<1>3. sw \in [Nodes -> [Ports -> Ports \cup {FREE}]]
  BY DEF TypeOK
<1>4. ni'[m] = IF m = n THEN ni[n] \o Driven(n, LOCAL_PORT) ELSE ni[m]
  BY <1>1, RunEffect
<1> DEFINE F == [i \in Ports |-> IF i \in Driving(n) THEN Left(n, i) ELSE Counts(n)[i]]
           S == [i \in Ports |->
                  IF i \in Driving(n) /\ Left(n, i) = 0 THEN FREE ELSE Crossbar(n)[i]]
<1>5. fts' = [fts EXCEPT ![n] = F] /\ sw' = [sw EXCEPT ![n] = S]
  BY RunEffect
<1> HIDE DEF F, S
<1>6. fts'[n] = F /\ sw'[n] = S /\ (m # n => fts'[m] = fts[m] /\ sw'[m] = sw[m])
  BY <1>2, <1>3, <1>5
<1> QED
  BY <1>4, <1>6 DEF F, S

\* Only functions of the nodes are left by a Run.
LEMMA RunShape ==
    ASSUME TypeOK, NEW n \in Nodes, RunRouter(n)
    PROVE  /\ ib' = [m \in Nodes |-> [p \in Ports |-> ib'[m][p]]]
           /\ ni' = [m \in Nodes |-> ni'[m]]
           /\ sw' = [m \in Nodes |-> IF m = n THEN [i \in Ports |-> sw'[n][i]] ELSE sw[m]]
           /\ fts' = [m \in Nodes |-> IF m = n THEN [i \in Ports |-> fts'[n][i]] ELSE fts[m]]
<1>1. ib' = [m \in Nodes |-> [p \in Ports |-> ib'[m][p]]]
  BY RunEffect
<1>2. ni' = [m \in Nodes |-> ni'[m]]
  BY RunEffect DEF TypeOK
<1>3. sw' = [m \in Nodes |-> IF m = n THEN [i \in Ports |-> sw'[n][i]] ELSE sw[m]]
  <2> DEFINE S == [i \in Ports |->
                  IF i \in Driving(n) /\ Left(n, i) = 0 THEN FREE ELSE Crossbar(n)[i]]
  <2>1. sw' = [sw EXCEPT ![n] = S] /\ sw = [m \in Nodes |-> sw[m]] /\ S = [i \in Ports |-> S[i]]
    BY RunEffect DEF TypeOK
  <2> HIDE DEF S
  <2> QED
    BY <2>1
<1>4. fts' = [m \in Nodes |-> IF m = n THEN [i \in Ports |-> fts'[n][i]] ELSE fts[m]]
  <2> DEFINE F == [i \in Ports |-> IF i \in Driving(n) THEN Left(n, i) ELSE Counts(n)[i]]
  <2>1. fts' = [fts EXCEPT ![n] = F] /\ fts = [m \in Nodes |-> fts[m]] /\ F = [i \in Ports |-> F[i]]
    BY RunEffect DEF TypeOK
  <2> HIDE DEF F
  <2> QED
    BY <2>1
<1> QED
  BY <1>1, <1>2, <1>3, <1>4

LEMMA BufferFacts ==
    ASSUME TypeOK, NEW n \in Nodes
    PROVE  /\ ni[n] \in Seq(Flits) /\ Len(ni[n]) <= Capacity
           /\ \A p \in Ports : ib[n][p] \in Seq(Flits) /\ Len(ib[n][p]) <= Capacity
           /\ \A p \in Ports : ib[n][p] # << >> =>
                 /\ Head(ib[n][p]) = ib[n][p][1] /\ ib[n][p][1] \in Flits
                 /\ Len(ib[n][p]) >= 1 /\ 1 \in 1 .. Len(ib[n][p])
<1>1. /\ ni[n] \in Seq(Flits) /\ Len(ni[n]) <= Capacity
      /\ \A p \in Ports : ib[n][p] \in Seq(Flits) /\ Len(ib[n][p]) <= Capacity
  BY DEF TypeOK, Buffers
<1>2. ASSUME NEW p \in Ports, ib[n][p] # << >>
      PROVE  /\ Head(ib[n][p]) = ib[n][p][1] /\ ib[n][p][1] \in Flits
             /\ Len(ib[n][p]) >= 1 /\ 1 \in 1 .. Len(ib[n][p])
  <2>1. ib[n][p] \in Seq(Flits) /\ Len(ib[n][p]) \in Nat /\ Len(ib[n][p]) # 0
    BY <1>1, <1>2, EmptySeq, LenProperties
  <2>2. 1 \in 1 .. Len(ib[n][p])
    BY <2>1
  <2> QED
    BY <2>1, <2>2, ElementOfSeq
<1> QED
  BY <1>1, <1>2

LEMMA ControlType ==
    ASSUME TypeOK, NEW n \in Nodes
    PROVE  /\ Crossbar(n) \in [Ports -> Ports \cup {FREE}]
           /\ Counts(n) \in [Ports -> Counter]
<1>1. Target(n) \in Ports
  BY DEF Target, RouteXY, Ports, LOCAL_PORT, NORTH, WEST, SOUTH, EAST
<1>2. AWAIT_ADDR \in Counter
  BY Width16 DEF AWAIT_ADDR
<1> QED
  BY <1>1, <1>2 DEF TypeOK, Crossbar, Counts

\* An input that drives has a flit, and its output has room for it.
LEMMA DrivingFacts ==
    ASSUME TypeOK, NEW n \in Nodes, NEW i \in Driving(n)
    PROVE  /\ i \in Ports /\ Crossbar(n)[i] \in Ports
           /\ ib[n][i] # << >> /\ Head(ib[n][i]) = ib[n][i][1] /\ ib[n][i][1] \in Flits
           /\ Len(OutBuffer(n, Crossbar(n)[i])) # Capacity
           /\ Left(n, i) \in Counter
<1>1. /\ i \in Ports /\ Crossbar(n)[i] # FREE /\ Waiting(n)[i] /\ ~ Full(n)[Crossbar(n)[i]]
  BY DEF Driving, Drives
<1>2. Crossbar(n)[i] \in Ports /\ Counts(n)[i] \in Counter
  BY <1>1, ControlType
<1>3. ib[n][i] # << >> /\ Len(OutBuffer(n, Crossbar(n)[i])) # Capacity
  BY <1>1, <1>2 DEF Waiting, Full
<1>4. Head(ib[n][i]) = ib[n][i][1] /\ ib[n][i][1] \in Flits
  BY <1>1, <1>3, BufferFacts
<1>5. Left(n, i) \in Counter
  BY <1>2, <1>4, WordType, CounterType DEF Left
<1> QED
  BY <1>1, <1>2, <1>3, <1>4, <1>5

\* At most one flit leaves by a port, and only if there is room for it.
LEMMA DrivenFacts ==
    ASSUME TypeOK, NEW n \in Nodes, NEW q \in Ports, NEW b \in Seq(Flits)
    PROVE  \/ Inputs(n, q) = {} /\ Driven(n, q) = << >> /\ b \o Driven(n, q) = b
           \/ \E i \in Inputs(n, q) :
                 /\ i \in Driving(n) /\ Crossbar(n)[i] = q
                 /\ b \o Driven(n, q) = Append(b, ib[n][i][1])
<1>1. CASE Inputs(n, q) = {}
  BY <1>1, ConcatEmptySeq DEF Driven
<1>2. CASE Inputs(n, q) # {}
  <2>1. PICK i \in Inputs(n, q) : i = CHOOSE j \in Inputs(n, q) : TRUE
    BY <1>2
  <2>2. i \in Driving(n) /\ Crossbar(n)[i] = q
    BY DEF Inputs
  <2>3. Driven(n, q) = <<ib[n][i][1]>>
    BY <1>2, <2>1, <2>2, DrivingFacts DEF Driven
  <2>4. Append(b, ib[n][i][1]) = b \o <<ib[n][i][1]>>
    BY <2>2, DrivingFacts, AppendIsConcat
  <2> QED
    BY <2>2, <2>3, <2>4
<1> QED
  BY <1>1, <1>2

\* The output buffer of a router is the input buffer of its neighbour.
LEMMA OutBufferFacts ==
    ASSUME NEW n \in Nodes, NEW m \in Nodes, NEW p \in Ports, p # LOCAL_PORT,
           Neighbour(m, p) = n
    PROVE  /\ Opposite(p) \in Ports /\ Opposite(p) # LOCAL_PORT
           /\ Neighbour(n, Opposite(p)) = m
           /\ OutBuffer(n, Opposite(p)) = ib[m][p]
<1>1. /\ Opposite(p) \in Ports /\ Opposite(p) # LOCAL_PORT /\ Opposite(Opposite(p)) = p
      /\ Neighbour(n, Opposite(p)) = m
  BY NeighbourFacts
<1> QED
  BY <1>1 DEF OutBuffer, Connected

LEMMA BufferPush ==
    ASSUME NEW b \in Seq(Flits), NEW f \in Flits, Len(b) <= Capacity, Len(b) # Capacity
    PROVE  Append(b, f) \in Buffers
<1>1. Append(b, f) \in Seq(Flits) /\ Len(Append(b, f)) = Len(b) + 1 /\ Len(b) \in Nat
  BY AppendProperties, LenProperties
<1> QED
  BY <1>1, CapacityAssumption DEF Buffers

LEMMA BufferPop ==
    ASSUME NEW b \in Seq(Flits), Len(b) <= Capacity, b # << >>
    PROVE  Tail(b) \in Buffers
<1>1. Tail(b) \in Seq(Flits) /\ Len(Tail(b)) = Len(b) - 1 /\ Len(b) \in Nat
  BY HeadTailProperties, LenProperties
<1> QED
  BY <1>1, CapacityAssumption DEF Buffers

\* What a router drives fits where it goes.
LEMMA DrivenType ==
    ASSUME TypeOK, NEW n \in Nodes, NEW q \in Ports, NEW b \in Seq(Flits),
           b = OutBuffer(n, q), Len(b) <= Capacity
    PROVE  b \o Driven(n, q) \in Buffers
<1>1. CASE Inputs(n, q) = {} /\ b \o Driven(n, q) = b
  BY <1>1 DEF Buffers
<1>2. CASE \E i \in Inputs(n, q) : /\ i \in Driving(n) /\ Crossbar(n)[i] = q
                                  /\ b \o Driven(n, q) = Append(b, ib[n][i][1])
  <2>1. PICK i \in Inputs(n, q) : /\ i \in Driving(n) /\ Crossbar(n)[i] = q
                                  /\ b \o Driven(n, q) = Append(b, ib[n][i][1])
    BY <1>2
  <2>2. ib[n][i][1] \in Flits /\ Len(b) # Capacity
    BY <2>1, DrivingFacts
  <2> QED
    BY <2>1, <2>2, BufferPush
<1> QED
  BY <1>1, <1>2, DrivenFacts

LEMMA TypeRunRouter ==
    ASSUME TypeOK, NEW n \in Nodes, RunRouter(n)
    PROVE  TypeOK'
<1>1. ASSUME NEW m \in Nodes, NEW p \in Ports
      PROVE  ib'[m][p] \in Buffers
  <2>1. ib[m][p] \in Seq(Flits) /\ Len(ib[m][p]) <= Capacity /\ ib[m][p] \in Buffers
    BY BufferFacts DEF TypeOK
  <2>2. CASE m = n /\ p \in Driving(n)
    <3>1. ib'[m][p] = Tail(ib[n][p])
      BY <2>2, RunAtPort
    <3> QED
      BY <2>1, <2>2, <3>1, DrivingFacts, BufferPop
  <2>3. CASE m # n /\ p # LOCAL_PORT /\ Neighbour(m, p) = n
    <3>1. ib'[m][p] = ib[m][p] \o Driven(n, Opposite(p))
      BY <2>3, RunAtPort
    <3>2. Opposite(p) \in Ports /\ ib[m][p] = OutBuffer(n, Opposite(p))
      BY <2>3, OutBufferFacts
    <3> QED
      BY <2>1, <3>1, <3>2, DrivenType
  <2>4. CASE /\ ~ (m = n /\ p \in Driving(n))
             /\ ~ (m # n /\ p # LOCAL_PORT /\ Neighbour(m, p) = n)
    <3>1. ib'[m][p] = ib[m][p]
      BY <2>4, RunAtPort
    <3> QED
      BY <2>1, <3>1
  <2> QED
    BY <2>2, <2>3, <2>4
<1>2. ib' \in [Nodes -> [Ports -> Buffers]]
  BY <1>1, RunShape
<1>3. ni' \in [Nodes -> Buffers]
  <2>1. LOCAL_PORT \in Ports /\ ni[n] = OutBuffer(n, LOCAL_PORT)
    BY DEF OutBuffer, LOCAL_PORT, Ports
  <2>2. ni[n] \o Driven(n, LOCAL_PORT) \in Buffers
    BY <2>1, BufferFacts, DrivenType
  <2> QED
    BY <2>2, RunAt, RunShape DEF TypeOK
<1>4. sw' \in [Nodes -> [Ports -> Ports \cup {FREE}]]
  <2>1. sw \in [Nodes -> [Ports -> Ports \cup {FREE}]]
    BY DEF TypeOK
  <2>2. \A i \in Ports : sw'[n][i] \in Ports \cup {FREE}
    BY ControlType, RunAt
  <2> QED
    BY <2>1, <2>2, RunShape
<1>5. fts' \in [Nodes -> [Ports -> Counter]]
  <2>1. fts \in [Nodes -> [Ports -> Counter]]
    BY DEF TypeOK
  <2>2. \A i \in Ports : fts'[n][i] \in Counter
    BY ControlType, DrivingFacts, RunAt
  <2> QED
    BY <2>1, <2>2, RunShape
<1>6. rr' \in [Nodes -> Ports] /\ ran' \in SUBSET Nodes
  <2>1. rr[n] \in 0 .. 4
    BY DEF TypeOK, Ports
  <2>2. (rr[n] + 1) % 5 \in 0 .. 4
    BY <2>1
  <2> QED
    BY <2>2 DEF RunRouter, TypeOK, NextPriority, Ports
<1>7. UNCHANGED <<nextPkt, nextPos, inbox, received>>
  BY DEF RunRouter, niVars
<1> QED
  BY <1>2, <1>3, <1>4, <1>5, <1>6, <1>7 DEF TypeOK

-----------------------------------------------------------------------------
(***************************************************************************)
(* What a Run keeps.                                                       *)
(***************************************************************************)
Links == [Nodes -> [Ports -> Expect]]

LEMMA LinkedAt ==
    ASSUME NEW lo, NEW n \in Nodes, NodeInv(lo, n), NEW p \in Ports
    PROVE  /\ Chain(ib[n][p], Wanted(lo, n, p, sw[n][p], fts[n][p]), Upstream(lo, n, p))
           /\ \A k \in 1 .. Len(ib[n][p]) : Approach(n, p, ib[n][p][k].msg)
  BY DEF NodeInv, Linked

\* The control phase connects the input of a packet that has not started to the
\* port it is routed to.
LEMMA Control ==
    ASSUME TypeOK, NEW lo \in Links, NEW n \in Nodes, NodeInv(lo, n)
    PROVE  /\ Switched(lo, n, Crossbar(n), Counts(n))
           /\ \A p \in Ports : Wanted(lo, n, p, Crossbar(n)[p], Counts(n)[p])
                                  = Wanted(lo, n, p, sw[n][p], fts[n][p])
<1>1. Switched(lo, n, sw[n], fts[n])
  BY DEF NodeInv
<1>2. CASE ~ Granted(n)
  BY <1>1, <1>2 DEF Crossbar, Counts
<1>3. CASE Granted(n)
  <2> DEFINE r == rr[n]
             t == Target(n)
  <2>1. /\ r \in Ports /\ ib[n][r] # << >> /\ sw[n][r] = FREE
        /\ \A i \in Ports : sw[n][i] # t
    BY <1>3 DEF Granted, Grant, Waiting, TypeOK
  <2>2. t \in Ports /\ t # FREE
    BY DEF Target, RouteXY, Ports, LOCAL_PORT, NORTH, WEST, SOUTH, EAST, FREE
  <2>3. lo[n][t] = Start
    BY <1>1, <2>1, <2>2 DEF Switched
  <2>4. Wanted(lo, n, r, sw[n][r], fts[n][r]) = Start
    BY <2>1 DEF Wanted
  <2>5. Fits(Start, ib[n][r][1])
    <3>1. Chain(ib[n][r], Start, Upstream(lo, n, r))
      BY <2>1, <2>4, LinkedAt
    <3> QED
      BY <3>1, <2>1 DEF Chain
  <2>6. ib[n][r][1].pos = 0 /\ Head(ib[n][r]) = ib[n][r][1]
    BY <2>1, <2>5, BufferFacts DEF Fits
  <2>7. t = RouteOf(n, ib[n][r][1].msg)
    BY <2>6 DEF Target, RouteOf, Word
  <2>8. /\ \A i \in Ports : Crossbar(n)[i] = IF i = r THEN t ELSE sw[n][i]
        /\ \A i \in Ports : Counts(n)[i] = IF i = r THEN AWAIT_ADDR ELSE fts[n][i]
    BY <1>3 DEF Crossbar, Counts, TypeOK
  <2> HIDE DEF r, t
  <2>9. \A i, j \in Ports : Crossbar(n)[i] # FREE /\ Crossbar(n)[i] = Crossbar(n)[j] => i = j
    BY <1>1, <2>1, <2>8 DEF Switched
  <2>10. ASSUME NEW i \in Ports, Crossbar(n)[i] # FREE
         PROVE  Connection(lo, n, i, Crossbar(n)[i], Counts(n)[i])
    <3>1. CASE i = r
      BY <2>1, <2>3, <2>7, <2>8, <3>1 DEF Connection
    <3>2. CASE i # r
      BY <1>1, <2>8, <2>10, <3>2 DEF Switched
    <3> QED
      BY <3>1, <3>2
  <2>11. \A q \in Ports : (\A i \in Ports : Crossbar(n)[i] # q) => lo[n][q] = Start
    <3>1. \A q \in Ports : q # FREE
      BY DEF Ports, FREE
    <3> QED
      BY <1>1, <2>1, <2>8, <3>1 DEF Switched
  <2>12. \A p \in Ports : Wanted(lo, n, p, Crossbar(n)[p], Counts(n)[p])
                             = Wanted(lo, n, p, sw[n][p], fts[n][p])
    BY <2>1, <2>8 DEF Wanted
  <2> QED
    BY <2>9, <2>10, <2>11, <2>12 DEF Switched
<1> QED
  BY <1>2, <1>3

\* A flit that is driven is the one its output expects, and the counter of its
\* input tells what comes after it.
LEMMA Drive ==
    ASSUME TypeOK, NEW lo \in Links, NEW n \in Nodes, NodeInv(lo, n),
           NEW i \in Driving(n), NEW f, f = ib[n][i][1], NEW q, q = Crossbar(n)[i]
    PROVE  /\ f \in Flits /\ q \in Ports /\ Fits(lo[n][q], f) /\ After(f) \in Expect
           /\ RouteOf(n, f.msg) = q /\ Approach(n, i, f.msg)
           /\ Chain(Tail(ib[n][i]), After(f), Upstream(lo, n, i))
           /\ Left(n, i) = 0 <=> After(f) = Start
           /\ After(f) # Start => /\ Left(n, i) # AWAIT_ADDR
                                  /\ Left(n, i) = CountAt(After(f).msg, After(f).pos)
                                  /\ After(f).msg = f.msg
<1>1. /\ i \in Ports /\ q \in Ports /\ q # FREE /\ ib[n][i] # << >>
      /\ Head(ib[n][i]) = f /\ f \in Flits /\ ib[n][i] \in Seq(Flits)
      /\ 1 \in 1 .. Len(ib[n][i])
  BY DrivingFacts, BufferFacts DEF Ports, FREE
<1> DEFINE c == Counts(n)[i]
           e == lo[n][q]
<1>2. e \in Expect
  BY <1>1 DEF Links
<1>3. Connection(lo, n, i, q, c)
  BY <1>1, Control DEF Switched
<1>4. Chain(ib[n][i], Wanted(lo, n, i, q, c), Upstream(lo, n, i))
  BY <1>1, Control, LinkedAt
<1> HIDE DEF c
<1>5. /\ Fits(Wanted(lo, n, i, q, c), f)
      /\ Chain(Tail(ib[n][i]), After(f), Upstream(lo, n, i))
  BY <1>1, <1>4, ChainPop
<1>6. Approach(n, i, f.msg)
  BY <1>1, LinkedAt
<1>7. Fits(e, f) /\ RouteOf(n, f.msg) = q /\ c = CountAt(f.msg, f.pos)
  <2>1. CASE c = AWAIT_ADDR
    <3>1. e = Start /\ RouteOf(n, f.msg) = q
      BY <1>3, <2>1 DEF Connection
    <3>2. Fits(Start, f)
      BY <1>5, <2>1 DEF Wanted
    <3>3. f.pos = 0
      BY <3>2 DEF Fits
    <3> QED
      BY <2>1, <3>1, <3>2, <3>3 DEF CountAt
  <2>2. CASE c # AWAIT_ADDR
    <3>1. e # Start /\ RouteOf(n, e.msg) = q /\ c = CountAt(e.msg, e.pos)
      BY <1>3, <2>2 DEF Connection
    <3>2. Fits(e, f)
      BY <1>1, <1>5, <2>2 DEF Wanted
    <3>3. f = e
      BY <3>1, <3>2 DEF Fits
    <3> QED
      BY <3>1, <3>2, <3>3
  <2> QED
    BY <2>1, <2>2
<1> HIDE DEF e
<1>8. /\ f.pos <= f.msg.size + 1 /\ After(f) \in Expect
      /\ After(f) # Start <=> f.pos # f.msg.size + 1
      /\ After(f) # Start => After(f).msg = f.msg /\ After(f).pos = f.pos + 1
  BY <1>1, <1>2, <1>7, ExpectFacts
<1>9. Left(n, i) = CountAfter(CountAt(f.msg, f.pos), Word(f))
  BY <1>1, <1>7 DEF Left, c
<1>10. /\ Left(n, i) = IF f.pos = f.msg.size + 1 THEN 0 ELSE CountAt(f.msg, f.pos + 1)
       /\ f.pos # f.msg.size + 1 => CountAt(f.msg, f.pos + 1) # 0
  BY <1>1, <1>8, <1>9, CountFacts
<1>11. ASSUME After(f) # Start
       PROVE  CountAt(f.msg, f.pos + 1) # AWAIT_ADDR
  <2>1. After(f) \in Flits /\ After(f).pos <= After(f).msg.size + 1 /\ After(f).pos # 0
    BY <1>8, <1>11 DEF Expect
  <2> QED
    BY <1>8, <1>11, <2>1, CountFacts
<1>12. Left(n, i) = 0 <=> After(f) = Start
  BY <1>8, <1>10
<1>13. After(f) # Start => /\ Left(n, i) # AWAIT_ADDR
                           /\ Left(n, i) = CountAt(After(f).msg, After(f).pos)
                           /\ After(f).msg = f.msg
  BY <1>8, <1>10, <1>11
<1> QED
  BY <1>1, <1>5, <1>6, <1>7, <1>8, <1>12, <1>13 DEF e

\* What the links out of n carry next once n has run.
Moves(lo, hi, n) ==
    /\ hi \in Links
    /\ \A m \in Nodes : m # n => hi[m] = lo[m]
    /\ \A i \in Driving(n) : hi[n][Crossbar(n)[i]] = After(ib[n][i][1])
    /\ \A q \in Ports : Inputs(n, q) = {} => hi[n][q] = lo[n][q]

\* No two inputs drive the same output.
LEMMA DrivesApart ==
    ASSUME TypeOK, NEW lo \in Links, NEW n \in Nodes, NodeInv(lo, n),
           NEW i \in Driving(n), NEW j \in Ports, Crossbar(n)[j] = Crossbar(n)[i]
    PROVE  i = j
<1>1. i \in Ports /\ Crossbar(n)[i] # FREE
  BY DrivingFacts DEF Ports, FREE
<1> QED
  BY <1>1, Control DEF Switched

LEMMA MovesExist ==
    ASSUME TypeOK, NEW lo \in Links, NEW n \in Nodes, NodeInv(lo, n)
    PROVE  \E hi \in Links : Moves(lo, hi, n)
<1> DEFINE chosen(q) == CHOOSE i \in Inputs(n, q) : TRUE
           row == [q \in Ports |-> IF Inputs(n, q) = {} THEN lo[n][q]
                                   ELSE After(ib[n][chosen(q)][1])]
           hi == [m \in Nodes |-> IF m = n THEN row ELSE lo[m]]
<1>1. ASSUME NEW q \in Ports, Inputs(n, q) # {}
      PROVE  chosen(q) \in Driving(n) /\ Crossbar(n)[chosen(q)] = q
  BY <1>1 DEF Inputs
<1>2. ASSUME NEW i \in Driving(n)
      PROVE  Inputs(n, Crossbar(n)[i]) # {} /\ chosen(Crossbar(n)[i]) = i
             /\ Crossbar(n)[i] \in Ports
  <2>1. Crossbar(n)[i] \in Ports /\ Inputs(n, Crossbar(n)[i]) # {}
    BY DrivingFacts DEF Inputs
  <2>2. chosen(Crossbar(n)[i]) \in Driving(n)
        /\ Crossbar(n)[chosen(Crossbar(n)[i])] = Crossbar(n)[i]
    BY <1>1, <2>1
  <2>3. chosen(Crossbar(n)[i]) \in Ports
    BY <2>2, DrivingFacts
  <2> HIDE DEF chosen
  <2> QED
    BY <2>1, <2>2, <2>3, DrivesApart
<1>3. ASSUME NEW i \in Driving(n)
      PROVE  After(ib[n][i][1]) \in Expect
  BY Drive
<1>4. lo \in [Nodes -> [Ports -> Expect]]
  BY DEF Links
<1> HIDE DEF chosen
<1>5. row \in [Ports -> Expect]
  BY <1>1, <1>3, <1>4
<1>6. \A i \in Driving(n) : row[Crossbar(n)[i]] = After(ib[n][i][1])
  BY <1>2
<1>7. \A q \in Ports : Inputs(n, q) = {} => row[q] = lo[n][q]
  OBVIOUS
<1> HIDE DEF row
<1>8. hi \in Links
  BY <1>4, <1>5 DEF Links
<1>9. hi[n] = row /\ \A m \in Nodes : m # n => hi[m] = lo[m]
  OBVIOUS
<1> HIDE DEF hi
<1> QED
  BY <1>6, <1>7, <1>8, <1>9 DEF Moves

LEMMA RunSwitched ==
    ASSUME TypeOK, NEW lo \in Links, NEW n \in Nodes, NodeInv(lo, n), RunRouter(n),
           NEW hi \in Links, Moves(lo, hi, n)
    PROVE  Switched(hi, n, sw[n], fts[n])'
<1>1. Switched(lo, n, Crossbar(n), Counts(n))
  BY Control
<1>2. \A i \in Ports :
          /\ fts'[n][i] = IF i \in Driving(n) THEN Left(n, i) ELSE Counts(n)[i]
          /\ sw'[n][i] = IF i \in Driving(n) /\ Left(n, i) = 0 THEN FREE ELSE Crossbar(n)[i]
  BY RunAt
<1>3. \A i, j \in Ports : sw'[n][i] # FREE /\ sw'[n][i] = sw'[n][j] => i = j
  BY <1>1, <1>2 DEF Switched
<1>4. ASSUME NEW i \in Ports, sw'[n][i] # FREE
      PROVE  Connection(hi, n, i, sw[n][i], fts[n][i])'
  <2> DEFINE q == Crossbar(n)[i]
  <2>1. q = sw'[n][i] /\ q # FREE /\ q \in Ports
    BY <1>2, <1>4, ControlType
  <2>2. CASE i \in Driving(n)
    <3> DEFINE f == ib[n][i][1]
    <3>1. /\ Left(n, i) # 0 /\ fts'[n][i] = Left(n, i) /\ hi[n][q] = After(f)
      BY <1>2, <1>4, <2>2 DEF Moves
    <3>2. /\ After(f) # Start /\ Left(n, i) # AWAIT_ADDR
          /\ Left(n, i) = CountAt(After(f).msg, After(f).pos)
          /\ RouteOf(n, After(f).msg) = q /\ Approach(n, i, After(f).msg)
      <4>1. /\ RouteOf(n, f.msg) = q /\ Approach(n, i, f.msg)
            /\ Left(n, i) = 0 <=> After(f) = Start
            /\ After(f) # Start => /\ Left(n, i) # AWAIT_ADDR
                                   /\ Left(n, i) = CountAt(After(f).msg, After(f).pos)
                                   /\ After(f).msg = f.msg
        BY <2>2, Drive
      <4> QED
        BY <3>1, <4>1
    <3> HIDE DEF f, q
    <3> QED
      BY <2>1, <3>1, <3>2 DEF Connection
  <2>3. CASE i \notin Driving(n)
    <3>1. Connection(lo, n, i, q, Counts(n)[i])
      BY <1>1, <2>1 DEF Switched
    <3>2. fts'[n][i] = Counts(n)[i]
      BY <1>2, <2>3
    <3>3. ib'[n][i] = ib[n][i]
      BY <2>3, RunAtPort
    <3>4. hi[n][q] = lo[n][q]
      <4>1. Inputs(n, q) = {}
        <5>1. ASSUME NEW j \in Inputs(n, q) PROVE FALSE
          <6>1. j \in Driving(n) /\ Crossbar(n)[i] = Crossbar(n)[j]
            BY DEF Inputs
          <6> QED
            BY <2>3, <6>1, DrivesApart
        <5> QED
          BY <5>1
      <4> QED
        BY <2>1, <4>1 DEF Moves
    <3> HIDE DEF q
    <3> QED
      BY <2>1, <3>1, <3>2, <3>3, <3>4 DEF Connection
  <2> QED
    BY <2>2, <2>3
<1>5. ASSUME NEW q \in Ports, \A i \in Ports : sw'[n][i] # q
      PROVE  hi[n][q] = Start
  <2>1. q # FREE
    BY DEF Ports, FREE
  <2>2. CASE Inputs(n, q) = {}
    <3>1. ASSUME NEW i \in Ports PROVE Crossbar(n)[i] # q
      <4>1. CASE i \in Driving(n)
        BY <2>2, <4>1 DEF Inputs
      <4>2. CASE i \notin Driving(n)
        BY <1>2, <1>5, <4>2
      <4> QED
        BY <4>1, <4>2
    <3> QED
      BY <1>1, <2>2, <3>1 DEF Switched, Moves
  <2>3. CASE Inputs(n, q) # {}
    <3>1. PICK i \in Inputs(n, q) : TRUE
      BY <2>3
    <3>2. i \in Driving(n) /\ Crossbar(n)[i] = q /\ i \in Ports
      BY DrivingFacts DEF Inputs
    <3>3. Left(n, i) = 0
      BY <1>2, <1>5, <3>2
    <3>4. After(ib[n][i][1]) = Start
      BY <3>2, <3>3, Drive
    <3> QED
      BY <3>2, <3>4 DEF Moves
  <2> QED
    BY <2>2, <2>3
<1> QED
  BY <1>3, <1>4, <1>5 DEF Switched

\* A node's links hold after a Run of its own router.
LEMMA RunLinkedSame ==
    ASSUME TypeOK, NEW lo \in Links, NEW n \in Nodes, NodeInv(lo, n), RunRouter(n),
           NEW hi \in Links, Moves(lo, hi, n), NEW p \in Ports
    PROVE  Linked(hi, n, p)'
<1> DEFINE q == Crossbar(n)[p]
           f == ib[n][p][1]
<1>1. Upstream(hi, n, p)' = Upstream(lo, n, p)
  <2>1. Pushing(n)' = Pushing(n)
    BY DEF RunRouter, niVars, Pushing
  <2>2. p # LOCAL_PORT /\ Neighbour(n, p) \in Nodes => hi[Neighbour(n, p)] = lo[Neighbour(n, p)]
    BY NeighbourFacts DEF Moves
  <2> QED
    BY <2>1, <2>2 DEF Upstream
<1>2. /\ fts'[n][p] = IF p \in Driving(n) THEN Left(n, p) ELSE Counts(n)[p]
      /\ sw'[n][p] = IF p \in Driving(n) /\ Left(n, p) = 0 THEN FREE ELSE q
      /\ ib'[n][p] = IF p \in Driving(n) THEN Tail(ib[n][p]) ELSE ib[n][p]
  BY RunAt, RunAtPort
<1>3. \A k \in 1 .. Len(ib[n][p]) : Approach(n, p, ib[n][p][k].msg)
  BY LinkedAt
<1>4. CASE p \in Driving(n)
  <2>1. /\ q \in Ports /\ Chain(Tail(ib[n][p]), After(f), Upstream(lo, n, p))
        /\ Left(n, p) = 0 <=> After(f) = Start
        /\ After(f) # Start => Left(n, p) # AWAIT_ADDR
    BY <1>4, Drive
  <2>2. hi[n][q] = After(f)
    BY <1>4 DEF Moves
  <2>3. q # FREE
    BY <2>1 DEF Ports, FREE
  <2>4. Wanted(hi, n, p, sw'[n][p], fts'[n][p]) = After(f)
    <3> HIDE DEF q, f
    <3>1. CASE After(f) = Start
      BY <1>2, <1>4, <2>1, <3>1 DEF Wanted
    <3>2. CASE After(f) # Start
      BY <1>2, <1>4, <2>1, <2>2, <2>3, <3>2 DEF Wanted
    <3> QED
      BY <3>1, <3>2
  <2>5. \A k \in 1 .. Len(Tail(ib[n][p])) : Approach(n, p, Tail(ib[n][p])[k].msg)
    <3>1. ib[n][p] \in Seq(Flits) /\ ib[n][p] # << >>
      BY <1>4, DrivingFacts, BufferFacts
    <3>2. /\ Len(Tail(ib[n][p])) = Len(ib[n][p]) - 1 /\ Len(ib[n][p]) \in Nat
          /\ \A k \in 1 .. Len(Tail(ib[n][p])) : Tail(ib[n][p])[k] = ib[n][p][k + 1]
      BY <3>1, HeadTailProperties, LenProperties
    <3>3. \A k \in 1 .. Len(Tail(ib[n][p])) : k + 1 \in 1 .. Len(ib[n][p])
      BY <3>2
    <3> QED
      BY <1>3, <3>2, <3>3
  <2>6. ib'[n][p] = Tail(ib[n][p])
    BY <1>2, <1>4
  <2> HIDE DEF q, f
  <2> QED
    BY <1>1, <2>1, <2>4, <2>5, <2>6 DEF Linked, Wanted
<1>5. CASE p \notin Driving(n)
  <2>1. fts'[n][p] = Counts(n)[p] /\ sw'[n][p] = q /\ ib'[n][p] = ib[n][p]
    BY <1>2, <1>5
  <2>2. Chain(ib[n][p], Wanted(lo, n, p, q, Counts(n)[p]), Upstream(lo, n, p))
    BY Control, LinkedAt
  <2>3. Wanted(hi, n, p, q, Counts(n)[p]) = Wanted(lo, n, p, q, Counts(n)[p])
    <3>1. CASE q = FREE
      BY <3>1 DEF Wanted
    <3>2. CASE q # FREE
      <4>1. q \in Ports
        BY <3>2, ControlType
      <4>2. Inputs(n, q) = {}
        <5>1. ASSUME NEW j \in Inputs(n, q) PROVE FALSE
          <6>1. j \in Driving(n) /\ Crossbar(n)[p] = Crossbar(n)[j]
            BY DEF Inputs
          <6> QED
            BY <1>5, <6>1, DrivesApart
        <5> QED
          BY <5>1
      <4>3. hi[n][q] = lo[n][q]
        BY <4>1, <4>2 DEF Moves
      <4> QED
        BY <4>3 DEF Wanted
    <3> QED
      BY <3>1, <3>2
  <2> HIDE DEF q
  <2> QED
    BY <1>1, <1>3, <2>1, <2>2, <2>3 DEF Linked, Wanted
<1> QED
  BY <1>4, <1>5

\* What a router drives out of q extends the chain of a buffer that ends there.
LEMMA DrivenChain ==
    ASSUME TypeOK, NEW lo \in Links, NEW n \in Nodes, NodeInv(lo, n),
           NEW hi \in Links, Moves(lo, hi, n), NEW q \in Ports,
           NEW b \in Seq(Flits), NEW down, Chain(b, down, lo[n][q])
    PROVE  /\ b \o Driven(n, q) \in Seq(Flits)
           /\ Chain(b \o Driven(n, q), down, hi[n][q])
           /\ \A k \in 1 .. Len(b \o Driven(n, q)) :
                \/ k \in 1 .. Len(b) /\ (b \o Driven(n, q))[k] = b[k]
                \/ RouteOf(n, (b \o Driven(n, q))[k].msg) = q
                   /\ (b \o Driven(n, q))[k] \in Flits
           /\ b # << >> => b \o Driven(n, q) # << >> /\ (b \o Driven(n, q))[1] = b[1]
<1>1. CASE Inputs(n, q) = {} /\ Driven(n, q) = << >> /\ b \o Driven(n, q) = b
  BY <1>1 DEF Moves
<1>2. CASE \E i \in Inputs(n, q) : /\ i \in Driving(n) /\ Crossbar(n)[i] = q
                                   /\ b \o Driven(n, q) = Append(b, ib[n][i][1])
  <2>1. PICK i \in Inputs(n, q) : /\ i \in Driving(n) /\ Crossbar(n)[i] = q
                                  /\ b \o Driven(n, q) = Append(b, ib[n][i][1])
    BY <1>2
  <2> DEFINE f == ib[n][i][1]
             c == Append(b, f)
  <2>2. /\ f \in Flits /\ Fits(lo[n][q], f) /\ RouteOf(n, f.msg) = q
    BY <2>1, Drive
  <2>3. hi[n][q] = After(f)
    BY <2>1 DEF Moves
  <2> HIDE DEF f
  <2>4. Chain(c, down, After(f))
    BY <2>2, ChainPush
  <2>5. /\ c \in Seq(Flits) /\ c # << >> /\ Len(c) = Len(b) + 1 /\ Len(b) \in Nat
        /\ \A k \in 1 .. Len(b) : c[k] = b[k]
        /\ c[Len(b) + 1] = f
    BY <2>2, AppendProperties, LenProperties
  <2>6. \A k \in 1 .. Len(c) : \/ k \in 1 .. Len(b) /\ c[k] = b[k]
                               \/ RouteOf(n, c[k].msg) = q /\ c[k] \in Flits
    <3>1. ASSUME NEW k \in 1 .. Len(c), k \notin 1 .. Len(b)
          PROVE  k = Len(b) + 1
      BY <2>5, <3>1
    <3> QED
      BY <2>2, <2>5, <3>1
  <2>7. b # << >> => c[1] = b[1]
    BY <2>5, EmptySeq
  <2>8. b \o Driven(n, q) = c
    BY <2>1 DEF f
  <2> HIDE DEF c
  <2> QED
    BY <2>3, <2>4, <2>5, <2>6, <2>7, <2>8
<1> QED
  BY <1>1, <1>2, DrivenFacts

\* Nothing changes for another router but what comes out of this one.
LEMMA RunOther ==
    ASSUME TypeOK, NEW lo \in Links, NEW n \in Nodes, NodeInv(lo, n), RunRouter(n),
           NEW hi \in Links, Moves(lo, hi, n),
           NEW m \in Nodes, m # n, NodeInv(lo, m), NEW p \in Ports
    PROVE  /\ Linked(hi, m, p)'
           /\ ib[m][p] # << >> => ib'[m][p] # << >> /\ ib'[m][p][1] = ib[m][p][1]
<1>1. /\ sw'[m] = sw[m] /\ fts'[m] = fts[m] /\ hi[m] = lo[m]
  BY RunAt DEF Moves
<1>2. Wanted(hi, m, p, sw[m][p], fts[m][p]) = Wanted(lo, m, p, sw[m][p], fts[m][p])
  BY <1>1 DEF Wanted
<1>3. Pushing(m)' = Pushing(m)
  BY DEF RunRouter, niVars, Pushing
<1>4. /\ Chain(ib[m][p], Wanted(lo, m, p, sw[m][p], fts[m][p]), Upstream(lo, m, p))
      /\ \A k \in 1 .. Len(ib[m][p]) : Approach(m, p, ib[m][p][k].msg)
  BY LinkedAt
<1>5. CASE p # LOCAL_PORT /\ Neighbour(m, p) = n
  <2> DEFINE o == Opposite(p)
             b == ib[m][p] \o Driven(n, o)
  <2>1. ib'[m][p] = b
    BY <1>5, RunAtPort
  <2>2. o \in Ports /\ Upstream(lo, m, p) = lo[n][o] /\ Upstream(hi, m, p)' = hi[n][o]
    BY <1>5, OutBufferFacts DEF Upstream
  <2>3. ib[m][p] \in Seq(Flits)
    BY BufferFacts
  <2> HIDE DEF o
  <2>4. /\ Chain(b, Wanted(lo, m, p, sw[m][p], fts[m][p]), hi[n][o])
        /\ \A k \in 1 .. Len(b) : \/ k \in 1 .. Len(ib[m][p]) /\ b[k] = ib[m][p][k]
                                  \/ RouteOf(n, b[k].msg) = o
        /\ ib[m][p] # << >> => b # << >> /\ b[1] = ib[m][p][1]
    <3>1. Chain(ib[m][p], Wanted(lo, m, p, sw[m][p], fts[m][p]), lo[n][o])
      BY <1>4, <2>2
    <3>2. /\ Chain(b, Wanted(lo, m, p, sw[m][p], fts[m][p]), hi[n][o])
          /\ \A k \in 1 .. Len(b) : \/ k \in 1 .. Len(ib[m][p]) /\ b[k] = ib[m][p][k]
                                    \/ RouteOf(n, b[k].msg) = o /\ b[k] \in Flits
          /\ ib[m][p] # << >> => b # << >> /\ b[1] = ib[m][p][1]
      BY <2>2, <2>3, <3>1, DrivenChain
    <3> QED
      BY <3>2
  <2>5. \A k \in 1 .. Len(b) : Approach(m, p, b[k].msg)
    <3>1. ASSUME NEW k \in 1 .. Len(b), RouteOf(n, b[k].msg) = Opposite(p)
          PROVE  Approach(m, p, b[k].msg)
      BY <1>5, <3>1 DEF Approach
    <3> QED
      BY <1>4, <2>4, <3>1 DEF o
  <2> HIDE DEF b
  <2> QED
    BY <1>1, <1>2, <2>1, <2>2, <2>4, <2>5 DEF Linked, Wanted
<1>6. CASE p = LOCAL_PORT \/ Neighbour(m, p) # n
  <2>1. ib'[m][p] = ib[m][p]
    BY <1>6, RunAtPort
  <2>2. Upstream(hi, m, p)' = Upstream(lo, m, p)
    BY <1>3, <1>6 DEF Upstream, Moves
  <2> QED
    BY <1>1, <1>2, <1>4, <2>1, <2>2 DEF Linked, Wanted
<1> QED
  BY <1>5, <1>6

LEMMA RunSwitchedOther ==
    ASSUME TypeOK, NEW lo \in Links, NEW n \in Nodes, NodeInv(lo, n), RunRouter(n),
           NEW hi \in Links, Moves(lo, hi, n),
           NEW m \in Nodes, m # n, NodeInv(lo, m)
    PROVE  Switched(hi, m, sw[m], fts[m])'
<1>1. /\ sw'[m] = sw[m] /\ fts'[m] = fts[m] /\ hi[m] = lo[m]
  BY RunAt DEF Moves
<1>2. Switched(lo, m, sw[m], fts[m])
  BY DEF NodeInv
<1>3. ASSUME NEW i \in Ports, sw[m][i] # FREE
      PROVE  Connection(hi, m, i, sw[m][i], fts[m][i])'
  <2>1. Connection(lo, m, i, sw[m][i], fts[m][i])
    BY <1>2, <1>3 DEF Switched
  <2>2. ib[m][i] # << >> => ib'[m][i] # << >> /\ ib'[m][i][1] = ib[m][i][1]
    BY RunOther
  <2> QED
    BY <1>1, <2>1, <2>2 DEF Connection
<1> QED
  BY <1>1, <1>2, <1>3 DEF Switched

LEMMA RunCollected ==
    ASSUME TypeOK, NEW lo \in Links, NEW n \in Nodes, NodeInv(lo, n), RunRouter(n),
           NEW hi \in Links, Moves(lo, hi, n), NEW m \in Nodes, NodeInv(lo, m)
    PROVE  Collected(hi, m)'
<1>1. Collected(lo, m)
  BY DEF NodeInv
<1>2. inbox' = inbox /\ received' = received /\ Taken(m)' = Taken(m)
  BY DEF RunRouter, niVars, Taken
<1>3. CASE m # n
  <2>1. ni'[m] = ni[m] /\ hi[m] = lo[m]
    BY <1>3, RunAt DEF Moves
  <2> QED
    BY <1>1, <1>2, <2>1 DEF Collected
<1>4. CASE m = n
  <2> DEFINE b == ni[n] \o Driven(n, LOCAL_PORT)
  <2>1. ni'[n] = b
    BY RunAt
  <2>2. LOCAL_PORT \in Ports /\ ni[n] \in Seq(Flits) /\ Chain(ni[n], Taken(n), lo[n][LOCAL_PORT])
    BY <1>1, <1>4, BufferFacts DEF Ports, LOCAL_PORT, Collected
  <2>3. /\ Chain(b, Taken(n), hi[n][LOCAL_PORT])
        /\ \A k \in 1 .. Len(b) :
              \/ k \in 1 .. Len(ni[n]) /\ b[k] = ni[n][k]
              \/ RouteOf(n, b[k].msg) = LOCAL_PORT /\ b[k] \in Flits
    BY <2>2, DrivenChain
  <2>4. \A k \in 1 .. Len(b) : b[k].msg.dst = n
    <3>1. ASSUME NEW k \in 1 .. Len(b), RouteOf(n, b[k].msg) = LOCAL_PORT, b[k] \in Flits
          PROVE  b[k].msg.dst = n
      BY <3>1, FlitFacts, RouteFacts
    <3>2. \A k \in 1 .. Len(ni[n]) : ni[n][k].msg.dst = n
      BY <1>1, <1>4 DEF Collected
    <3> QED
      BY <2>3, <3>1, <3>2
  <2> HIDE DEF b
  <2> QED
    BY <1>1, <1>2, <1>4, <2>1, <2>3, <2>4 DEF Collected
<1> QED
  BY <1>3, <1>4

LEMMA RunKeeps ==
    ASSUME TypeOK, NEW lo \in Links, MeshInv(lo), NEW n \in Nodes, RunRouter(n)
    PROVE  \E hi \in Links : MeshInv(hi)'
<1>1. NodeInv(lo, n)
  BY DEF MeshInv
<1>2. PICK hi \in Links : Moves(lo, hi, n)
  BY <1>1, MovesExist
<1>3. ASSUME NEW m \in Nodes
      PROVE  NodeInv(hi, m)'
  <2>1. NodeInv(lo, m)
    BY DEF MeshInv
  <2>2. Switched(hi, m, sw[m], fts[m])'
    BY <1>1, <1>2, <2>1, RunSwitched, RunSwitchedOther
  <2>3. \A p \in Ports : Linked(hi, m, p)'
    BY <1>1, <1>2, <2>1, RunLinkedSame, RunOther
  <2>4. Collected(hi, m)'
    BY <1>1, <1>2, <2>1, RunCollected
  <2>5. (Pushing(m) \in Expect)'
    BY <2>1 DEF RunRouter, niVars, Pushing, NodeInv
  <2> QED
    BY <2>2, <2>3, <2>4, <2>5 DEF NodeInv
<1> QED
  BY <1>3 DEF MeshInv

-----------------------------------------------------------------------------
(***************************************************************************)
(* What the interfaces keep.                                               *)
(***************************************************************************)
LEMMA InjectFacts ==
    ASSUME TypeOK, NEW n \in Nodes, Pushing(n) \in Expect, Inject(n),
           NEW f, f = [msg |-> Message(n, nextPkt[n]), pos |-> nextPos[n]]
    PROVE  /\ f \in Flits /\ Fits(Pushing(n), f)
           /\ After(f) = Pushing(n)' /\ After(f) \in Expect
           /\ nextPkt'[n] \in Nat \ {0} /\ nextPkt'[n] <= Len(Traffic[n]) + 1
           /\ nextPos'[n] \in Nat
<1> DEFINE m == Message(n, nextPkt[n])
<1>1. /\ nextPkt[n] \in Nat \ {0} /\ nextPkt[n] <= Len(Traffic[n]) /\ nextPos[n] \in Nat
      /\ nextPkt \in [Nodes -> Nat \ {0}] /\ nextPos \in [Nodes -> Nat]
      /\ Len(Traffic[n]) \in Nat
  BY TrafficAssumption, LenProperties DEF TypeOK, Inject
<1>2. m \in Messages
  BY <1>1 DEF Messages
<1>3. m.size \in Nat /\ m # Start.msg /\ f.msg = m /\ f.pos = nextPos[n]
  BY <1>2, MessageFacts
<1>4. /\ nextPkt'[n] = IF nextPos[n] = m.size + 1 THEN nextPkt[n] + 1 ELSE nextPkt[n]
      /\ nextPos'[n] = IF nextPos[n] = m.size + 1 THEN 0 ELSE nextPos[n] + 1
  BY <1>1 DEF Inject
<1>5. f \in Flits /\ f # Start
  BY <1>1, <1>2, <1>3 DEF Flits, Start
<1>6. Pushing(n) = IF nextPos[n] = 0 THEN Start ELSE f
  BY DEF Pushing
<1>7. Fits(Pushing(n), f)
  BY <1>3, <1>6 DEF Fits
<1>8. Pushing(n)' = IF nextPos'[n] = 0 THEN Start
                    ELSE [msg |-> Message(n, nextPkt'[n]), pos |-> nextPos'[n]]
  BY DEF Pushing, Message
<1> HIDE DEF m
<1>9. After(f) = Pushing(n)'
  <2>1. CASE nextPos[n] = m.size + 1
    BY <1>3, <1>4, <1>8, <2>1 DEF After
  <2>2. CASE nextPos[n] # m.size + 1
    <3>1. /\ nextPkt'[n] = nextPkt[n] /\ nextPos'[n] = nextPos[n] + 1 /\ nextPos'[n] # 0
      BY <1>1, <1>4, <2>2
    <3> QED
      BY <1>3, <1>8, <2>2, <3>1 DEF After, m
  <2> QED
    BY <2>1, <2>2
<1>10. After(f) \in Expect
  BY <1>5, <1>7, ExpectFacts
<1> QED
  BY <1>1, <1>4, <1>5, <1>7, <1>9, <1>10

LEMMA InjectKeeps ==
    ASSUME TypeOK, NEW lo \in Links, MeshInv(lo), NEW n \in Nodes, Inject(n)
    PROVE  TypeOK' /\ MeshInv(lo)'
<1> DEFINE f == [msg |-> Message(n, nextPkt[n]), pos |-> nextPos[n]]
           b == ib[n][LOCAL_PORT]
<1>1. Pushing(n) \in Expect /\ LOCAL_PORT \in Ports
  BY DEF MeshInv, NodeInv, Ports, LOCAL_PORT
<1>2. /\ f \in Flits /\ Fits(Pushing(n), f)
      /\ After(f) = Pushing(n)' /\ After(f) \in Expect
      /\ nextPkt'[n] \in Nat \ {0} /\ nextPkt'[n] <= Len(Traffic[n]) + 1
      /\ nextPos'[n] \in Nat
  BY <1>1, InjectFacts
<1>3. /\ ib' = [ib EXCEPT ![n][LOCAL_PORT] = Append(b, f)]
      /\ Len(b) < Capacity
      /\ UNCHANGED <<ni, sw, fts, rr, ran, inbox, received>>
      /\ \A m \in Nodes : m # n => nextPkt'[m] = nextPkt[m] /\ nextPos'[m] = nextPos[m]
  BY DEF Inject, TypeOK
<1>4. b \in Seq(Flits) /\ Len(b) <= Capacity /\ Len(b) # Capacity
  BY <1>1, <1>3, BufferFacts, LenProperties, CapacityAssumption
<1>5. Append(b, f) \in Buffers
  BY <1>2, <1>4, BufferPush
<1> HIDE DEF f
<1>6. /\ ib \in [Nodes -> [Ports -> Buffers]]
      /\ ib'[n][LOCAL_PORT] = Append(b, f)
      /\ \A m \in Nodes, p \in Ports : m # n \/ p # LOCAL_PORT => ib'[m][p] = ib[m][p]
  BY <1>1, <1>3 DEF TypeOK
<1>7. TypeOK'
  <2>1. ib' \in [Nodes -> [Ports -> Buffers]]
    BY <1>1, <1>3, <1>5, <1>6
  <2>2. nextPkt' \in [Nodes -> Nat \ {0}] /\ nextPos' \in [Nodes -> Nat]
    BY <1>2 DEF Inject, TypeOK
  <2>3. \A m \in Nodes : nextPkt'[m] <= Len(Traffic[m]) + 1
    BY <1>2, <1>3 DEF TypeOK
  <2> QED
    BY <1>3, <2>1, <2>2, <2>3 DEF TypeOK
<1>8. ASSUME NEW m \in Nodes
      PROVE  NodeInv(lo, m)'
  <2>1. NodeInv(lo, m)
    BY DEF MeshInv
  <2>2. (Pushing(m) \in Expect)'
    <3>1. CASE m = n
      BY <1>2, <3>1
    <3>2. CASE m # n
      BY <1>3, <2>1, <3>2 DEF NodeInv, Pushing, Message
    <3> QED
      BY <3>1, <3>2
  <2>3. Collected(lo, m)'
    BY <1>3, <2>1 DEF NodeInv, Collected, Taken
  <2>4. ASSUME NEW p \in Ports
        PROVE  /\ Linked(lo, m, p)'
               /\ ib[m][p] # << >> => ib'[m][p] # << >> /\ ib'[m][p][1] = ib[m][p][1]
    <3>1. /\ Chain(ib[m][p], Wanted(lo, m, p, sw[m][p], fts[m][p]), Upstream(lo, m, p))
          /\ \A k \in 1 .. Len(ib[m][p]) : Approach(m, p, ib[m][p][k].msg)
      BY <2>1, LinkedAt
    <3>2. CASE m = n /\ p = LOCAL_PORT
      <4> DEFINE w == Wanted(lo, m, p, sw[m][p], fts[m][p])
                 c == Append(b, f)
      <4>1. Chain(b, w, Pushing(n))
        BY <3>1, <3>2 DEF Upstream
      <4> HIDE DEF w
      <4>2. Chain(c, w, After(f))
        BY <1>2, <1>4, <4>1, ChainPush
      <4>3. /\ c # << >> /\ Len(c) = Len(b) + 1 /\ Len(b) \in Nat
            /\ \A k \in 1 .. Len(b) : c[k] = b[k]
        BY <1>2, <1>4, AppendProperties, LenProperties
      <4>4. b # << >> => c[1] = b[1]
        BY <1>4, <4>3, EmptySeq
      <4>5. \A k \in 1 .. Len(c) : Approach(m, p, c[k].msg)
        BY <3>2 DEF Approach
      <4>6. ib'[m][p] = c /\ ib[m][p] = b
        BY <1>6, <3>2
      <4>7. Upstream(lo, m, p)' = After(f)
        BY <1>2, <3>2 DEF Upstream
      <4>8. Wanted(lo, m, p, sw[m][p], fts[m][p])' = w
        BY <1>3 DEF w, Wanted
      <4> HIDE DEF c, b
      <4> QED
        BY <4>2, <4>3, <4>4, <4>5, <4>6, <4>7, <4>8 DEF Linked
    <3>3. CASE ~ (m = n /\ p = LOCAL_PORT)
      <4>1. ib'[m][p] = ib[m][p]
        BY <1>6, <3>3
      <4>2. Upstream(lo, m, p)' = Upstream(lo, m, p)
        BY <1>3, <3>3 DEF Upstream, Pushing, Message
      <4> QED
        BY <1>3, <3>1, <4>1, <4>2 DEF Linked, Wanted
    <3> QED
      BY <3>2, <3>3
  <2>5. Switched(lo, m, sw[m], fts[m])'
    <3>1. Switched(lo, m, sw[m], fts[m])
      BY <2>1 DEF NodeInv
    <3>2. ASSUME NEW i \in Ports, sw[m][i] # FREE
          PROVE  Connection(lo, m, i, sw[m][i], fts[m][i])'
      <4>1. Connection(lo, m, i, sw[m][i], fts[m][i])
        BY <3>1, <3>2 DEF Switched
      <4> QED
        BY <1>3, <2>4, <4>1 DEF Connection
    <3> QED
      BY <1>3, <3>1, <3>2 DEF Switched
  <2> QED
    BY <2>2, <2>3, <2>4, <2>5 DEF NodeInv
<1> QED
  BY <1>7, <1>8 DEF MeshInv

\* An interface that takes a flit of a packet still has the packet from its start,
\* and no more of it than there is.
LEMMA ConsumeFacts ==
    ASSUME TypeOK, NEW lo \in Links, NEW n \in Nodes, NodeInv(lo, n), Consume(n)
    PROVE  /\ ni'[n] \in Buffers /\ inbox'[n] \in Seq(Flits) /\ received'[n] \in Seq(Messages)
           /\ Collected(lo, n)'
           /\ \/ inbox'[n] = Append(inbox[n], ni[n][1]) /\ received'[n] = received[n]
              \/ /\ ni[n][1].pos = ni[n][1].msg.size + 1 /\ inbox'[n] = << >>
                 /\ received'[n] = Append(received[n], ni[n][1].msg)
                 /\ \A k \in 1 .. Len(inbox[n]) : inbox[n][k].msg = ni[n][1].msg
<1> DEFINE b == ni[n]
           f == ni[n][1]
           s == inbox[n]
           flits == Append(s, f)
           whole == Len(flits) > 1 /\ Len(flits) = Word(flits[2]) + 2
<1>1. /\ ni \in [Nodes -> Buffers] /\ inbox \in [Nodes -> Seq(Flits)]
      /\ received \in [Nodes -> Seq(Messages)]
      /\ s \in Seq(Flits) /\ Len(s) \in Nat /\ received[n] \in Seq(Messages)
  BY LenProperties DEF TypeOK
<1>2. /\ b # << >> /\ b \in Seq(Flits) /\ Len(b) <= Capacity /\ Head(b) = f /\ f \in Flits
      /\ 1 \in 1 .. Len(b) /\ Len(b) \in Nat
  <2>1. b # << >> /\ b \in Seq(Flits) /\ Len(b) <= Capacity /\ Len(b) \in Nat
    BY BufferFacts, LenProperties DEF Consume
  <2>2. 1 \in 1 .. Len(b)
    BY <2>1, EmptySeq
  <2> QED
    BY <2>1, <2>2, ElementOfSeq
<1>3. /\ ni'[n] = Tail(b)
      /\ inbox'[n] = IF whole THEN << >> ELSE flits
      /\ received'[n] = IF whole THEN Append(received[n], Assembled(flits)) ELSE received[n]
  BY <1>1, <1>2 DEF Consume
<1>4. /\ Chain(b, Taken(n), lo[n][LOCAL_PORT])
      /\ \A k \in 1 .. Len(b) : b[k].msg.dst = n
      /\ s # << >> => /\ s[1].msg.dst = n /\ Len(s) <= s[1].msg.size + 1
                      /\ \A k \in 1 .. Len(s) : s[k] = [msg |-> s[1].msg, pos |-> k - 1]
      /\ \A k \in 1 .. Len(received[n]) : received[n][k].dst = n
  BY DEF NodeInv, Collected
<1>5. Taken(n) = IF s = << >> THEN Start ELSE After(s[Len(s)])
  BY DEF Taken
<1> HIDE DEF b, f, s
<1>6. Fits(Taken(n), f) /\ Chain(Tail(b), After(f), lo[n][LOCAL_PORT])
  BY <1>2, <1>4, ChainPop DEF f, b
<1>7. /\ flits \in Seq(Flits) /\ flits # << >> /\ Len(flits) = Len(s) + 1
      /\ \A k \in 1 .. Len(s) : flits[k] = s[k]
      /\ flits[Len(s) + 1] = f
  <2>1. s \in Seq(Flits) /\ f \in Flits
    BY <1>1, <1>2
  <2> QED
    BY <2>1, AppendProperties
<1>8. f.msg.dst = n /\ f.msg \in Messages /\ f.pos \in Nat /\ f.msg.size \in Nat
      /\ f = [msg |-> f.msg, pos |-> f.pos]
  BY <1>2, <1>4, FlitFacts DEF f
\* The flits so far are the first ones of the packet of f.
<1>9. /\ Len(s) = f.pos /\ f.pos <= f.msg.size + 1
      /\ \A k \in 1 .. Len(flits) : flits[k] = [msg |-> f.msg, pos |-> k - 1]
  <2>1. CASE s = << >>
    <3>1. Len(s) = 0
      BY <2>1
    <3>2. f.pos = 0
      BY <1>5, <1>6, <2>1 DEF Fits
    <3> QED
      BY <1>7, <1>8, <3>1, <3>2
  <2>2. CASE s # << >>
    <3> DEFINE m == s[1].msg
               l == s[Len(s)]
    <3>1. Len(s) # 0
      BY <1>1, <2>2, EmptySeq
    <3>2. Len(s) \in 1 .. Len(s) /\ 1 \in 1 .. Len(s) /\ s[1] \in Flits
      BY <1>1, <3>1, ElementOfSeq
    <3>3. l = [msg |-> m, pos |-> Len(s) - 1] /\ Len(s) <= m.size + 1
          /\ m.size \in Nat /\ m \in Messages
      BY <1>4, <2>2, <3>2, FlitFacts
    <3> HIDE DEF m, l
    <3>4. l.msg = m /\ l.pos = Len(s) - 1
      BY <3>3
    <3>5. After(l) = [msg |-> m, pos |-> Len(s)]
      BY <1>1, <3>3, <3>4 DEF After
    <3>6. After(l) # Start
      BY <1>1, <3>1, <3>5 DEF Start
    <3>7. f = [msg |-> m, pos |-> Len(s)]
      BY <1>5, <1>6, <2>2, <3>5, <3>6 DEF Fits, l
    <3>8. f.msg = m /\ f.pos = Len(s)
      BY <3>7
    <3>9. \A k \in 1 .. Len(s) : flits[k] = [msg |-> m, pos |-> k - 1]
      BY <1>4, <1>7, <2>2 DEF m
    <3>10. ASSUME NEW k \in 1 .. Len(flits)
           PROVE  flits[k] = [msg |-> m, pos |-> k - 1]
      <4>1. CASE k \in 1 .. Len(s)
        BY <3>9, <4>1
      <4>2. CASE k \notin 1 .. Len(s)
        <5>1. k = Len(s) + 1 /\ k - 1 = Len(s)
          BY <1>1, <1>7, <4>2
        <5> QED
          BY <1>7, <3>7, <5>1
      <4> QED
        BY <4>1, <4>2
    <3> QED
      BY <3>3, <3>8, <3>10
  <2> QED
    BY <2>1, <2>2
<1> HIDE DEF flits
<1>10. whole <=> f.pos = f.msg.size + 1
  <2>1. CASE Len(flits) > 1
    <3>1. 2 \in 1 .. Len(flits)
      BY <1>1, <1>7, <2>1
    <3>2. flits[2] = [msg |-> f.msg, pos |-> 1]
      BY <1>9, <3>1
    <3>3. Word(flits[2]) = f.msg.size
      BY <3>2 DEF Word
    <3> QED
      BY <1>7, <1>8, <1>9, <2>1, <3>3
  <2>2. CASE ~ (Len(flits) > 1)
    BY <1>1, <1>7, <1>8, <1>9, <2>2
  <2> QED
    BY <2>1, <2>2
<1>11. flits[1] = [msg |-> f.msg, pos |-> 0] /\ flits[1].msg = f.msg
  <2>1. 1 \in 1 .. Len(flits)
    BY <1>1, <1>7
  <2> QED
    BY <1>9, <2>1
<1>12. Assembled(flits) = f.msg
  <2>1. DOMAIN flits = 1 .. Len(flits)
    BY <1>7, LenProperties
  <2> QED
    BY <1>9, <1>11, <2>1 DEF Assembled
<1>13. ni'[n] \in Buffers /\ \A k \in 1 .. Len(Tail(b)) : Tail(b)[k].msg.dst = n
  <2>1. Tail(b) \in Buffers
    BY <1>2, BufferPop
  <2>2. /\ Len(Tail(b)) = Len(b) - 1
        /\ \A k \in 1 .. Len(Tail(b)) : Tail(b)[k] = b[k + 1]
    BY <1>2, HeadTailProperties
  <2>3. \A k \in 1 .. Len(Tail(b)) : k + 1 \in 1 .. Len(b)
    BY <1>2, <2>2
  <2> QED
    BY <1>3, <1>4, <2>1, <2>2, <2>3
<1> HIDE DEF whole
<1>14. /\ received'[n] \in Seq(Messages)
       /\ \A k \in 1 .. Len(received'[n]) : received'[n][k].dst = n
  <2>1. CASE whole
    <3> DEFINE r == Append(received[n], f.msg)
    <3>1. /\ r \in Seq(Messages) /\ Len(r) = Len(received[n]) + 1 /\ Len(received[n]) \in Nat
          /\ \A k \in 1 .. Len(received[n]) : r[k] = received[n][k]
          /\ r[Len(received[n]) + 1] = f.msg
      BY <1>1, <1>8, AppendProperties, LenProperties
    <3>2. received'[n] = r
      BY <1>3, <1>12, <2>1
    <3> HIDE DEF r
    <3>3. ASSUME NEW k \in 1 .. Len(r) PROVE r[k].dst = n
      <4>1. CASE k \in 1 .. Len(received[n])
        BY <1>4, <3>1, <4>1
      <4>2. CASE k \notin 1 .. Len(received[n])
        <5>1. k = Len(received[n]) + 1
          BY <3>1, <4>2
        <5> QED
          BY <1>8, <3>1, <5>1
      <4> QED
        BY <4>1, <4>2
    <3> QED
      BY <3>1, <3>2, <3>3
  <2>2. CASE ~ whole
    BY <1>1, <1>3, <1>4, <2>2
  <2> QED
    BY <2>1, <2>2
<1>15. /\ inbox'[n] \in Seq(Flits)
       /\ Taken(n)' = After(f)
       /\ inbox'[n] # << >> =>
             /\ inbox'[n][1].msg.dst = n /\ Len(inbox'[n]) <= inbox'[n][1].msg.size + 1
             /\ \A k \in 1 .. Len(inbox'[n]) :
                   inbox'[n][k] = [msg |-> inbox'[n][1].msg, pos |-> k - 1]
  <2>1. CASE whole
    <3>1. inbox'[n] = << >> /\ After(f) = Start
      BY <1>3, <1>10, <2>1 DEF After
    <3> QED
      BY <3>1 DEF Taken
  <2>2. CASE ~ whole
    <3>1. inbox'[n] = flits
      BY <1>3, <2>2
    <3>2. Len(flits) <= f.msg.size + 1
      BY <1>7, <1>8, <1>9, <1>10, <2>2
    <3>3. flits[Len(flits)] = f
      BY <1>7
    <3> QED
      BY <1>7, <1>8, <1>9, <1>11, <3>1, <3>2, <3>3 DEF Taken
  <2> QED
    BY <2>1, <2>2
<1>16. Collected(lo, n)'
  BY <1>3, <1>6, <1>13, <1>14, <1>15 DEF Collected
<1>17. CASE whole
  <2>1. \A k \in 1 .. Len(s) : s[k].msg = f.msg
    <3>1. \A k \in 1 .. Len(s) : k \in 1 .. Len(flits)
      BY <1>1, <1>7
    <3>2. ASSUME NEW k \in 1 .. Len(flits) PROVE flits[k].msg = f.msg
      <4>1. flits[k] = [msg |-> f.msg, pos |-> k - 1]
        BY <1>9
      <4> QED
        BY <4>1
    <3> QED
      BY <1>7, <3>1, <3>2
  <2>2. inbox'[n] = << >> /\ received'[n] = Append(received[n], f.msg)
    BY <1>3, <1>12, <1>17
  <2> QED
    BY <1>10, <1>13, <1>14, <1>15, <1>16, <1>17, <2>1, <2>2 DEF f, s, b
<1>18. CASE ~ whole
  <2>1. inbox'[n] = Append(s, f) /\ received'[n] = received[n]
    BY <1>3, <1>18 DEF flits
  <2> QED
    BY <1>13, <1>14, <1>15, <1>16, <2>1 DEF f, s, b
<1> QED
  BY <1>17, <1>18

LEMMA ConsumeKeeps ==
    ASSUME TypeOK, NEW lo \in Links, MeshInv(lo), NEW n \in Nodes, Consume(n)
    PROVE  TypeOK' /\ MeshInv(lo)'
<1>1. /\ ni'[n] \in Buffers /\ inbox'[n] \in Seq(Flits) /\ received'[n] \in Seq(Messages)
      /\ Collected(lo, n)'
  BY ConsumeFacts DEF MeshInv
<1>2. /\ UNCHANGED <<ib, sw, fts, rr, ran, nextPkt, nextPos>>
      /\ ni' = [ni EXCEPT ![n] = ni'[n]] /\ inbox' = [inbox EXCEPT ![n] = inbox'[n]]
      /\ received' = [received EXCEPT ![n] = received'[n]]
  BY DEF Consume, TypeOK
<1>3. TypeOK'
  BY <1>1, <1>2 DEF TypeOK
<1>4. ASSUME NEW m \in Nodes
      PROVE  NodeInv(lo, m)'
  <2>1. NodeInv(lo, m)
    BY DEF MeshInv
  <2>2. Collected(lo, m)'
    <3>1. CASE m = n
      BY <1>1, <3>1
    <3>2. CASE m # n
      <4>1. ni'[m] = ni[m] /\ inbox'[m] = inbox[m] /\ received'[m] = received[m]
        BY <3>2 DEF Consume, TypeOK
      <4> QED
        BY <2>1, <4>1 DEF NodeInv, Collected, Taken
    <3> QED
      BY <3>1, <3>2
  <2>3. Switched(lo, m, sw[m], fts[m])'
    BY <1>2, <2>1 DEF NodeInv, Switched, Connection
  <2>4. \A p \in Ports : Linked(lo, m, p)'
    <3>1. ASSUME NEW p \in Ports PROVE Upstream(lo, m, p)' = Upstream(lo, m, p)
      BY <1>2 DEF Upstream, Pushing, Message
    <3> QED
      BY <1>2, <2>1, <3>1 DEF NodeInv, Linked, Wanted
  <2>5. (Pushing(m) \in Expect)'
    BY <1>2, <2>1 DEF NodeInv, Pushing, Message
  <2> QED
    BY <2>2, <2>3, <2>4, <2>5 DEF NodeInv
<1> QED
  BY <1>3, <1>4 DEF MeshInv

-----------------------------------------------------------------------------
(***************************************************************************)
(* The theorems.                                                           *)
(***************************************************************************)
IInv == TypeOK /\ \E lo \in Links : MeshInv(lo)

LEMMA InitInv ==
    ASSUME Init
    PROVE  IInv
<1> DEFINE lo == [n \in Nodes |-> [q \in Ports |-> Start]]
<1>1. lo \in Links /\ \A n \in Nodes, q \in Ports : lo[n][q] = Start
  BY DEF Links, Expect
<1>2. << >> \in Buffers /\ << >> \in Seq(Flits) /\ << >> \in Seq(Messages) /\ Len(<< >>) = 0
  BY CapacityAssumption DEF Buffers
<1>3. TypeOK
  <2>1. \A n \in Nodes : 1 <= Len(Traffic[n]) + 1
    BY TrafficAssumption, LenProperties
  <2>2. 0 \in Counter /\ LOCAL_PORT \in Ports
    BY Width16 DEF LOCAL_PORT, Ports
  <2> QED
    BY <1>2, <2>1, <2>2 DEF Init, TypeOK
<1>4. ASSUME NEW n \in Nodes
      PROVE  NodeInv(lo, n)
  <2>1. /\ \A p \in Ports : ib[n][p] = << >> /\ sw[n][p] = FREE
        /\ ni[n] = << >> /\ inbox[n] = << >> /\ received[n] = << >> /\ nextPos[n] = 0
    BY DEF Init
  <2>2. Pushing(n) = Start /\ Pushing(n) \in Expect
    BY <2>1 DEF Pushing, Expect
  <2>3. Switched(lo, n, sw[n], fts[n])
    BY <1>1, <2>1 DEF Switched
  <2>4. ASSUME NEW p \in Ports
        PROVE  Linked(lo, n, p)
    <3>1. Wanted(lo, n, p, sw[n][p], fts[n][p]) = Start
      BY <2>1 DEF Wanted
    <3>2. Upstream(lo, n, p) = Start
      <4>1. p # LOCAL_PORT => Opposite(p) \in Ports
        BY NeighbourFacts
      <4> HIDE DEF lo
      <4> QED
        BY <1>1, <2>2, <4>1 DEF Upstream
    <3> HIDE DEF lo
    <3> QED
      BY <1>2, <2>1, <3>1, <3>2 DEF Linked, Chain
  <2>5. Collected(lo, n)
    <3>1. lo[n][LOCAL_PORT] = Start
      BY <1>1 DEF LOCAL_PORT, Ports
    <3> HIDE DEF lo
    <3> QED
      BY <1>2, <2>1, <3>1 DEF Collected, Chain, Taken
  <2> QED
    BY <2>2, <2>3, <2>4, <2>5 DEF NodeInv
<1> HIDE DEF lo
<1> QED
  BY <1>1, <1>3, <1>4 DEF IInv, MeshInv

LEMMA NextInv ==
    ASSUME IInv, [Next]_vars
    PROVE  IInv'
<1>1. PICK lo \in Links : MeshInv(lo)
  BY DEF IInv
<1>2. TypeOK
  BY DEF IInv
<1>3. CASE UNCHANGED vars
  <2>1. UNCHANGED <<ib, ni, sw, fts, rr, ran, nextPkt, nextPos, inbox, received>>
    BY <1>3 DEF vars, netVars, niVars
  <2>2. TypeOK'
    BY <1>2, <2>1 DEF TypeOK
  <2>3. ASSUME NEW n \in Nodes PROVE NodeInv(lo, n)'
    <3>1. NodeInv(lo, n)
      BY <1>1 DEF MeshInv
    <3>2. Pushing(n)' = Pushing(n) /\ Taken(n)' = Taken(n)
      BY <2>1 DEF Pushing, Message, Taken
    <3>3. \A p \in Ports : Linked(lo, n, p)'
      BY <2>1, <3>1, <3>2 DEF NodeInv, Linked, Wanted, Upstream
    <3>4. Switched(lo, n, sw[n], fts[n])'
      BY <2>1, <3>1 DEF NodeInv, Switched, Connection
    <3>5. Collected(lo, n)'
      BY <2>1, <3>1, <3>2 DEF NodeInv, Collected
    <3> QED
      BY <3>1, <3>2, <3>3, <3>4, <3>5 DEF NodeInv
  <2>4. MeshInv(lo)'
    BY <2>3 DEF MeshInv
  <2> QED
    BY <2>2, <2>4 DEF IInv
<1>4. ASSUME NEW n \in Nodes, RunRouter(n) PROVE IInv'
  BY <1>1, <1>2, <1>4, TypeRunRouter, RunKeeps DEF IInv
<1>5. ASSUME NEW n \in Nodes, Inject(n) PROVE IInv'
  BY <1>1, <1>2, <1>5, InjectKeeps DEF IInv
<1>6. ASSUME NEW n \in Nodes, Consume(n) PROVE IInv'
  BY <1>1, <1>2, <1>6, ConsumeKeeps DEF IInv
<1> QED
  BY <1>3, <1>4, <1>5, <1>6 DEF Next

\* On every link of every mesh the flits follow one another as their packets were
\* sent, and every router knows which packet each of its inputs is in, and where
\* in it: the inductive invariant.
THEOREM Invariance == Spec => []IInv
<1>1. Init => IInv
  BY InitInv
<1>2. IInv /\ [Next]_vars => IInv'
  BY NextInv
<1> QED
  BY <1>1, <1>2, PTL DEF Spec

\* For every mesh, capacity and traffic, no buffer grows past its capacity, no
\* counter leaves int16_t, and an interface receives nothing but packets that were
\* sent: none is torn or mixed with another (UBuffer::push, TRouter::Run).
THEOREM TypeCorrect == Spec => []TypeOK
<1>1. IInv => TypeOK
  BY DEF IInv
<1> QED
  BY <1>1, Invariance, PTL

\* Routing is by dimension order in every mesh: GetRouteXY never turns a packet
\* from a column into a row, nor back the way it came.
THEOREM TurnsAreXY == Spec => []TurnsXY
<1>1. ASSUME IInv
      PROVE  TurnsXY
  <2>1. PICK lo \in Links : MeshInv(lo)
    BY <1>1 DEF IInv
  <2>2. SUFFICES ASSUME NEW n \in Nodes, NEW i \in Ports, sw[n][i] # FREE
                 PROVE  /\ i # LOCAL_PORT => sw[n][i] # i
                        /\ i \in {NORTH, SOUTH} => sw[n][i] \in {NORTH, SOUTH, LOCAL_PORT}
    BY DEF TurnsXY
  <2>3. TypeOK /\ NodeInv(lo, n) /\ lo \in [Nodes -> [Ports -> Expect]]
    BY <1>1, <2>1 DEF IInv, MeshInv, Links
  <2>4. sw[n][i] \in Ports /\ Connection(lo, n, i, sw[n][i], fts[n][i])
    BY <2>2, <2>3 DEF NodeInv, Switched, TypeOK
  <2>5. \E f \in Flits : RouteOf(n, f.msg) = sw[n][i] /\ Approach(n, i, f.msg)
    <3>1. CASE fts[n][i] = AWAIT_ADDR
      <4>1. ib[n][i] # << >> /\ RouteOf(n, ib[n][i][1].msg) = sw[n][i]
        BY <2>4, <3>1 DEF Connection
      <4>2. ib[n][i][1] \in Flits /\ 1 \in 1 .. Len(ib[n][i])
        BY <2>3, <4>1, BufferFacts
      <4>3. Approach(n, i, ib[n][i][1].msg)
        BY <2>3, <4>2, LinkedAt
      <4> QED
        BY <4>1, <4>2, <4>3
    <3>2. CASE fts[n][i] # AWAIT_ADDR
      <4> DEFINE e == lo[n][sw[n][i]]
      <4>1. e # Start /\ RouteOf(n, e.msg) = sw[n][i] /\ Approach(n, i, e.msg)
        BY <2>4, <3>2 DEF Connection
      <4>2. e \in Expect
        BY <2>3, <2>4
      <4>3. e \in Flits
        BY <4>1, <4>2 DEF Expect
      <4> QED
        BY <4>1, <4>3
    <3> QED
      BY <3>1, <3>2
  <2>6. PICK f \in Flits : RouteOf(n, f.msg) = sw[n][i] /\ Approach(n, i, f.msg)
    BY <2>5
  <2>7. f.msg.dst \in Nodes
    BY FlitFacts
  <2> QED
    BY <2>6, <2>7, RouteTurns
<1> QED
  BY <1>1, Invariance, PTL

\* No router is ever led to a port nothing is connected to: the check for a null
\* output buffer (TRouter.cpp:139-151) never stops a mesh whose packets are
\* addressed to its nodes.
THEOREM NeverNull == Spec => [](\A n \in Nodes : ~ ReachesNull(n))
<1>1. ASSUME IInv
      PROVE  \A n \in Nodes : ~ ReachesNull(n)
  <2>1. PICK lo \in Links : MeshInv(lo)
    BY <1>1 DEF IInv
  <2>2. SUFFICES ASSUME NEW n \in Nodes, NEW i \in Ports, Crossbar(n)[i] # FREE
                 PROVE  Connected(n, Crossbar(n)[i])
    BY DEF ReachesNull
  <2>3. TypeOK /\ NodeInv(lo, n) /\ lo \in [Nodes -> [Ports -> Expect]]
    BY <1>1, <2>1 DEF IInv, MeshInv, Links
  <2> DEFINE q == Crossbar(n)[i]
  <2>4. q \in Ports /\ Connection(lo, n, i, q, Counts(n)[i])
    BY <2>1, <2>2, <2>3, Control, ControlType DEF Switched
  <2>5. \E f \in Flits : RouteOf(n, f.msg) = q
    <3>1. CASE Counts(n)[i] = AWAIT_ADDR
      <4>1. ib[n][i] # << >> /\ RouteOf(n, ib[n][i][1].msg) = q
        BY <2>4, <3>1 DEF Connection
      <4> QED
        BY <2>3, <4>1, BufferFacts
    <3>2. CASE Counts(n)[i] # AWAIT_ADDR
      <4> HIDE DEF q
      <4>1. lo[n][q] # Start /\ RouteOf(n, lo[n][q].msg) = q /\ lo[n][q] \in Expect
        BY <2>3, <2>4, <3>2 DEF Connection
      <4> QED
        BY <4>1 DEF Expect
    <3> QED
      BY <3>1, <3>2
  <2> HIDE DEF q
  <2>6. PICK f \in Flits : RouteOf(n, f.msg) = q
    BY <2>5
  <2>7. Connected(n, q)
    BY <2>6, FlitFacts, RouteStays
  <2> QED
    BY <2>7 DEF q
<1> QED
  BY <1>1, Invariance, PTL

\* What an interface has received was sent to it.
THEOREM DeliveredThere ==
    Spec => [](\A n \in Nodes : \A m \in Delivered(n) : m \in Messages /\ m.dst = n)
<1>1. ASSUME IInv, NEW n \in Nodes, NEW m \in Delivered(n)
      PROVE  m \in Messages /\ m.dst = n
  <2>1. PICK lo \in Links : MeshInv(lo)
    BY <1>1 DEF IInv
  <2>2. received[n] \in Seq(Messages) /\ \A k \in 1 .. Len(received[n]) : received[n][k].dst = n
    BY <1>1, <2>1 DEF IInv, TypeOK, MeshInv, NodeInv, Collected
  <2>3. PICK k \in DOMAIN received[n] : m = received[n][k]
    BY <1>1 DEF Delivered
  <2>4. k \in 1 .. Len(received[n])
    BY <2>2, <2>3, LenProperties
  <2> QED
    BY <2>2, <2>3, <2>4, ElementOfSeq
<1>2. IInv => \A n \in Nodes : \A m \in Delivered(n) : m \in Messages /\ m.dst = n
  BY <1>1
<1> QED
  BY <1>2, Invariance, PTL

-----------------------------------------------------------------------------
(***************************************************************************)
(* Freedom from deadlock.                                                  *)
(***************************************************************************)
\* The port an input is connected to, or will ask for.
Output(n, i) ==
    IF sw[n][i] = FREE THEN RouteXY(n[1], n[2], Word(Head(ib[n][i]))) ELSE sw[n][i]

\* Router n drives the flit at input i, at the latest when the round robin is at i.
CanMove(n, i) ==
    /\ ib[n][i] # << >>
    /\ \A j \in Ports : j # i => sw[n][j] # Output(n, i)
    /\ Len(OutBuffer(n, Output(n, i))) < Capacity

\* Interface n can go on with a packet it has begun.
CanPush(n) == nextPos[n] # 0 /\ Len(ib[n][LOCAL_PORT]) < Capacity

\* Nobody can move, but for interfaces that may begin a packet.
Still == \A n \in Nodes : /\ ni[n] = << >> /\ ~ CanPush(n)
                          /\ \A i \in Ports : ~ CanMove(n, i)

Empty == \A n \in Nodes : /\ nextPos[n] = 0 /\ inbox[n] = << >>
                          /\ \A i \in Ports : ib[n][i] = << >> /\ sw[n][i] = FREE

\* The distance of two nodes.
Gap(x, y) == IF x <= y THEN y - x ELSE x - y
Dist(n, d) == Gap(n[1], d[1]) + Gap(n[2], d[2])

\* An input that waits for the rest of a packet.
Hungry(lo) == {w \in Nodes \X Ports : ib[w[1]][w[2]] = << >> /\ Upstream(lo, w[1], w[2]) # Start}

\* How near to its destination the packet is that an input waits for.
Near(lo, n, p) == 40 - Dist(n, Upstream(lo, n, p).msg.dst)

\* A flit at an input waits for none but flits at inputs of a lower level.
Level(n, p) ==
    CASE p = LOCAL_PORT -> 32
      [] p = WEST  -> 31 - n[1]
      [] p = EAST  -> 16 + n[1]
      [] p = SOUTH -> 15 - n[2]
      [] p = NORTH -> n[2]

LEMMA Smallest ==
    ASSUME NEW T \in SUBSET Nat, T # {}
    PROVE  \E x \in T : \A y \in T : x <= y
<1> DEFINE Less == {p \in Nat \X Nat : p[1] < p[2]}
<1>1. IsWellFoundedOn(Less, Nat)
  <2>1. Less = OpToRel(<, Nat)
    BY DEF OpToRel
  <2> QED
    BY <2>1, NatLessThanWellFounded
<1> HIDE DEF Less
<1>2. PICK x \in T : \A y \in T : ~ (<<y, x>> \in Less)
  BY <1>1, WFMin
<1>3. ASSUME NEW y \in T
      PROVE  x <= y
  <2>1. x \in Nat /\ y \in Nat
    OBVIOUS
  <2>2. ~ (<<y, x>> \in Less)
    BY <1>2
  <2>3. ~ (y < x)
    BY <2>1, <2>2 DEF Less
  <2> QED
    BY <2>1, <2>3
<1> QED
  BY <1>3

LEMMA LevelFacts ==
    ASSUME NEW n \in Nodes, NEW p \in Ports
    PROVE  Level(n, p) \in Nat
<1>1. n[1] \in 0 .. 15 /\ n[2] \in 0 .. 15
  BY NodeFacts
<1> QED
  BY <1>1 DEF Level, Ports, LOCAL_PORT, NORTH, WEST, SOUTH, EAST

\* Turns lead to lower levels only: that is what dimension order is for.
LEMMA LevelDrops ==
    ASSUME NEW n \in Nodes, NEW i \in Ports, NEW q \in Ports, q # LOCAL_PORT,
           Neighbour(n, q) \in Nodes, i # LOCAL_PORT => q # i,
           i \in {NORTH, SOUTH} => q \in {NORTH, SOUTH, LOCAL_PORT}
    PROVE  Level(Neighbour(n, q), Opposite(q)) < Level(n, i)
<1>1. n[1] \in 0 .. 15 /\ n[2] \in 0 .. 15
  BY NodeFacts
<1>2. Neighbour(n, q)[1] \in 0 .. 15 /\ Neighbour(n, q)[2] \in 0 .. 15
  BY NodeFacts
<1> USE DEF Level, Neighbour, Opposite, Ports, LOCAL_PORT, NORTH, WEST, SOUTH, EAST
<1>3. CASE q = NORTH
  BY <1>1, <1>2, <1>3
<1>4. CASE q = SOUTH
  BY <1>1, <1>2, <1>4
<1>5. CASE q = WEST
  BY <1>1, <1>2, <1>5
<1>6. CASE q = EAST
  BY <1>1, <1>2, <1>6
<1> QED
  BY <1>3, <1>4, <1>5, <1>6

\* A hop brings a packet nearer to its destination.
LEMMA HopNearer ==
    ASSUME NEW n \in Nodes, NEW m, m.dst \in Nodes,
           NEW q, q = RouteOf(n, m), q # LOCAL_PORT
    PROVE  Dist(n, m.dst) = Dist(Neighbour(n, q), m.dst) + 1
<1>1. n[1] \in Int /\ n[2] \in Int /\ m.dst[1] \in Int /\ m.dst[2] \in Int
  BY NodeFacts
<1> QED
  BY <1>1, RouteFacts DEF Dist, Gap, Neighbour, LOCAL_PORT, NORTH, WEST, SOUTH, EAST

\* What an input is connected to, if it is connected and its buffer is empty.
LEMMA EmptyInput ==
    ASSUME TypeOK, NEW lo \in Links, NEW n \in Nodes, NodeInv(lo, n), NEW i \in Ports,
           sw[n][i] # FREE, ib[n][i] = << >>
    PROVE  /\ sw[n][i] \in Ports /\ lo[n][sw[n][i]] # Start
           /\ Upstream(lo, n, i) = lo[n][sw[n][i]]
           /\ RouteOf(n, lo[n][sw[n][i]].msg) = sw[n][i]
<1>1. Connection(lo, n, i, sw[n][i], fts[n][i])
  BY DEF NodeInv, Switched
<1>2. /\ fts[n][i] # AWAIT_ADDR /\ lo[n][sw[n][i]] # Start
      /\ RouteOf(n, lo[n][sw[n][i]].msg) = sw[n][i]
  BY <1>1 DEF Connection
<1>3. Wanted(lo, n, i, sw[n][i], fts[n][i]) = lo[n][sw[n][i]]
  BY <1>2 DEF Wanted
<1>4. Upstream(lo, n, i) = lo[n][sw[n][i]]
  BY <1>3, LinkedAt DEF Chain
<1> QED
  BY <1>2, <1>4 DEF TypeOK

LEMMA UpstreamType ==
    ASSUME NEW lo \in Links, MeshInv(lo), NEW n \in Nodes, NEW p \in Ports
    PROVE  /\ Upstream(lo, n, p) \in Expect
           /\ Upstream(lo, n, p) # Start => Upstream(lo, n, p).msg.dst \in Nodes
<1>1. Upstream(lo, n, p) \in Expect
  BY NeighbourFacts DEF Upstream, Links, MeshInv, NodeInv, Expect
<1> QED
  BY <1>1, FlitFacts DEF Expect

LEMMA NearFacts ==
    ASSUME NEW lo \in Links, MeshInv(lo), NEW n \in Nodes, NEW p \in Ports,
           Upstream(lo, n, p) # Start
    PROVE  Near(lo, n, p) \in Nat
<1> DEFINE d == Upstream(lo, n, p).msg.dst
<1>1. n[1] \in 0 .. 15 /\ n[2] \in 0 .. 15 /\ d[1] \in 0 .. 15 /\ d[2] \in 0 .. 15
  BY UpstreamType, NodeFacts
<1> HIDE DEF d
<1>2. Near(lo, n, p) = 40 - (Gap(n[1], d[1]) + Gap(n[2], d[2]))
  BY DEF Near, Dist, d
<1> QED
  BY <1>1, <1>2 DEF Gap

\* Who is to feed a hungry input is hungry too, one hop further from the end.
LEMMA HungerSpreads ==
    ASSUME TypeOK, Still, NEW lo \in Links, MeshInv(lo), NEW n \in Nodes, NEW p \in Ports,
           ib[n][p] = << >>, Upstream(lo, n, p) # Start
    PROVE  \E m \in Nodes, i \in Ports :
              /\ ib[m][i] = << >> /\ Upstream(lo, m, i) # Start
              /\ Near(lo, m, i) = Near(lo, n, p) - 1
<1>1. p # LOCAL_PORT /\ Neighbour(n, p) \in Nodes
  <2>1. ASSUME p = LOCAL_PORT
        PROVE  FALSE
    <3>1. nextPos[n] # 0
      BY <2>1 DEF Upstream, Pushing
    <3>2. Len(ib[n][LOCAL_PORT]) < Capacity
      BY <2>1, CapacityAssumption
    <3> QED
      BY <3>1, <3>2 DEF Still, CanPush
  <2> QED
    BY <2>1 DEF Upstream
<1> DEFINE m == Neighbour(n, p)
           q == Opposite(p)
           e == Upstream(lo, n, p)
<1>2. /\ m \in Nodes /\ q \in Ports /\ q # LOCAL_PORT /\ Neighbour(m, q) = n
      /\ OutBuffer(m, q) = ib[n][p] /\ e = lo[m][q]
  BY <1>1, NeighbourFacts, OutBufferFacts DEF Upstream
<1> HIDE DEF m, q, e
<1>3. NodeInv(lo, m) /\ Switched(lo, m, sw[m], fts[m]) /\ e # Start
  BY <1>2 DEF MeshInv, NodeInv, e
<1>4. PICK i \in Ports : sw[m][i] = q
  BY <1>2, <1>3 DEF Switched
<1>5. q # FREE
  BY <1>2 DEF Ports, FREE
<1>6. ib[m][i] = << >>
  <2> SUFFICES ASSUME ib[m][i] # << >> PROVE FALSE
    OBVIOUS
  <2>1. Output(m, i) = q
    BY <1>4, <1>5 DEF Output
  <2>2. \A j \in Ports : j # i => sw[m][j] # q
    BY <1>3, <1>4, <1>5 DEF Switched
  <2>3. Len(OutBuffer(m, q)) < Capacity
    BY <1>2, CapacityAssumption
  <2> QED
    BY <1>2, <2>1, <2>2, <2>3 DEF Still, CanMove
<1>7. Upstream(lo, m, i) = e /\ RouteOf(m, e.msg) = q
  BY <1>2, <1>3, <1>4, <1>5, <1>6, EmptyInput
<1>8. Near(lo, m, i) = Near(lo, n, p) - 1
  <2>1. e.msg.dst \in Nodes
    BY <1>3, UpstreamType DEF e
  <2>2. Dist(m, e.msg.dst) = Dist(n, e.msg.dst) + 1
    BY <1>2, <1>7, <2>1, HopNearer
  <2>3. Near(lo, m, i) = 40 - Dist(m, e.msg.dst) /\ Near(lo, n, p) = 40 - Dist(n, e.msg.dst)
    BY <1>7 DEF Near, e
  <2>4. Dist(n, e.msg.dst) \in Int
    <3>1. n[1] \in Int /\ n[2] \in Int /\ e.msg.dst[1] \in Int /\ e.msg.dst[2] \in Int
      BY <2>1, NodeFacts
    <3> QED
      BY <3>1 DEF Dist, Gap
  <2> QED
    BY <2>2, <2>3, <2>4
<1> QED
  BY <1>2, <1>3, <1>6, <1>7, <1>8

\* As no packet is further than its source, nobody is hungry in a mesh that is still.
LEMMA NobodyHungry ==
    ASSUME TypeOK, Still, NEW lo \in Links, MeshInv(lo), NEW n \in Nodes, NEW p \in Ports,
           ib[n][p] = << >>
    PROVE  Upstream(lo, n, p) = Start
<1> SUFFICES ASSUME Upstream(lo, n, p) # Start PROVE FALSE
  OBVIOUS
<1> DEFINE T == {Near(lo, w[1], w[2]) : w \in Hungry(lo)}
<1>1. <<n, p>> \in Hungry(lo)
  BY DEF Hungry
<1>2. ASSUME NEW w \in Hungry(lo)
      PROVE  /\ w[1] \in Nodes /\ w[2] \in Ports
             /\ ib[w[1]][w[2]] = << >> /\ Upstream(lo, w[1], w[2]) # Start
             /\ Near(lo, w[1], w[2]) \in Nat
  <2>1. /\ w[1] \in Nodes /\ w[2] \in Ports
        /\ ib[w[1]][w[2]] = << >> /\ Upstream(lo, w[1], w[2]) # Start
    BY DEF Hungry
  <2> QED
    BY <2>1, NearFacts
<1>3. T \in SUBSET Nat /\ T # {}
  BY <1>1, <1>2
<1>4. PICK x \in T : \A y \in T : x <= y
  BY <1>3, Smallest
<1>5. PICK w \in Hungry(lo) : x = Near(lo, w[1], w[2])
  BY <1>4
<1>6. PICK m \in Nodes, i \in Ports :
          /\ ib[m][i] = << >> /\ Upstream(lo, m, i) # Start
          /\ Near(lo, m, i) = Near(lo, w[1], w[2]) - 1
  BY <1>2, HungerSpreads
<1>7. <<m, i>> \in Hungry(lo)
  BY <1>6 DEF Hungry
<1>8. Near(lo, m, i) \in T
  BY <1>7
<1>9. x <= x - 1 /\ x \in Nat
  BY <1>2, <1>4, <1>5, <1>6, <1>8
<1> QED
  BY <1>9

\* A flit at the head of an input goes where its packet is routed.
LEMMA OutputFacts ==
    ASSUME TypeOK, NEW lo \in Links, MeshInv(lo), NEW n \in Nodes, NEW i \in Ports,
           ib[n][i] # << >>
    PROVE  /\ ib[n][i][1].msg.dst \in Nodes /\ Output(n, i) = RouteOf(n, ib[n][i][1].msg)
           /\ Approach(n, i, ib[n][i][1].msg) /\ Output(n, i) \in Ports
<1> DEFINE f == ib[n][i][1]
<1>1. NodeInv(lo, n)
  BY DEF MeshInv
<1>2. Head(ib[n][i]) = f /\ f \in Flits /\ 1 \in 1 .. Len(ib[n][i])
  BY BufferFacts
<1>3. /\ Fits(Wanted(lo, n, i, sw[n][i], fts[n][i]), f) /\ Approach(n, i, f.msg)
  BY <1>1, <1>2, LinkedAt DEF Chain
<1>4. f.msg.dst \in Nodes
  BY <1>2, FlitFacts
<1>5. CASE sw[n][i] = FREE
  <2>1. f.pos = 0
    BY <1>3, <1>5 DEF Wanted, Fits
  <2> QED
    BY <1>2, <1>3, <1>4, <1>5, <2>1, RouteFacts DEF Output, Word, RouteOf
<1>6. CASE sw[n][i] # FREE
  <2>1. Connection(lo, n, i, sw[n][i], fts[n][i])
    BY <1>1, <1>6 DEF NodeInv, Switched
  <2>2. RouteOf(n, f.msg) = sw[n][i]
    BY <1>3, <1>6, <2>1 DEF Connection, Wanted, Fits
  <2> QED
    BY <1>3, <1>4, <1>6, <2>2, RouteFacts DEF Output
<1> QED
  BY <1>5, <1>6

\* What keeps a flit from moving is a flit at a lower level.
LEMMA BlockedBelow ==
    ASSUME TypeOK, Still, NEW lo \in Links, MeshInv(lo), NEW n \in Nodes, NEW i \in Ports,
           ib[n][i] # << >>
    PROVE  \E m \in Nodes, j \in Ports : ib[m][j] # << >> /\ Level(m, j) < Level(n, i)
<1> DEFINE f == ib[n][i][1]
           q == Output(n, i)
<1>1. f.msg.dst \in Nodes /\ q = RouteOf(n, f.msg) /\ Approach(n, i, f.msg) /\ q \in Ports
  BY OutputFacts
<1>2. NodeInv(lo, n) /\ Switched(lo, n, sw[n], fts[n])
  BY DEF MeshInv, NodeInv
<1> HIDE DEF f, q
<1>3. q # FREE
  BY <1>1 DEF Ports, FREE
<1>4. ~ Len(OutBuffer(n, q)) < Capacity
  <2> SUFFICES ASSUME Len(OutBuffer(n, q)) < Capacity PROVE FALSE
    OBVIOUS
  <2>1. PICK j \in Ports : sw[n][j] = q
    BY DEF Still, CanMove, q
  <2>2. \A k \in Ports : k # j => sw[n][k] # q
    BY <1>2, <1>3, <2>1 DEF Switched
  <2>3. CASE ib[n][j] # << >>
    <3>1. Output(n, j) = q
      BY <1>3, <2>1 DEF Output
    <3> QED
      BY <2>2, <2>3, <3>1 DEF Still, CanMove
  <2>4. CASE ib[n][j] = << >>
    <3>1. Upstream(lo, n, j) # Start
      BY <1>2, <1>3, <2>1, <2>4, EmptyInput
    <3> QED
      BY <2>4, <3>1, NobodyHungry
  <2> QED
    BY <2>3, <2>4
<1>5. OutBuffer(n, q) # << >>
  BY <1>4, CapacityAssumption
<1>6. q # LOCAL_PORT
  BY <1>5 DEF OutBuffer, Still
<1>7. Neighbour(n, q) \in Nodes
  BY <1>1, <1>6, RouteStays
<1>8. ib[Neighbour(n, q)][Opposite(q)] # << >>
  BY <1>5, <1>6, <1>7 DEF OutBuffer, Connected
<1>9. Level(Neighbour(n, q), Opposite(q)) < Level(n, i)
  BY <1>1, <1>6, <1>7, RouteTurns, LevelDrops
<1>10. Opposite(q) \in Ports
  BY <1>1, <1>6, NeighbourFacts
<1> QED
  BY <1>7, <1>8, <1>9, <1>10

LEMMA BuffersEmpty ==
    ASSUME TypeOK, Still, NEW lo \in Links, MeshInv(lo), NEW n \in Nodes, NEW i \in Ports
    PROVE  ib[n][i] = << >>
<1> SUFFICES ASSUME ib[n][i] # << >> PROVE FALSE
  OBVIOUS
<1> DEFINE S == {w \in Nodes \X Ports : ib[w[1]][w[2]] # << >>}
           T == {Level(w[1], w[2]) : w \in S}
<1>1. <<n, i>> \in S /\ \A w \in S : w[1] \in Nodes /\ w[2] \in Ports /\ ib[w[1]][w[2]] # << >>
  OBVIOUS
<1> HIDE DEF S
<1>2. T \in SUBSET Nat /\ T # {}
  BY <1>1, LevelFacts
<1>3. PICK x \in T : \A y \in T : x <= y
  BY <1>2, Smallest
<1>4. PICK w \in S : x = Level(w[1], w[2])
  BY <1>3
<1>5. PICK m \in Nodes, j \in Ports : ib[m][j] # << >> /\ Level(m, j) < Level(w[1], w[2])
  BY <1>1, BlockedBelow
<1>6. <<m, j>> \in S
  BY <1>5 DEF S
<1>7. Level(m, j) \in T
  BY <1>6
<1>8. x <= Level(m, j) /\ Level(m, j) < x /\ x \in Nat /\ Level(m, j) \in Nat
  BY <1>2, <1>3, <1>4, <1>5, <1>7
<1> QED
  BY <1>8

LEMMA StillIsEmpty ==
    ASSUME IInv, Still
    PROVE  Empty
<1>1. PICK lo \in Links : MeshInv(lo)
  BY DEF IInv
<1>2. TypeOK
  BY DEF IInv
<1>3. SUFFICES ASSUME NEW n \in Nodes
               PROVE  /\ nextPos[n] = 0 /\ inbox[n] = << >>
                      /\ \A i \in Ports : ib[n][i] = << >> /\ sw[n][i] = FREE
  BY DEF Empty
<1>4. NodeInv(lo, n)
  BY <1>1 DEF MeshInv
<1>5. \A i \in Ports : ib[n][i] = << >>
  BY <1>1, <1>2, BuffersEmpty
<1>6. \A i \in Ports : sw[n][i] = FREE
  BY <1>1, <1>2, <1>4, <1>5, EmptyInput, NobodyHungry
<1>7. nextPos[n] = 0
  BY <1>5, CapacityAssumption DEF Still, CanPush, Ports, LOCAL_PORT
<1>8. inbox[n] = << >>
  <2> SUFFICES ASSUME inbox[n] # << >> PROVE FALSE
    OBVIOUS
  <2> DEFINE s == inbox[n]
             f == s[Len(s)]
  <2>1. lo[n][LOCAL_PORT] = Start
    BY <1>4, <1>6 DEF NodeInv, Switched, FREE, Ports, LOCAL_PORT
  <2>2. Collected(lo, n) /\ ni[n] = << >>
    BY <1>4 DEF NodeInv, Still
  <2>3. After(f) = Start
    BY <2>1, <2>2 DEF Collected, Chain, Taken
  <2>4. s \in Seq(Flits) /\ Len(s) \in Nat /\ Len(s) # 0
    BY <1>2, EmptySeq, LenProperties DEF TypeOK
  <2>5. s[1] \in Flits /\ s[1].msg.size \in Nat
    BY <2>4, ElementOfSeq, FlitFacts
  <2>6. f = [msg |-> s[1].msg, pos |-> Len(s) - 1] /\ Len(s) <= s[1].msg.size + 1
    BY <2>2, <2>4 DEF Collected
  <2> HIDE DEF s, f
  <2>7. f.msg = s[1].msg /\ f.pos = Len(s) - 1
    BY <2>6
  <2>8. After(f) = [msg |-> f.msg, pos |-> f.pos + 1] /\ f.pos + 1 # 0
    BY <2>4, <2>5, <2>6, <2>7 DEF After
  <2> QED
    BY <2>3, <2>4, <2>7, <2>8 DEF Start
<1> QED
  BY <1>5, <1>6, <1>7, <1>8

\* No deadlock, in a mesh of any size with buffers of any capacity: routers,
\* interfaces that push the rest of a packet and interfaces that take flits never
\* all wait for one another.  When none of them can move, nothing is under way.
THEOREM NoDeadlock == Spec => [](Still => Empty)
<1>1. IInv => (Still => Empty)
  BY StillIsEmpty
<1> QED
  BY <1>1, Invariance, PTL
=============================================================================

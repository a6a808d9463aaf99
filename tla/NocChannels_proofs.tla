------------------------- MODULE NocChannels_proofs -------------------------
(***************************************************************************)
(* The mesh implements the channels of packets, for every size of it.      *)
(*                                                                         *)
(* Packets of one node to another all take the same route, and no flit     *)
(* passes one that is in front of it.  A flit is in a slot of a node: an   *)
(* input buffer of the router, the buffer of the interface, or the inbox.  *)
(***************************************************************************)
EXTENDS Noc_proofs

NI    == 5
INBOX == 6
Slots == 0 .. 6

Held(n, a) == IF a \in Ports THEN ib[n][a] ELSE IF a = NI THEN ni[n] ELSE inbox[n]

\* A flit is held in place k of slot a of n.
At(n, a, k) == n \in Nodes /\ a \in Slots /\ k \in 1 .. Len(Held(n, a))

\* How far a slot is from the inbox of d.
Rank(n, a, d) ==
    IF a \in Ports THEN Gap(n[1], d[1]) + Gap(n[2], d[2]) + 2
    ELSE IF a = NI THEN 1 ELSE 0

Between(x, lo, hi) == (lo <= x /\ x <= hi) \/ (hi <= x /\ x <= lo)

\* The nodes a packet passes: along the row of its source, then the column of
\* its destination.
OnRoute(n, m) ==
    \/ n[2] = m.src[2] /\ Between(n[1], m.src[1], m.dst[1])
    \/ n[1] = m.dst[1] /\ Between(n[2], m.src[2], m.dst[2])

\* The slots it passes.
Passes(n, a, m) ==
    IF a = LOCAL_PORT THEN n = m.src
    ELSE IF a \in Ports
    THEN OnRoute(Neighbour(n, a), m) /\ Approach(n, a, m)
    ELSE n = m.dst

Ahead(n, a, k, m, b, l, d) ==
    Rank(n, a, d) < Rank(m, b, d) \/ (n = m /\ a = b /\ k < l)

SamePair(f, g) == f.msg.src = g.msg.src /\ f.msg.dst = g.msg.dst
Before(f, g) == f.msg.num < g.msg.num \/ (f.msg.num = g.msg.num /\ f.pos < g.pos)

\* Of two flits of the same channel the one that was sent first is in front.
InOrder(n, a, k, m, b, l) ==
    LET f == Held(n, a)[k]
        g == Held(m, b)[l]
    IN  SamePair(f, g) =>
            \/ n = m /\ a = b /\ k = l
            \/ Before(f, g) /\ Ahead(n, a, k, m, b, l, f.msg.dst)
            \/ Before(g, f) /\ Ahead(m, b, l, n, a, k, f.msg.dst)

\* The flit at pos of packet num of s has left its node.
Gone(s, num, pos) == num < nextPkt[s] \/ (num = nextPkt[s] /\ pos < nextPos[s])

Routed ==
    \A n, a, k : At(n, a, k) =>
        LET f == Held(n, a)[k]
        IN  /\ Passes(n, a, f.msg) /\ f.pos <= f.msg.size + 1
            /\ Gone(f.msg.src, f.msg.num, f.pos)
            /\ \A m \in Arrived : m.src = f.msg.src /\ m.dst = f.msg.dst => m.num < f.msg.num

Ordered ==
    \A n, a, k, m, b, l : At(n, a, k) /\ At(m, b, l) => InOrder(n, a, k, m, b, l)

\* A flit that has left is held somewhere until its packet arrives.
NoneLost ==
    \A m \in Messages, pos \in Nat :
        pos <= m.size + 1 /\ Gone(m.src, m.num, pos) =>
            \/ m \in Arrived
            \/ \E n, a, k : At(n, a, k) /\ Held(n, a)[k] = [msg |-> m, pos |-> pos]

SentBefore == \A m \in Arrived : m.num < nextPkt[m.src]

OrderInv == Routed /\ Ordered /\ NoneLost /\ SentBefore

-----------------------------------------------------------------------------
(***************************************************************************)
(* Routes.                                                                 *)
(***************************************************************************)
LEMMA MessageIdentity ==
    ASSUME NEW m \in Messages
    PROVE  /\ m.src \in Nodes /\ m.dst \in Nodes /\ m.size \in Nat
           /\ m.num \in 1 .. Len(Traffic[m.src]) /\ m.num \in Nat
           /\ m = Message(m.src, m.num)
<1>1. PICK n \in Nodes : m \in {Message(n, k) : k \in 1 .. Len(Traffic[n])}
  BY DEF Messages
<1>2. PICK k \in 1 .. Len(Traffic[n]) : m = Message(n, k)
  BY <1>1
<1>3. m.src = n /\ m.num = k
  BY <1>2 DEF Message
<1>4. Len(Traffic[n]) \in Nat
  BY TrafficAssumption, LenProperties
<1> QED
  BY <1>2, <1>3, <1>4, MessageFacts

LEMMA RankFacts ==
    ASSUME NEW n \in Nodes, NEW d \in Nodes, NEW a \in Slots
    PROVE  /\ Dist(n, d) \in Nat /\ Rank(n, a, d) \in Nat
           /\ a \in Ports => Rank(n, a, d) = Dist(n, d) + 2
           /\ a \notin Ports => a \in {NI, INBOX}
           /\ Rank(n, NI, d) = 1 /\ Rank(n, INBOX, d) = 0
           /\ Dist(n, n) = 0
  BY NodeFacts DEF Dist, Gap, Rank, Slots, Ports, NI, INBOX

\* One hop along the route.
LEMMA RouteStep ==
    ASSUME NEW n \in Nodes, NEW m \in Messages, OnRoute(n, m),
           NEW q, q = RouteOf(n, m), q # LOCAL_PORT
    PROVE  /\ Neighbour(n, q) \in Nodes /\ OnRoute(Neighbour(n, q), m)
           /\ Dist(Neighbour(n, q), m.dst) = Dist(n, m.dst) - 1
<1>1. m.src \in Nodes /\ m.dst \in Nodes
  BY MessageIdentity
<1>2. Neighbour(n, q) \in Nodes
  BY <1>1, RouteStays
<1>3. /\ n = <<n[1], n[2]>> /\ n[1] \in Int /\ n[2] \in Int
      /\ m.src[1] \in Int /\ m.src[2] \in Int /\ m.dst[1] \in Int /\ m.dst[2] \in Int
  BY <1>1, NodeFacts
<1>4. q = IF n[1] = m.dst[1]
          THEN IF n[2] = m.dst[2] THEN LOCAL_PORT
               ELSE IF n[2] > m.dst[2] THEN SOUTH ELSE NORTH
          ELSE IF n[1] > m.dst[1] THEN WEST ELSE EAST
  BY <1>1, RouteFacts
<1> USE DEF Neighbour, OnRoute, Between, Dist, Gap, LOCAL_PORT, NORTH, WEST, SOUTH, EAST
<1>5. CASE n[1] = m.dst[1] /\ n[2] > m.dst[2]
  BY <1>2, <1>3, <1>4, <1>5
<1>6. CASE n[1] = m.dst[1] /\ n[2] < m.dst[2]
  BY <1>2, <1>3, <1>4, <1>6
<1>7. CASE n[1] > m.dst[1]
  BY <1>2, <1>3, <1>4, <1>7
<1>8. CASE n[1] < m.dst[1]
  BY <1>2, <1>3, <1>4, <1>8
<1>9. \/ n[1] = m.dst[1] /\ n[2] > m.dst[2]
      \/ n[1] = m.dst[1] /\ n[2] < m.dst[2]
      \/ n[1] > m.dst[1]
      \/ n[1] < m.dst[1]
  <2> HIDE DEF Neighbour, OnRoute, Between, Dist, Gap, NORTH, WEST, SOUTH, EAST
  <2> QED
    BY <1>3, <1>4
<1> QED
  BY <1>5, <1>6, <1>7, <1>8, <1>9

LEMMA GapFacts ==
    ASSUME NEW x \in Int, NEW y \in Int, NEW lo \in Int, NEW hi \in Int,
           Between(x, lo, hi), Between(y, lo, hi)
    PROVE  /\ Gap(x, hi) \in Nat /\ Gap(x, hi) <= Gap(lo, hi)
           /\ Gap(x, hi) = 0 => x = hi
           /\ Gap(x, hi) = Gap(y, hi) => x = y
           /\ Gap(lo, hi) \in Nat /\ Gap(hi, hi) = 0
           /\ Between(lo, lo, hi)
  BY DEF Between, Gap

LEMMA GapNat ==
    \A x, y \in Int : Gap(x, y) \in Nat
  BY DEF Gap

\* No two nodes of a route are as far from its end.
LEMMA RouteUnique ==
    ASSUME NEW m \in Messages, NEW n \in Nodes, NEW o \in Nodes,
           OnRoute(n, m), OnRoute(o, m), Dist(n, m.dst) = Dist(o, m.dst)
    PROVE  n = o
<1>1. /\ n = <<n[1], n[2]>> /\ n[1] \in Int /\ n[2] \in Int
      /\ o = <<o[1], o[2]>> /\ o[1] \in Int /\ o[2] \in Int
      /\ m.src[1] \in Int /\ m.src[2] \in Int /\ m.dst[1] \in Int /\ m.dst[2] \in Int
  BY MessageIdentity, NodeFacts
<1> DEFINE row(x) == x[2] = m.src[2] /\ Between(x[1], m.src[1], m.dst[1])
           column(x) == x[1] = m.dst[1] /\ Between(x[2], m.src[2], m.dst[2])
<1>2. ASSUME row(n), row(o) PROVE n[1] = o[1] /\ n[2] = o[2]
  <2>1. Gap(n[1], m.dst[1]) \in Nat /\ Gap(o[1], m.dst[1]) \in Nat /\ Gap(n[2], m.dst[2]) \in Nat
    BY <1>1, GapNat
  <2>2. Gap(n[1], m.dst[1]) = Gap(o[1], m.dst[1])
    BY <1>2, <2>1 DEF Dist
  <2> QED
    BY <1>1, <1>2, <2>2, GapFacts
<1>3. ASSUME column(n), column(o) PROVE n[1] = o[1] /\ n[2] = o[2]
  <2>1. Gap(n[2], m.dst[2]) \in Nat /\ Gap(o[2], m.dst[2]) \in Nat /\ Gap(n[1], m.dst[1]) \in Nat
    BY <1>1, GapNat
  <2>2. Gap(n[2], m.dst[2]) = Gap(o[2], m.dst[2])
    BY <1>3, <2>1 DEF Dist
  <2> QED
    BY <1>1, <1>3, <2>2, GapFacts
<1>4. ASSUME NEW x \in Nodes, NEW y \in Nodes, row(x), column(y),
             Dist(x, m.dst) = Dist(y, m.dst)
      PROVE  x[1] = y[1] /\ x[2] = y[2]
  <2>1. x[1] \in Int /\ x[2] \in Int /\ y[1] \in Int /\ y[2] \in Int
    BY NodeFacts
  <2>2. /\ Gap(x[1], m.dst[1]) \in Nat /\ Gap(x[2], m.dst[2]) \in Nat
        /\ Gap(y[2], m.dst[2]) \in Nat /\ Gap(y[1], m.dst[1]) = 0
    BY <1>1, <1>4, <2>1 DEF Gap
  <2>3. Gap(y[2], m.dst[2]) <= Gap(x[2], m.dst[2])
    BY <1>1, <1>4, <2>1, GapFacts
  <2>4. Gap(x[1], m.dst[1]) = 0 /\ Gap(x[2], m.dst[2]) = Gap(y[2], m.dst[2])
    BY <1>4, <2>2, <2>3 DEF Dist
  <2>5. x[1] = m.dst[1]
    BY <1>1, <1>4, <2>1, <2>4, GapFacts
  <2>6. x[2] = y[2]
    <3>1. Between(x[2], m.src[2], m.dst[2])
      BY <1>1, <1>4, <2>1, GapFacts
    <3> QED
      BY <1>1, <1>4, <2>1, <2>4, <3>1, GapFacts
  <2> QED
    BY <1>4, <2>5, <2>6
<1>5. (row(n) \/ column(n)) /\ (row(o) \/ column(o))
  BY DEF OnRoute
<1> HIDE DEF row, column
<1> QED
  BY <1>1, <1>2, <1>3, <1>4, <1>5

LEMMA RouteBegins ==
    ASSUME NEW m \in Messages
    PROVE  /\ OnRoute(m.src, m)
           /\ \A n \in Nodes : OnRoute(n, m) => Dist(n, m.dst) <= Dist(m.src, m.dst)
<1>1. /\ m.src[1] \in Int /\ m.src[2] \in Int /\ m.dst[1] \in Int /\ m.dst[2] \in Int
  BY MessageIdentity, NodeFacts
<1>2. OnRoute(m.src, m)
  BY <1>1 DEF OnRoute, Between
<1>3. ASSUME NEW n \in Nodes, OnRoute(n, m)
      PROVE  Dist(n, m.dst) <= Dist(m.src, m.dst)
  <2>1. n[1] \in Int /\ n[2] \in Int
    BY NodeFacts
  <2> QED
    BY <1>1, <1>3, <2>1 DEF OnRoute, Between, Dist, Gap
<1> QED
  BY <1>2, <1>3

\* A slot that a packet passes is on its route, and one that is not where the
\* packet started has the slot it came from behind it.
LEMMA PassesFacts ==
    ASSUME NEW m \in Messages, NEW n \in Nodes, NEW a \in Slots, Passes(n, a, m)
    PROVE  /\ a \in Ports => OnRoute(n, m)
           /\ a \notin Ports => n = m.dst
           /\ a = LOCAL_PORT => n = m.src
           /\ a \in Ports /\ a # LOCAL_PORT =>
                 /\ Neighbour(n, a) \in Nodes /\ OnRoute(Neighbour(n, a), m)
                 /\ Dist(Neighbour(n, a), m.dst) = Dist(n, m.dst) + 1
           /\ Rank(n, a, m.dst) <= Rank(m.src, LOCAL_PORT, m.dst)
<1>1. m.src \in Nodes /\ m.dst \in Nodes /\ LOCAL_PORT \in Ports /\ LOCAL_PORT \in Slots
  BY MessageIdentity DEF LOCAL_PORT, Ports, Slots
<1>2. ASSUME a \in Ports, a # LOCAL_PORT
      PROVE  /\ Neighbour(n, a) \in Nodes /\ OnRoute(Neighbour(n, a), m)
             /\ Dist(Neighbour(n, a), m.dst) = Dist(n, m.dst) + 1
             /\ OnRoute(n, m)
  <2> DEFINE o == Neighbour(n, a)
  <2>1. o \in Nodes /\ OnRoute(o, m) /\ RouteOf(o, m) = Opposite(a)
    BY <1>2 DEF Passes, Approach
  <2>2. Opposite(a) # LOCAL_PORT /\ Neighbour(o, Opposite(a)) = n
    BY <1>2, NeighbourFacts
  <2> HIDE DEF o
  <2>3. OnRoute(n, m) /\ Dist(n, m.dst) = Dist(o, m.dst) - 1
    BY <2>1, <2>2, RouteStep
  <2>4. Dist(o, m.dst) \in Nat /\ Dist(n, m.dst) \in Nat
    BY <1>1, <2>1, RankFacts
  <2> QED
    BY <2>1, <2>3, <2>4 DEF o
<1>3. a = LOCAL_PORT => n = m.src
  BY DEF Passes
<1>4. a \in Ports => OnRoute(n, m)
  BY <1>2, <1>3, RouteBegins
<1>5. a \notin Ports => n = m.dst
  BY <1>1 DEF Passes
<1>6. Rank(n, a, m.dst) <= Rank(m.src, LOCAL_PORT, m.dst)
  <2>1. Rank(m.src, LOCAL_PORT, m.dst) = Dist(m.src, m.dst) + 2 /\ Dist(m.src, m.dst) \in Nat
    BY <1>1, RankFacts
  <2>2. CASE a \in Ports
    <3>1. Rank(n, a, m.dst) = Dist(n, m.dst) + 2 /\ Dist(n, m.dst) \in Nat
      BY <1>1, <2>2, RankFacts
    <3>2. Dist(n, m.dst) <= Dist(m.src, m.dst)
      BY <1>4, <2>2, RouteBegins
    <3> QED
      BY <2>1, <3>1, <3>2
  <2>3. CASE a \notin Ports
    <3>1. Rank(n, a, m.dst) \in {0, 1}
      BY <1>1, <2>3, RankFacts
    <3> QED
      BY <2>1, <3>1
  <2> QED
    BY <2>2, <2>3
<1> QED
  BY <1>2, <1>3, <1>4, <1>5, <1>6

\* Packets of one channel pass the same slots: one at each distance.
LEMMA PassesUnique ==
    ASSUME NEW m \in Messages, NEW k \in Messages, m.src = k.src, m.dst = k.dst,
           NEW n \in Nodes, NEW a \in Slots, Passes(n, a, m),
           NEW o \in Nodes, NEW b \in Slots, Passes(o, b, k),
           Rank(n, a, m.dst) = Rank(o, b, m.dst)
    PROVE  n = o /\ a = b
<1>1. m.dst \in Nodes /\ Passes(o, b, m)
  <2>1. \A x : RouteOf(x, m) = RouteOf(x, k)
    BY DEF RouteOf
  <2> QED
    BY <2>1, MessageIdentity DEF Passes, OnRoute, Approach
<1>2. /\ Dist(n, m.dst) \in Nat /\ Dist(o, m.dst) \in Nat
      /\ a \in Ports => Rank(n, a, m.dst) = Dist(n, m.dst) + 2
      /\ b \in Ports => Rank(o, b, m.dst) = Dist(o, m.dst) + 2
      /\ a \notin Ports => a \in {NI, INBOX}
      /\ b \notin Ports => b \in {NI, INBOX}
      /\ Rank(n, NI, m.dst) = 1 /\ Rank(n, INBOX, m.dst) = 0
      /\ Rank(o, NI, m.dst) = 1 /\ Rank(o, INBOX, m.dst) = 0
  BY <1>1, RankFacts
<1>3. CASE a \notin Ports \/ b \notin Ports
  <2>1. a \notin Ports /\ b \notin Ports /\ a = b
    BY <1>2, <1>3
  <2> QED
    BY <1>1, <2>1, PassesFacts
<1>4. CASE a \in Ports /\ b \in Ports
  <2>1. OnRoute(n, m) /\ OnRoute(o, m) /\ Dist(n, m.dst) = Dist(o, m.dst)
    BY <1>1, <1>2, <1>4, PassesFacts
  <2>2. n = o
    BY <2>1, RouteUnique
  <2>3. a = LOCAL_PORT => b = LOCAL_PORT
    <3>1. ASSUME a = LOCAL_PORT, b # LOCAL_PORT PROVE FALSE
      <4>1. n = m.src
        BY <3>1, PassesFacts
      <4>2. /\ Neighbour(n, b) \in Nodes /\ OnRoute(Neighbour(n, b), m)
            /\ Dist(Neighbour(n, b), m.dst) = Dist(n, m.dst) + 1
        BY <1>1, <1>4, <2>2, <3>1, PassesFacts
      <4>3. Dist(Neighbour(n, b), m.dst) <= Dist(n, m.dst)
        BY <4>1, <4>2, RouteBegins
      <4> QED
        BY <1>2, <4>2, <4>3
    <3> QED
      BY <3>1
  <2>4. b = LOCAL_PORT => a = LOCAL_PORT
    <3>1. ASSUME b = LOCAL_PORT, a # LOCAL_PORT PROVE FALSE
      <4>1. n = m.src
        BY <1>1, <2>2, <3>1, PassesFacts
      <4>2. /\ Neighbour(n, a) \in Nodes /\ OnRoute(Neighbour(n, a), m)
            /\ Dist(Neighbour(n, a), m.dst) = Dist(n, m.dst) + 1
        BY <1>4, <3>1, PassesFacts
      <4>3. Dist(Neighbour(n, a), m.dst) <= Dist(n, m.dst)
        BY <4>1, <4>2, RouteBegins
      <4> QED
        BY <1>2, <4>2, <4>3
    <3> QED
      BY <3>1
  <2>5. CASE a # LOCAL_PORT /\ b # LOCAL_PORT
    <3>1. /\ Neighbour(n, a) \in Nodes /\ OnRoute(Neighbour(n, a), m)
          /\ Dist(Neighbour(n, a), m.dst) = Dist(n, m.dst) + 1
      BY <1>4, <2>5, PassesFacts
    <3>2. /\ Neighbour(n, b) \in Nodes /\ OnRoute(Neighbour(n, b), m)
          /\ Dist(Neighbour(n, b), m.dst) = Dist(n, m.dst) + 1
      BY <1>1, <1>4, <2>2, <2>5, PassesFacts
    <3>3. Neighbour(n, a) = Neighbour(n, b)
      BY <3>1, <3>2, RouteUnique
    <3> QED
      BY <1>4, <2>2, <2>5, <3>3, NeighbourInjective
  <2> QED
    BY <2>2, <2>3, <2>4, <2>5
<1> QED
  BY <1>3, <1>4

-----------------------------------------------------------------------------
(***************************************************************************)
(* Hops.  In a step sh[m][b] flits leave slot b of m, from its front: a    *)
(* flit is kept, closer to the front, or it goes to the end of the next    *)
(* slot of its route.                                                      *)
(***************************************************************************)
Shifts == [Nodes -> [Slots -> {0, 1}]]

Forward(sh, m, b, l, n, a, k) ==
    LET f == Held(m, b)[l]
    IN  /\ l = 1 /\ sh[m][b] = 1 /\ k = Len(Held(n, a)) - sh[n][a] + 1
        /\ Passes(n, a, f.msg) /\ Rank(n, a, f.msg.dst) = Rank(m, b, f.msg.dst) - 1

\* The flit in place l of slot b of m hops to place k of slot a of n.
Hop(sh, m, b, l, n, a, k) ==
    /\ At(m, b, l) /\ n \in Nodes /\ a \in Slots /\ k \in Nat \ {0}
    /\ (n = m /\ a = b /\ k = l - sh[m][b]) \/ Forward(sh, m, b, l, n, a, k)

LEMMA PlaceFacts ==
    ASSUME TypeOK, NEW n, NEW a, NEW k, At(n, a, k)
    PROVE  /\ n \in Nodes /\ a \in Slots /\ k \in Nat \ {0} /\ k <= Len(Held(n, a))
           /\ Held(n, a) \in Seq(Flits) /\ Len(Held(n, a)) \in Nat
           /\ Held(n, a)[k] \in Flits
<1>1. n \in Nodes /\ a \in Slots /\ k \in 1 .. Len(Held(n, a))
  BY DEF At
<1>2. Held(n, a) \in Seq(Flits)
  BY <1>1, BufferFacts DEF Held, TypeOK
<1> QED
  BY <1>1, <1>2, LenProperties, ElementOfSeq

LEMMA HeldSeq ==
    ASSUME TypeOK, NEW n \in Nodes, NEW a \in Slots
    PROVE  Held(n, a) \in Seq(Flits) /\ Len(Held(n, a)) \in Nat
<1>1. Held(n, a) \in Seq(Flits)
  BY BufferFacts DEF Held, TypeOK
<1> QED
  BY <1>1, LenProperties

\* A flit hops to one place only.
LEMMA HopOnce ==
    ASSUME TypeOK, NEW sh \in Shifts, NEW m, NEW b, NEW l, NEW n, NEW a, NEW k,
           NEW o, NEW c, NEW j,
           Hop(sh, m, b, l, n, a, k), Hop(sh, m, b, l, o, c, j)
    PROVE  n = o /\ a = c /\ k = j
<1> DEFINE f == Held(m, b)[l]
<1>1. /\ m \in Nodes /\ b \in Slots /\ l \in Nat \ {0} /\ f \in Flits
      /\ n \in Nodes /\ a \in Slots /\ k \in Nat \ {0}
      /\ o \in Nodes /\ c \in Slots /\ j \in Nat \ {0}
  BY PlaceFacts DEF Hop
<1>2. sh[m][b] \in {0, 1}
  BY <1>1 DEF Shifts
<1>3. CASE Forward(sh, m, b, l, n, a, k) /\ Forward(sh, m, b, l, o, c, j)
  <2>1. Passes(n, a, f.msg) /\ Passes(o, c, f.msg) /\ f.msg \in Messages
        /\ Rank(n, a, f.msg.dst) = Rank(o, c, f.msg.dst)
    BY <1>1, <1>3, FlitFacts DEF Forward
  <2>2. n = o /\ a = c
    BY <1>1, <2>1, PassesUnique
  <2> QED
    BY <1>3, <2>2 DEF Forward
<1>4. CASE ~ (Forward(sh, m, b, l, n, a, k) /\ Forward(sh, m, b, l, o, c, j))
  <2>1. /\ (n = m /\ a = b /\ k = l - sh[m][b]) \/ (l = 1 /\ sh[m][b] = 1)
        /\ (o = m /\ c = b /\ j = l - sh[m][b]) \/ (l = 1 /\ sh[m][b] = 1)
        /\ (n = m /\ a = b /\ k = l - sh[m][b]) \/ (o = m /\ c = b /\ j = l - sh[m][b])
    BY <1>4 DEF Hop, Forward
  <2> QED
    BY <1>1, <1>2, <2>1
<1> QED
  BY <1>3, <1>4

\* And no flit of its channel passes it.
LEMMA HopAhead ==
    ASSUME TypeOK, NEW sh \in Shifts,
           NEW m, NEW b, NEW l, NEW n, NEW a, NEW k, Hop(sh, m, b, l, n, a, k),
           NEW o, NEW c, NEW j, NEW p, NEW e, NEW i, Hop(sh, o, c, j, p, e, i),
           NEW f, f = Held(m, b)[l], NEW g, g = Held(o, c)[j], SamePair(f, g),
           NEW d, d = f.msg.dst,
           Passes(m, b, f.msg), Passes(o, c, g.msg), Ahead(m, b, l, o, c, j, d)
    PROVE  Ahead(n, a, k, p, e, i, d)
<1>1. /\ m \in Nodes /\ b \in Slots /\ l \in Nat \ {0} /\ l <= Len(Held(m, b)) /\ f \in Flits
      /\ o \in Nodes /\ c \in Slots /\ j \in Nat \ {0} /\ j <= Len(Held(o, c)) /\ g \in Flits
      /\ n \in Nodes /\ a \in Slots /\ k \in Nat \ {0}
      /\ p \in Nodes /\ e \in Slots /\ i \in Nat \ {0}
      /\ Len(Held(m, b)) \in Nat /\ Len(Held(o, c)) \in Nat
  BY PlaceFacts DEF Hop
<1>2. sh[m][b] \in {0, 1} /\ sh[o][c] \in {0, 1}
  BY <1>1 DEF Shifts
<1>3. /\ f.msg \in Messages /\ g.msg \in Messages /\ d \in Nodes /\ g.msg.dst = d
      /\ f.msg.src = g.msg.src
  BY <1>1, FlitFacts DEF SamePair
<1>4. /\ Rank(m, b, d) \in Nat /\ Rank(o, c, d) \in Nat /\ Rank(n, a, d) \in Nat
      /\ Rank(p, e, d) \in Nat
  BY <1>1, <1>3, RankFacts
<1> DEFINE kept1 == n = m /\ a = b /\ k = l - sh[m][b]
           kept2 == p = o /\ e = c /\ i = j - sh[o][c]
           gone1 == l = 1 /\ Rank(n, a, d) = Rank(m, b, d) - 1
           gone2 == /\ j = 1 /\ i = Len(Held(p, e)) - sh[p][e] + 1
                    /\ Passes(p, e, g.msg) /\ Rank(p, e, d) = Rank(o, c, d) - 1
<1>5. (kept1 \/ gone1) /\ (kept2 \/ gone2)
  BY <1>3 DEF Hop, Forward
<1>6. Rank(m, b, d) < Rank(o, c, d) \/ (m = o /\ b = c /\ l < j)
  BY DEF Ahead
<1>7. CASE gone1 /\ (kept2 \/ gone2)
  <2>1. Rank(n, a, d) < Rank(p, e, d)
    BY <1>1, <1>4, <1>6, <1>7
  <2> QED
    BY <2>1 DEF Ahead
<1>8. CASE kept1 /\ kept2
  <2>1. Rank(n, a, d) < Rank(p, e, d) \/ (n = p /\ a = e /\ k < i)
    BY <1>1, <1>2, <1>6, <1>8
  <2> QED
    BY <2>1 DEF Ahead
<1>9. CASE kept1 /\ gone2
  <2>1. Rank(m, b, d) < Rank(o, c, d)
    BY <1>1, <1>6, <1>9
  <2>2. CASE Rank(n, a, d) < Rank(p, e, d)
    BY <2>2 DEF Ahead
  <2>3. CASE Rank(n, a, d) = Rank(p, e, d)
    <3>1. n = p /\ a = e
      BY <1>1, <1>3, <1>9, <2>3, PassesUnique
    <3>2. k < i
      BY <1>1, <1>2, <1>9, <3>1
    <3> QED
      BY <3>1, <3>2 DEF Ahead
  <2> QED
    BY <1>4, <1>9, <2>1, <2>2, <2>3
<1> QED
  BY <1>5, <1>7, <1>8, <1>9

\* Every flit that is somewhere after the step has hopped there.
Hopped(sh) ==
    \A n, a, k : At(n, a, k)' =>
        \E m, b, l : Hop(sh, m, b, l, n, a, k) /\ Held(n, a)'[k] = Held(m, b)[l]

LEMMA HopOrdered ==
    ASSUME TypeOK, Routed, Ordered, NEW sh \in Shifts, Hopped(sh)
    PROVE  Ordered'
<1> SUFFICES ASSUME NEW n, NEW a, NEW k, NEW o, NEW c, NEW j, At(n, a, k)', At(o, c, j)'
             PROVE  InOrder(n, a, k, o, c, j)'
  BY DEF Ordered
<1>1. PICK m1, b1, l1 : Hop(sh, m1, b1, l1, n, a, k) /\ Held(n, a)'[k] = Held(m1, b1)[l1]
  BY DEF Hopped
<1>2. PICK m2, b2, l2 : Hop(sh, m2, b2, l2, o, c, j) /\ Held(o, c)'[j] = Held(m2, b2)[l2]
  BY DEF Hopped
<1> DEFINE f == Held(m1, b1)[l1]
           g == Held(m2, b2)[l2]
           d == f.msg.dst
<1>3. At(m1, b1, l1) /\ At(m2, b2, l2)
  BY <1>1, <1>2 DEF Hop
<1>4. Passes(m1, b1, f.msg) /\ Passes(m2, b2, g.msg)
  BY <1>3 DEF Routed
<1>5. SUFFICES ASSUME SamePair(f, g)
               PROVE  \/ n = o /\ a = c /\ k = j
                      \/ Before(f, g) /\ Ahead(n, a, k, o, c, j, d)
                      \/ Before(g, f) /\ Ahead(o, c, j, n, a, k, d)
  <2> HIDE DEF f, g
  <2>1. Held(n, a)'[k] = f /\ Held(o, c)'[j] = g
    BY <1>1, <1>2 DEF f, g
  <2> QED
    BY <2>1 DEF InOrder, Before, Ahead, SamePair
<1>6. \/ m1 = m2 /\ b1 = b2 /\ l1 = l2
      \/ Before(f, g) /\ Ahead(m1, b1, l1, m2, b2, l2, d)
      \/ Before(g, f) /\ Ahead(m2, b2, l2, m1, b1, l1, d)
  BY <1>3, <1>5 DEF Ordered, InOrder
<1>7. SamePair(g, f) /\ d = g.msg.dst
  BY <1>5 DEF SamePair
<1> HIDE DEF f, g, d
<1>8. CASE m1 = m2 /\ b1 = b2 /\ l1 = l2
  BY <1>1, <1>2, <1>8, HopOnce
<1>9. CASE Before(f, g) /\ Ahead(m1, b1, l1, m2, b2, l2, d)
  <2>1. Ahead(n, a, k, o, c, j, d)
    BY <1>1, <1>2, <1>4, <1>5, <1>9, HopAhead DEF f, g, d
  <2> QED
    BY <1>9, <2>1
<1>10. CASE Before(g, f) /\ Ahead(m2, b2, l2, m1, b1, l1, d)
  <2>1. Ahead(o, c, j, n, a, k, d)
    BY <1>1, <1>2, <1>4, <1>7, <1>10, HopAhead DEF f, g
  <2> QED
    BY <1>10, <2>1
<1> QED
  BY <1>6, <1>8, <1>9, <1>10

\* What is known of every flit goes with it.
LEMMA HopRouted ==
    ASSUME TypeOK, Routed, NEW sh \in Shifts, Hopped(sh), NEW n, NEW a, NEW k, At(n, a, k)',
           NEW f, f = Held(n, a)'[k]
    PROVE  /\ Passes(n, a, f.msg) /\ f.pos <= f.msg.size + 1
           /\ Gone(f.msg.src, f.msg.num, f.pos)
           /\ \A m \in Arrived : m.src = f.msg.src /\ m.dst = f.msg.dst => m.num < f.msg.num
<1>1. PICK m, b, l : Hop(sh, m, b, l, n, a, k) /\ f = Held(m, b)[l]
  BY DEF Hopped
<1>2. At(m, b, l)
  BY <1>1 DEF Hop
<1>3. /\ Passes(m, b, f.msg) /\ f.pos <= f.msg.size + 1
      /\ Gone(f.msg.src, f.msg.num, f.pos)
      /\ \A x \in Arrived : x.src = f.msg.src /\ x.dst = f.msg.dst => x.num < f.msg.num
  BY <1>1, <1>2 DEF Routed
<1>4. Passes(n, a, f.msg)
  BY <1>1, <1>3 DEF Hop, Forward
<1> QED
  BY <1>3, <1>4

\* What is left of a slot, and what a step makes of it.
Rest(sh, n, a) == IF sh[n][a] = 1 THEN Tail(Held(n, a)) ELSE Held(n, a)

Slid(sh, n, a) ==
    \/ Held(n, a)' = Rest(sh, n, a)
    \/ \E m, b : /\ At(m, b, 1)
                 /\ Forward(sh, m, b, 1, n, a, Len(Held(n, a)) - sh[n][a] + 1)
                 /\ Held(n, a)' = Append(Rest(sh, n, a), Held(m, b)[1])

LEMMA RestFacts ==
    ASSUME TypeOK, NEW sh \in Shifts, NEW n \in Nodes, NEW a \in Slots,
           sh[n][a] = 1 => Held(n, a) # << >>
    PROVE  /\ Rest(sh, n, a) \in Seq(Flits) /\ sh[n][a] \in {0, 1}
           /\ Len(Rest(sh, n, a)) \in Nat
           /\ Len(Rest(sh, n, a)) = Len(Held(n, a)) - sh[n][a] /\ Len(Held(n, a)) \in Nat
           /\ \A k \in 1 .. Len(Rest(sh, n, a)) :
                 /\ Rest(sh, n, a)[k] = Held(n, a)[k + sh[n][a]]
                 /\ At(n, a, k + sh[n][a])
<1> DEFINE s == Held(n, a)
           x == sh[n][a]
<1>1. s \in Seq(Flits) /\ Len(s) \in Nat /\ x \in {0, 1}
  BY HeldSeq DEF Shifts
<1> HIDE DEF s, x
<1>2. CASE x = 1
  <2>1. s # << >>
    BY <1>2 DEF s, x
  <2>2. /\ Tail(s) \in Seq(Flits) /\ Len(Tail(s)) = Len(s) - 1
        /\ \A k \in 1 .. Len(s) - 1 : Tail(s)[k] = s[k + 1]
    BY <1>1, <2>1, HeadTailProperties
  <2>3. Rest(sh, n, a) = Tail(s)
    BY <1>2 DEF Rest, s, x
  <2>4. Len(s) # 0
    BY <1>1, <2>1, EmptySeq
  <2>5. \A k \in 1 .. Len(s) - 1 : k + 1 \in 1 .. Len(s)
    BY <1>1
  <2>6. \A k \in 1 .. Len(s) - 1 : At(n, a, k + 1)
    BY <2>5 DEF At, s
  <2>7. Len(s) - 1 \in Nat
    BY <1>1, <2>4
  <2> QED
    BY <1>1, <1>2, <2>2, <2>3, <2>6, <2>7 DEF s, x
<1>3. CASE x = 0
  <2>1. Rest(sh, n, a) = s
    BY <1>3 DEF Rest, s, x
  <2>2. \A k \in 1 .. Len(s) : k + x = k /\ At(n, a, k)
    BY <1>3 DEF At, s
  <2>3. Len(s) = Len(s) - x
    BY <1>1, <1>3
  <2> QED
    BY <1>1, <2>1, <2>2, <2>3 DEF s, x
<1> QED
  BY <1>1, <1>2, <1>3

LEMMA SlidHopped ==
    ASSUME TypeOK, NEW sh \in Shifts,
           \A n \in Nodes, a \in Slots : sh[n][a] = 1 => Held(n, a) # << >>,
           \A n \in Nodes, a \in Slots : Slid(sh, n, a) \/ Held(n, a)' = << >>
    PROVE  Hopped(sh)
<1> SUFFICES ASSUME NEW n, NEW a, NEW k, At(n, a, k)'
             PROVE  \E m, b, l : Hop(sh, m, b, l, n, a, k) /\ Held(n, a)'[k] = Held(m, b)[l]
  BY DEF Hopped
<1>1. n \in Nodes /\ a \in Slots /\ k \in 1 .. Len(Held(n, a)')
  BY DEF At
<1> DEFINE t == Held(n, a)'
           r == Rest(sh, n, a)
           x == sh[n][a]
<1>2. /\ r \in Seq(Flits) /\ x \in {0, 1}
      /\ Len(r) = Len(Held(n, a)) - x /\ Len(Held(n, a)) \in Nat /\ Len(r) \in Nat
      /\ \A i \in 1 .. Len(r) : r[i] = Held(n, a)[i + x] /\ At(n, a, i + x)
  BY <1>1, RestFacts
<1>3. Slid(sh, n, a) \/ Held(n, a)' = << >>
  BY <1>1
<1>4. t # << >>
  BY <1>1
<1>5. ASSUME k \in 1 .. Len(r), t[k] = r[k]
      PROVE  \E m, b, l : Hop(sh, m, b, l, n, a, k) /\ t[k] = Held(m, b)[l]
  <2>1. t[k] = Held(n, a)[k + x] /\ At(n, a, k + x)
    BY <1>2, <1>5
  <2>2. k = (k + x) - x /\ k \in Nat \ {0}
    BY <1>2, <1>5
  <2>3. Hop(sh, n, a, k + x, n, a, k)
    BY <1>1, <2>1, <2>2 DEF Hop
  <2> QED
    BY <2>1, <2>3
<1>6. CASE t = r
  BY <1>1, <1>5, <1>6
<1>7. ASSUME NEW m, NEW b, At(m, b, 1), Forward(sh, m, b, 1, n, a, Len(Held(n, a)) - x + 1),
             t = Append(r, Held(m, b)[1])
      PROVE  \E o, c, l : Hop(sh, o, c, l, n, a, k) /\ t[k] = Held(o, c)[l]
  <2>1. Held(m, b)[1] \in Flits
    BY <1>7, PlaceFacts
  <2>2. /\ Len(t) = Len(r) + 1 /\ t[Len(r) + 1] = Held(m, b)[1]
        /\ \A i \in 1 .. Len(r) : t[i] = r[i]
    BY <1>2, <1>7, <2>1, AppendProperties
  <2>3. k \in 1 .. Len(r) \/ k = Len(r) + 1
    BY <1>1, <1>2, <2>2
  <2>4. CASE k \in 1 .. Len(r)
    BY <1>5, <2>2, <2>4
  <2>5. CASE k = Len(r) + 1
    <3>1. k = Len(Held(n, a)) - x + 1 /\ k \in Nat \ {0}
      BY <1>2, <2>5
    <3>2. Hop(sh, m, b, 1, n, a, k)
      BY <1>1, <1>7, <3>1 DEF Hop
    <3> QED
      BY <2>2, <2>5, <3>2
  <2> QED
    BY <2>3, <2>4, <2>5
<1> QED
  BY <1>3, <1>4, <1>6, <1>7 DEF Slid

\* After the step f is somewhere.
Lands(f) == \E n, a, k : At(n, a, k)' /\ Held(n, a)'[k] = f

LEMMA AppendLands ==
    ASSUME NEW n \in Nodes, NEW a \in Slots, NEW r \in Seq(Flits), NEW f \in Flits,
           Held(n, a)' = Append(r, f)
    PROVE  Lands(f)
<1>1. Len(Append(r, f)) = Len(r) + 1 /\ Append(r, f)[Len(r) + 1] = f /\ Len(r) \in Nat
  BY AppendProperties, LenProperties
<1>2. Len(r) + 1 \in 1 .. Len(Append(r, f))
  BY <1>1
<1>3. At(n, a, Len(r) + 1)' /\ Held(n, a)'[Len(r) + 1] = f
  BY <1>1, <1>2 DEF At
<1> QED
  BY <1>3 DEF Lands

LEMMA RestLands ==
    ASSUME TypeOK, NEW sh \in Shifts, NEW n \in Nodes, NEW a \in Slots, NEW k,
           At(n, a, k), k > sh[n][a], Slid(sh, n, a)
    PROVE  Lands(Held(n, a)[k])
<1> DEFINE t == Held(n, a)'
           r == Rest(sh, n, a)
           x == sh[n][a]
           i == k - x
<1>1. k \in Nat \ {0} /\ k <= Len(Held(n, a)) /\ Held(n, a) # << >>
  <2>1. k \in Nat \ {0} /\ k <= Len(Held(n, a)) /\ Held(n, a) \in Seq(Flits)
    BY PlaceFacts
  <2> QED
    BY <2>1
<1>2. /\ r \in Seq(Flits) /\ x \in {0, 1} /\ Len(r) \in Nat
      /\ Len(r) = Len(Held(n, a)) - x /\ Len(Held(n, a)) \in Nat
      /\ \A j \in 1 .. Len(r) : r[j] = Held(n, a)[j + x]
  BY <1>1, RestFacts
<1>3. i \in 1 .. Len(r) /\ i + x = k
  <2>1. /\ k \in Nat /\ k <= Len(Held(n, a)) /\ k > x /\ x \in Nat /\ i = k - x
        /\ Len(r) = Len(Held(n, a)) - x /\ Len(Held(n, a)) \in Nat
    BY <1>1, <1>2
  <2> HIDE DEF r, x, i
  <2> QED
    BY <2>1
<1>4. r[i] = Held(n, a)[k]
  BY <1>2, <1>3
<1>5. i \in 1 .. Len(t) /\ t[i] = r[i]
  <2>1. CASE t = r
    BY <1>3, <2>1
  <2>2. ASSUME NEW f \in Flits, t = Append(r, f)
        PROVE  i \in 1 .. Len(t) /\ t[i] = r[i]
    <3>1. Len(t) = Len(r) + 1 /\ \A j \in 1 .. Len(r) : t[j] = r[j]
      BY <1>2, <2>2, AppendProperties
    <3> QED
      BY <1>2, <1>3, <3>1
  <2>3. t = r \/ \E f \in Flits : t = Append(r, f)
    BY PlaceFacts DEF Slid
  <2> QED
    BY <2>1, <2>2, <2>3
<1>6. At(n, a, i)' /\ Held(n, a)'[i] = Held(n, a)[k]
  BY <1>4, <1>5 DEF At
<1> QED
  BY <1>6 DEF Lands

-----------------------------------------------------------------------------
(***************************************************************************)
(* A Run of a router: every input that drives gives its first flit to the  *)
(* next slot of the route.                                                 *)
(***************************************************************************)
RunShift(n) ==
    [m \in Nodes |-> [b \in Slots |-> IF m = n /\ b \in Driving(n) THEN 1 ELSE 0]]

LEMMA RunShiftFacts ==
    ASSUME TypeOK, NEW n \in Nodes, NEW m \in Nodes, NEW b \in Slots
    PROVE  /\ RunShift(n) \in Shifts
           /\ RunShift(n)[m][b] = IF m = n /\ b \in Driving(n) THEN 1 ELSE 0
           /\ RunShift(n)[m][b] = 1 => Held(m, b) # << >>
<1>1. /\ RunShift(n) \in Shifts
      /\ RunShift(n)[m][b] = IF m = n /\ b \in Driving(n) THEN 1 ELSE 0
  BY DEF RunShift, Shifts
<1> QED
  BY <1>1, DrivingFacts DEF Held

LEMMA DriveForward ==
    ASSUME TypeOK, Routed, NEW lo \in Links, NEW n \in Nodes, NodeInv(lo, n),
           NEW i \in Driving(n), NEW m \in Nodes, NEW a \in Slots,
           \/ m = n /\ a = NI /\ Crossbar(n)[i] = LOCAL_PORT
           \/ /\ a \in Ports /\ a # LOCAL_PORT /\ Neighbour(m, a) = n
              /\ Crossbar(n)[i] = Opposite(a)
    PROVE  /\ At(n, i, 1) /\ Held(n, i)[1] = ib[n][i][1]
           /\ Forward(RunShift(n), n, i, 1, m, a, Len(Held(m, a)) - RunShift(n)[m][a] + 1)
<1> DEFINE f == ib[n][i][1]
           d == f.msg.dst
<1>1. /\ i \in Ports /\ i \in Slots /\ ib[n][i] # << >> /\ Held(n, i) = ib[n][i]
      /\ 1 \in 1 .. Len(ib[n][i]) /\ f \in Flits
  BY DrivingFacts, BufferFacts DEF Slots, Ports, Held
<1>2. At(n, i, 1)
  BY <1>1 DEF At
<1>3. /\ RouteOf(n, f.msg) = Crossbar(n)[i] /\ f.msg \in Messages /\ d \in Nodes
  BY <1>1, Drive, FlitFacts
<1>4. Passes(n, i, f.msg)
  BY <1>1, <1>2 DEF Routed
<1> HIDE DEF f, d
<1>5. OnRoute(n, f.msg) /\ Rank(n, i, d) = Dist(n, d) + 2 /\ Dist(n, d) \in Nat
  BY <1>1, <1>3, <1>4, PassesFacts, RankFacts
<1>6. CASE m = n /\ a = NI /\ Crossbar(n)[i] = LOCAL_PORT
  <2>1. d = n
    BY <1>3, <1>6, RouteFacts DEF d
  <2>2. Rank(n, NI, n) = 1 /\ Dist(n, n) = 0
    BY <1>6, RankFacts
  <2>3. Passes(m, a, f.msg)
    BY <1>6, <2>1 DEF Passes, NI, LOCAL_PORT, Ports, d
  <2>4. Rank(m, a, d) = Rank(n, i, d) - 1
    BY <1>5, <1>6, <2>1, <2>2
  <2> QED
    BY <1>1, <1>2, <2>3, <2>4, RunShiftFacts DEF Forward, f, d
<1>7. CASE /\ a \in Ports /\ a # LOCAL_PORT /\ Neighbour(m, a) = n
           /\ Crossbar(n)[i] = Opposite(a)
  <2>1. /\ Opposite(a) # LOCAL_PORT /\ Opposite(Opposite(a)) = a
        /\ Neighbour(n, Opposite(a)) = m
    BY <1>7, NeighbourFacts
  <2>2. Dist(m, d) = Dist(n, d) - 1
    BY <1>3, <1>5, <1>7, <2>1, RouteStep DEF d
  <2>3. Approach(m, a, f.msg)
    BY <1>3, <1>7, <2>1, RouteStays DEF d
  <2>4. Passes(m, a, f.msg)
    BY <1>5, <1>7, <2>3 DEF Passes
  <2>5. Rank(m, a, d) = Rank(n, i, d) - 1
    <3>1. Rank(m, a, d) = Dist(m, d) + 2
      BY <1>3, <1>7, RankFacts
    <3> QED
      BY <1>5, <2>2, <3>1
  <2> QED
    BY <1>1, <1>2, <2>4, <2>5, RunShiftFacts DEF Forward, f, d
<1> QED
  BY <1>6, <1>7

\* A slot takes what is driven into it.
LEMMA DrivenSlid ==
    ASSUME TypeOK, Routed, NEW lo \in Links, NEW n \in Nodes, NodeInv(lo, n),
           NEW m \in Nodes, NEW a \in Slots, NEW q \in Ports,
           \/ m = n /\ a = NI /\ q = LOCAL_PORT
           \/ /\ a \in Ports /\ a # LOCAL_PORT /\ Neighbour(m, a) = n
              /\ q = Opposite(a) /\ m # n,
           Held(m, a)' = Held(m, a) \o Driven(n, q)
    PROVE  /\ Slid(RunShift(n), m, a)
           /\ \A i \in Driving(n) : Crossbar(n)[i] = q => Lands(ib[n][i][1])
<1>1. RunShift(n)[m][a] = 0 /\ Rest(RunShift(n), m, a) = Held(m, a)
  <2>1. ~ (m = n /\ a \in Driving(n))
    BY DrivingFacts DEF NI, Ports
  <2> QED
    BY <2>1, RunShiftFacts DEF Rest
<1>2. Held(m, a) \in Seq(Flits)
  BY HeldSeq
<1>3. CASE Inputs(n, q) = {}
  <2>1. Held(m, a)' = Held(m, a)
    BY <1>2, <1>3, DrivenFacts
  <2> QED
    BY <1>1, <1>3, <2>1 DEF Slid, Inputs
<1>4. CASE Inputs(n, q) # {}
  <2>1. PICK i \in Inputs(n, q) : /\ i \in Driving(n) /\ Crossbar(n)[i] = q
                                  /\ Held(m, a)' = Append(Held(m, a), ib[n][i][1])
    BY <1>2, <1>4, DrivenFacts
  <2>2. /\ At(n, i, 1) /\ Held(n, i)[1] = ib[n][i][1]
        /\ Forward(RunShift(n), n, i, 1, m, a, Len(Held(m, a)) - RunShift(n)[m][a] + 1)
    BY <2>1, DriveForward
  <2>3. Slid(RunShift(n), m, a)
    BY <1>1, <2>1, <2>2 DEF Slid
  <2>4. \A j \in Driving(n) : Crossbar(n)[j] = q => j = i
    BY <2>1, DrivesApart, DrivingFacts
  <2>5. Lands(ib[n][i][1])
    BY <1>2, <2>1, DrivingFacts, AppendLands
  <2> QED
    BY <2>3, <2>4, <2>5
<1> QED
  BY <1>3, <1>4

LEMMA RunSlid ==
    ASSUME TypeOK, Routed, NEW lo \in Links, NEW n \in Nodes, NodeInv(lo, n), RunRouter(n),
           NEW m \in Nodes, NEW a \in Slots
    PROVE  Slid(RunShift(n), m, a)
<1>1. RunShift(n)[m][a] = IF m = n /\ a \in Driving(n) THEN 1 ELSE 0
  BY RunShiftFacts
<1>2. CASE a \in Ports
  <2>1. Held(m, a) = ib[m][a] /\ Held(m, a)' = ib'[m][a]
    BY <1>2 DEF Held
  <2>2. CASE m # n /\ a # LOCAL_PORT /\ Neighbour(m, a) = n
    <3>1. Opposite(a) \in Ports /\ ib'[m][a] = ib[m][a] \o Driven(n, Opposite(a))
      BY <1>2, <2>2, NeighbourFacts, RunAtPort
    <3> QED
      BY <1>2, <2>1, <2>2, <3>1, DrivenSlid
  <2>3. CASE ~ (m # n /\ a # LOCAL_PORT /\ Neighbour(m, a) = n)
    <3>1. ib'[m][a] = IF m = n /\ a \in Driving(n) THEN Tail(ib[m][a]) ELSE ib[m][a]
      BY <1>2, <2>3, RunAtPort
    <3>2. Held(m, a)' = Rest(RunShift(n), m, a)
      BY <1>1, <2>1, <3>1 DEF Rest
    <3> QED
      BY <3>2 DEF Slid
  <2> QED
    BY <2>2, <2>3
<1>3. CASE a = NI
  <2>1. Held(m, a) = ni[m] /\ Held(m, a)' = ni'[m] /\ LOCAL_PORT \in Ports /\ a \notin Ports
    BY <1>3 DEF Held, NI, Ports, LOCAL_PORT
  <2>2. ni'[m] = IF m = n THEN ni[n] \o Driven(n, LOCAL_PORT) ELSE ni[m]
    BY RunAt
  <2>3. CASE m = n
    BY <1>3, <2>1, <2>2, <2>3, DrivenSlid
  <2>4. CASE m # n
    BY <1>1, <2>1, <2>2, <2>4 DEF Slid, Rest
  <2> QED
    BY <2>3, <2>4
<1>4. CASE a = INBOX
  <2>1. Held(m, a)' = Held(m, a) /\ a \notin Driving(n)
    BY <1>4, DrivingFacts DEF Held, NI, INBOX, Ports, RunRouter, niVars
  <2> QED
    BY <1>1, <2>1 DEF Slid, Rest
<1> QED
  BY <1>2, <1>3, <1>4, RankFacts

\* No flit is lost in a Run.
LEMMA RunLands ==
    ASSUME TypeOK, Routed, NEW lo \in Links, NEW n \in Nodes, NodeInv(lo, n), RunRouter(n),
           NEW m, NEW a, NEW k, At(m, a, k)
    PROVE  Lands(Held(m, a)[k])
<1>1. m \in Nodes /\ a \in Slots /\ k \in Nat \ {0} /\ k <= Len(Held(m, a))
  BY PlaceFacts
<1>2. CASE m = n /\ a \in Driving(n) /\ k = 1
  <2>1. PICK q \in Ports : q = Crossbar(n)[a] /\ Held(m, a)[k] = ib[n][a][1]
    BY <1>2, DrivingFacts DEF Held
  <2>2. RouteOf(n, ib[n][a][1].msg) = q /\ ib[n][a][1] \in Flits
    BY <1>2, <2>1, Drive
  <2>3. CASE q = LOCAL_PORT
    <3>1. Held(n, NI) = ni[n] /\ Held(n, NI)' = ni'[n] /\ NI \in Slots
      BY DEF Held, NI, Ports, Slots
    <3>2. ni'[n] = ni[n] \o Driven(n, LOCAL_PORT)
      BY RunAt
    <3> QED
      BY <1>2, <2>1, <2>3, <3>1, <3>2, DrivenSlid
  <2>4. CASE q # LOCAL_PORT
    <3>1. PICK o \in Nodes, p \in Ports :
             p # LOCAL_PORT /\ Opposite(p) = q /\ Neighbour(o, p) = n /\ o # n
      <4>1. Neighbour(n, q) \in Nodes
        BY <2>2, <2>4, FlitFacts, RouteStays
      <4>2. /\ Opposite(q) \in Ports /\ Opposite(q) # LOCAL_PORT /\ Opposite(Opposite(q)) = q
            /\ Neighbour(Neighbour(n, q), Opposite(q)) = n /\ Neighbour(n, q) # n
        BY <2>4, NeighbourFacts
      <4> QED
        BY <4>1, <4>2
    <3>2. Held(o, p) = ib[o][p] /\ Held(o, p)' = ib'[o][p] /\ p \in Slots
      BY <3>1 DEF Held, Ports, Slots
    <3>3. ib'[o][p] = ib[o][p] \o Driven(n, q)
      BY <3>1, RunAtPort
    <3> QED
      BY <1>2, <2>1, <3>1, <3>2, <3>3, DrivenSlid
  <2> QED
    BY <2>3, <2>4
<1>3. CASE ~ (m = n /\ a \in Driving(n) /\ k = 1)
  <2>1. k > RunShift(n)[m][a]
    BY <1>1, <1>3, RunShiftFacts
  <2>2. RunShift(n) \in Shifts /\ Slid(RunShift(n), m, a)
    BY <1>1, RunShiftFacts, RunSlid
  <2> QED
    BY <1>1, <2>1, <2>2, RestLands
<1> QED
  BY <1>2, <1>3

-----------------------------------------------------------------------------
(***************************************************************************)
(* What a step in which no flit enters keeps.                              *)
(***************************************************************************)
LEMMA HopOrder ==
    ASSUME TypeOK, OrderInv, NEW sh \in Shifts, Hopped(sh), UNCHANGED <<nextPkt, nextPos>>,
           Arrived \subseteq Arrived',
           \A n, a, k : At(n, a, k) => Held(n, a)[k].msg \in Arrived' \/ Lands(Held(n, a)[k]),
           \A m \in Arrived' \ Arrived :
                /\ m.num < nextPkt[m.src]
                /\ \A n, a, k : At(n, a, k)' =>
                      LET f == Held(n, a)'[k]
                      IN  m.src = f.msg.src /\ m.dst = f.msg.dst => m.num < f.msg.num
    PROVE  OrderInv'
<1>1. Ordered'
  BY HopOrdered DEF OrderInv
<1>2. Routed'
  <2> SUFFICES ASSUME NEW n, NEW a, NEW k, At(n, a, k)', NEW f, f = Held(n, a)'[k]
               PROVE  /\ Passes(n, a, f.msg) /\ f.pos <= f.msg.size + 1
                      /\ Gone(f.msg.src, f.msg.num, f.pos)'
                      /\ \A m \in Arrived' : m.src = f.msg.src /\ m.dst = f.msg.dst => m.num < f.msg.num
    BY DEF Routed, Gone
  <2>1. /\ Passes(n, a, f.msg) /\ f.pos <= f.msg.size + 1
        /\ Gone(f.msg.src, f.msg.num, f.pos)
        /\ \A m \in Arrived : m.src = f.msg.src /\ m.dst = f.msg.dst => m.num < f.msg.num
    BY HopRouted DEF OrderInv
  <2>2. Gone(f.msg.src, f.msg.num, f.pos)'
    BY <2>1 DEF Gone
  <2>3. \A m \in Arrived' \ Arrived :
            m.src = f.msg.src /\ m.dst = f.msg.dst => m.num < f.msg.num
    OBVIOUS
  <2> QED
    BY <2>1, <2>2, <2>3
<1>3. NoneLost'
  <2> SUFFICES ASSUME NEW m \in Messages, NEW pos \in Nat, pos <= m.size + 1,
                      Gone(m.src, m.num, pos)', m \notin Arrived'
               PROVE  Lands([msg |-> m, pos |-> pos])
    BY DEF NoneLost, Lands
  <2>1. Gone(m.src, m.num, pos)
    BY DEF Gone
  <2>2. PICK n, a, k : At(n, a, k) /\ Held(n, a)[k] = [msg |-> m, pos |-> pos]
    BY <2>1 DEF OrderInv, NoneLost
  <2>3. Held(n, a)[k].msg = m
    BY <2>2
  <2> QED
    BY <2>2, <2>3
<1>4. SentBefore'
  BY DEF OrderInv, SentBefore
<1> QED
  BY <1>1, <1>2, <1>3, <1>4 DEF OrderInv

LEMMA RunOrder ==
    ASSUME TypeOK, NEW lo \in Links, MeshInv(lo), OrderInv, NEW n \in Nodes, RunRouter(n)
    PROVE  OrderInv' /\ Arrived' = Arrived
<1>1. UNCHANGED <<nextPkt, nextPos, received>>
  BY DEF RunRouter, niVars
<1>2. Arrived' = Arrived
  BY <1>1 DEF Arrived, Delivered
<1>3. NodeInv(lo, n) /\ Routed
  BY DEF MeshInv, OrderInv
<1>4. /\ RunShift(n) \in Shifts
      /\ \A m \in Nodes, a \in Slots : RunShift(n)[m][a] = 1 => Held(m, a) # << >>
  BY RunShiftFacts DEF RunShift, Shifts
<1>5. \A m \in Nodes, a \in Slots : Slid(RunShift(n), m, a)
  BY <1>3, RunSlid
<1>6. Hopped(RunShift(n))
  BY <1>4, <1>5, SlidHopped
<1>7. \A m, a, k : At(m, a, k) => Lands(Held(m, a)[k])
  BY <1>3, RunLands
<1> QED
  BY <1>1, <1>2, <1>4, <1>6, <1>7, HopOrder

-----------------------------------------------------------------------------
(***************************************************************************)
(* An interface takes a flit.                                              *)
(***************************************************************************)
TakeShift(n) ==
    [m \in Nodes |-> [b \in Slots |-> IF m = n /\ b = NI THEN 1 ELSE 0]]

LEMMA TakeShiftFacts ==
    ASSUME NEW n \in Nodes, NEW m \in Nodes, NEW b \in Slots
    PROVE  /\ TakeShift(n) \in Shifts
           /\ TakeShift(n)[m][b] = IF m = n /\ b = NI THEN 1 ELSE 0
  BY DEF TakeShift, Shifts

\* Elsewhere nothing moves.
LEMMA TakeElsewhere ==
    ASSUME TypeOK, NEW n \in Nodes, Consume(n), NEW m \in Nodes, NEW a \in Slots,
           ~ (m = n /\ a = INBOX)
    PROVE  Held(m, a)' = Rest(TakeShift(n), m, a) /\ Slid(TakeShift(n), m, a)
<1>1. /\ ni' = [ni EXCEPT ![n] = Tail(ni[n])] /\ ib' = ib
      /\ m # n => inbox'[m] = inbox[m]
      /\ ni \in [Nodes -> Buffers] /\ NI \notin Ports
  BY DEF Consume, TypeOK, NI, Ports
<1>2. Held(m, a)' = Rest(TakeShift(n), m, a)
  BY <1>1, TakeShiftFacts DEF Held, Rest, Slots, Ports, NI, INBOX
<1> QED
  BY <1>2 DEF Slid

\* The flit it takes.
LEMMA TakeFacts ==
    ASSUME TypeOK, OrderInv, NEW n \in Nodes, Consume(n), NEW f, f = ni[n][1]
    PROVE  /\ NI \in Slots /\ INBOX \in Slots /\ NI # INBOX
           /\ Held(n, NI) = ni[n] /\ Held(n, INBOX) = inbox[n] /\ Held(n, INBOX)' = inbox'[n]
           /\ ni[n] # << >> /\ At(n, NI, 1) /\ f \in Flits
           /\ f.msg \in Messages /\ f.msg.dst = n /\ f.pos <= f.msg.size + 1
           /\ Gone(f.msg.src, f.msg.num, f.pos)
<1>1. Routed
  BY DEF OrderInv
<1>2. /\ NI \in Slots /\ INBOX \in Slots /\ Held(n, NI) = ni[n] /\ Held(n, INBOX) = inbox[n]
      /\ Held(n, INBOX)' = inbox'[n] /\ NI # INBOX
  BY DEF NI, INBOX, Slots, Held, Ports
<1>3. ni[n] # << >> /\ At(n, NI, 1) /\ f \in Flits
  <2>1. ni[n] # << >> /\ ni[n] \in Seq(Flits)
    BY BufferFacts DEF Consume
  <2>2. 1 \in 1 .. Len(ni[n])
    BY <2>1, EmptySeq, LenProperties
  <2> QED
    BY <1>2, <2>1, <2>2, ElementOfSeq DEF At
<1>4. /\ f.msg \in Messages /\ f.msg.dst = n /\ f.pos <= f.msg.size + 1
      /\ Gone(f.msg.src, f.msg.num, f.pos)
  <2>1. Passes(n, NI, f.msg)
    BY <1>1, <1>2, <1>3 DEF Routed
  <2> QED
    BY <1>1, <1>2, <1>3, <2>1, FlitFacts DEF Routed, Passes, NI, Ports, LOCAL_PORT
<1> QED
  BY <1>2, <1>3, <1>4

\* Only the inbox is in front of it.
LEMMA InFront ==
    ASSUME TypeOK, OrderInv, NEW n \in Nodes, NEW m, NEW a, NEW k, At(m, a, k),
           Held(m, a)[k].msg.dst = n, Ahead(m, a, k, n, NI, 1, n)
    PROVE  m = n /\ a = INBOX
<1> DEFINE g == Held(m, a)[k]
<1>1. /\ m \in Nodes /\ a \in Slots /\ k \in Nat \ {0} /\ g.msg \in Messages /\ Passes(m, a, g.msg)
  BY PlaceFacts, FlitFacts DEF OrderInv, Routed
<1>2. NI \in Slots
  BY DEF NI, Slots
<1>3. Rank(m, a, n) < Rank(n, NI, n)
  BY <1>1 DEF Ahead
<1>4. /\ Rank(n, NI, n) = 1 /\ Rank(m, NI, n) = 1 /\ Rank(m, a, n) \in Nat /\ Dist(m, n) \in Nat
      /\ a \in Ports => Rank(m, a, n) = Dist(m, n) + 2
      /\ a \notin Ports => a \in {NI, INBOX}
  BY <1>1, <1>2, RankFacts
<1>5. a = INBOX /\ a \notin Ports
  BY <1>3, <1>4
<1> QED
  BY <1>1, <1>5, PassesFacts

\* The last flit of a packet makes it arrive.
LEMMA Arrives ==
    ASSUME TypeOK, NEW n \in Nodes, Consume(n), NEW m \in Messages,
           received'[n] = Append(received[n], m)
    PROVE  Arrived' = Arrived \cup {m}
<1>1. received[n] \in Seq(Messages) /\ \A d \in Nodes : d # n => received'[d] = received[d]
  BY DEF Consume, TypeOK
<1>2. Delivered(n)' = Delivered(n) \cup {m}
  <2>1. /\ Len(received[n]) \in Nat /\ Len(received'[n]) = Len(received[n]) + 1
        /\ \A k \in 1 .. Len(received[n]) : received'[n][k] = received[n][k]
        /\ received'[n][Len(received[n]) + 1] = m
        /\ DOMAIN received[n] = 1 .. Len(received[n])
        /\ DOMAIN received'[n] = 1 .. Len(received[n]) + 1
    BY <1>1, AppendProperties, LenProperties
  <2>2. \A k : k \in 1 .. Len(received[n]) + 1 <=>
                   (k \in 1 .. Len(received[n]) \/ k = Len(received[n]) + 1)
    BY <2>1
  <2> QED
    BY <2>1, <2>2 DEF Delivered
<1>3. \A d \in Nodes : d # n => Delivered(d)' = Delivered(d)
  BY <1>1 DEF Delivered
<1> QED
  BY <1>2, <1>3 DEF Arrived

LEMMA ConsumeOrder ==
    ASSUME TypeOK, NEW lo \in Links, MeshInv(lo), OrderInv, NEW n \in Nodes, Consume(n)
    PROVE  OrderInv'
<1> DEFINE f == ni[n][1]
<1>1. UNCHANGED <<nextPkt, nextPos>> /\ NodeInv(lo, n) /\ Routed /\ Ordered
  BY DEF Consume, MeshInv, OrderInv
<1>2. /\ NI \in Slots /\ INBOX \in Slots /\ Held(n, NI) = ni[n] /\ Held(n, INBOX) = inbox[n]
      /\ Held(n, INBOX)' = inbox'[n] /\ NI # INBOX
  BY TakeFacts
<1>3. ni[n] # << >> /\ At(n, NI, 1) /\ f \in Flits
  BY TakeFacts
<1>4. /\ f.msg \in Messages /\ f.msg.dst = n /\ f.pos <= f.msg.size + 1
      /\ Gone(f.msg.src, f.msg.num, f.pos)
  BY TakeFacts
<1>5. /\ TakeShift(n) \in Shifts
      /\ \A m \in Nodes, a \in Slots : TakeShift(n)[m][a] = 1 => Held(m, a) # << >>
  BY <1>2, <1>3, TakeShiftFacts
<1>6. ASSUME NEW m, NEW a, NEW k, At(m, a, k), ~ (m = n /\ a = INBOX), ~ (m = n /\ a = NI /\ k = 1)
      PROVE  Lands(Held(m, a)[k])
  <2>1. m \in Nodes /\ a \in Slots /\ k \in Nat \ {0}
    BY <1>6, PlaceFacts
  <2>2. k > TakeShift(n)[m][a] /\ Slid(TakeShift(n), m, a)
    BY <1>6, <2>1, TakeShiftFacts, TakeElsewhere
  <2> QED
    BY <1>5, <1>6, <2>1, <2>2, RestLands
<1> HIDE DEF f
\* A flit more for the packet.
<1>7. CASE inbox'[n] = Append(inbox[n], f) /\ received'[n] = received[n]
  <2>1. Arrived' = Arrived
    <3>1. received' = received
      BY <1>7 DEF Consume, TypeOK
    <3> QED
      BY <3>1 DEF Arrived, Delivered
  <2>2. TakeShift(n)[n][INBOX] = 0 /\ Rest(TakeShift(n), n, INBOX) = inbox[n]
    BY <1>2, TakeShiftFacts DEF Rest
  <2>3. Slid(TakeShift(n), n, INBOX)
    <3>1. Rank(n, INBOX, n) = 0 /\ Rank(n, NI, n) = 1
      BY <1>2, RankFacts
    <3>2. Passes(n, INBOX, f.msg)
      BY <1>4 DEF Passes, INBOX, Ports, LOCAL_PORT
    <3>3. TakeShift(n)[n][NI] = 1 /\ Held(n, NI)[1] = f
      BY <1>2, TakeShiftFacts DEF f
    <3>4. Forward(TakeShift(n), n, NI, 1, n, INBOX, Len(Held(n, INBOX)) - TakeShift(n)[n][INBOX] + 1)
      BY <1>4, <3>1, <3>2, <3>3 DEF Forward
    <3> QED
      BY <1>2, <1>3, <1>7, <2>2, <3>3, <3>4 DEF Slid
  <2>4. Hopped(TakeShift(n))
    BY <1>5, <2>3, TakeElsewhere, SlidHopped
  <2>5. \A m, a, k : At(m, a, k) => Lands(Held(m, a)[k])
    <3>1. Lands(f)
      BY <1>2, <1>3, <1>7, HeldSeq, AppendLands
    <3>2. ASSUME NEW k, At(n, INBOX, k) PROVE Lands(Held(n, INBOX)[k])
      <4>1. k > TakeShift(n)[n][INBOX]
        BY <2>2, <3>2, PlaceFacts
      <4> QED
        BY <1>2, <1>5, <2>3, <3>2, <4>1, RestLands
    <3> QED
      BY <1>2, <1>6, <3>1, <3>2 DEF f
  <2> QED
    BY <1>1, <1>5, <2>1, <2>4, <2>5, HopOrder
\* The last one.
<1>8. CASE /\ f.pos = f.msg.size + 1 /\ inbox'[n] = << >>
           /\ received'[n] = Append(received[n], f.msg)
           /\ \A k \in 1 .. Len(inbox[n]) : inbox[n][k].msg = f.msg
  <2>1. Arrived' = Arrived \cup {f.msg}
    BY <1>4, <1>8, Arrives
  <2>2. f.msg.num < nextPkt[f.msg.src]
    <3> DEFINE s == f.msg.src
    <3>1. s \in Nodes /\ f.msg = Message(s, f.msg.num) /\ f.msg.num \in Nat /\ f.msg.size \in Nat
      BY <1>4, MessageIdentity
    <3>2. nextPos[s] \in Nat /\ Pushing(s) \in Expect
      BY <3>1 DEF TypeOK, MeshInv, NodeInv
    <3>3. ASSUME f.msg.num = nextPkt[s], f.pos < nextPos[s] PROVE FALSE
      <4>1. nextPos[s] # 0
        BY <1>4, <1>8, <3>1, <3>2, <3>3
      <4>2. Pushing(s) = [msg |-> f.msg, pos |-> nextPos[s]]
        BY <3>1, <3>3, <4>1 DEF Pushing
      <4>3. Pushing(s) # Start
        BY <1>4, <4>2, MessageFacts DEF Start
      <4>4. nextPos[s] <= f.msg.size + 1
        <5>1. Pushing(s).pos \in 1 .. Pushing(s).msg.size + 1
          BY <3>2, <4>3 DEF Expect
        <5>2. Pushing(s).pos = nextPos[s] /\ Pushing(s).msg = f.msg
          BY <4>2
        <5> QED
          BY <3>1, <5>1, <5>2
      <4> QED
        BY <1>8, <3>1, <3>2, <3>3, <4>4
    <3> QED
      BY <1>4, <3>3 DEF Gone
  <2>3. \A m \in Nodes, a \in Slots : Slid(TakeShift(n), m, a) \/ Held(m, a)' = << >>
    BY <1>2, <1>8, TakeElsewhere
  <2>4. Hopped(TakeShift(n))
    BY <1>5, <2>3, SlidHopped
  <2>5. ASSUME NEW m, NEW a, NEW k, At(m, a, k)
        PROVE  Held(m, a)[k].msg \in Arrived' \/ Lands(Held(m, a)[k])
    <3>1. CASE m = n /\ a = INBOX
      BY <1>2, <1>8, <2>1, <2>5, <3>1 DEF At
    <3>2. CASE m = n /\ a = NI /\ k = 1
      BY <1>2, <2>1, <3>2 DEF f
    <3> QED
      BY <1>6, <2>5, <3>1, <3>2
  <2>6. ASSUME NEW m, NEW a, NEW k, At(m, a, k)', NEW g, g = Held(m, a)'[k], SamePair(f, g)
        PROVE  f.msg.num < g.msg.num
    <3>1. PICK o, c, j : Hop(TakeShift(n), o, c, j, m, a, k) /\ g = Held(o, c)[j]
      BY <2>4, <2>6 DEF Hopped
    <3>2. /\ At(o, c, j) /\ o \in Nodes /\ c \in Slots /\ j \in Nat \ {0} /\ g \in Flits
      BY <3>1, PlaceFacts DEF Hop
    <3>3. ~ (o = n /\ c = NI /\ j = 1) /\ ~ (o = n /\ c = INBOX)
      <4>1. /\ o = n /\ c = NI => TakeShift(n)[o][c] = 1
            /\ o = n /\ c = INBOX => TakeShift(n)[o][c] = 0
            /\ m \in Nodes /\ a \in Slots /\ k \in Nat \ {0}
        BY <1>2, <3>1, TakeShiftFacts DEF Hop
      <4>2. Forward(TakeShift(n), o, c, j, m, a, k) /\ o = n /\ c = NI => m = n /\ a = INBOX
        <5>1. ASSUME Forward(TakeShift(n), o, c, j, m, a, k), o = n, c = NI PROVE m = n /\ a = INBOX
          <6>1. /\ Passes(m, a, g.msg) /\ Rank(m, a, n) = Rank(n, NI, n) - 1
            BY <1>4, <2>6, <3>1, <5>1 DEF Forward, SamePair
          <6>2. Rank(m, a, n) = 0
            BY <1>2, <6>1, RankFacts
          <6>3. a \notin Ports /\ a # NI
            <7>1. Rank(m, NI, n) = 1 /\ Dist(m, n) \in Nat /\ (a \in Ports => Rank(m, a, n) = Dist(m, n) + 2)
              BY <4>1, RankFacts
            <7> QED
              BY <6>2, <7>1
          <6>4. a = INBOX
            BY <4>1, <6>3, RankFacts
          <6>5. m = g.msg.dst
            BY <3>2, <4>1, <6>1, <6>3, FlitFacts, PassesFacts
          <6> QED
            BY <1>4, <2>6, <6>4, <6>5 DEF SamePair
        <5> QED
          BY <5>1
      <4>3. ~ (m = n /\ a = INBOX)
        <5>1. ASSUME m = n, a = INBOX PROVE FALSE
          <6>1. Held(n, INBOX)' = << >> /\ k \in 1 .. Len(Held(n, INBOX)')
            BY <1>2, <1>8, <2>6, <5>1 DEF At
          <6> QED
            BY <6>1
        <5> QED
          BY <5>1
      <4>4. ASSUME o = n, c = NI, j = 1 PROVE FALSE
        BY <3>1, <4>1, <4>2, <4>3, <4>4 DEF Hop
      <4>5. ASSUME o = n, c = INBOX PROVE FALSE
        BY <3>1, <4>1, <4>3, <4>5 DEF Hop, Forward
      <4> QED
        BY <4>4, <4>5
    <3>4. InOrder(n, NI, 1, o, c, j)
      BY <1>1, <1>3, <3>2 DEF Ordered
    <3>5. \/ Before(f, g)
          \/ Ahead(o, c, j, n, NI, 1, n)
      BY <1>2, <1>4, <2>6, <3>1, <3>3, <3>4 DEF InOrder, f
    <3>6. ~ Ahead(o, c, j, n, NI, 1, n)
      BY <1>4, <2>6, <3>1, <3>2, <3>3, InFront DEF SamePair
    <3>7. Before(f, g)
      BY <3>5, <3>6
    <3>8. f.msg \in Messages /\ g.msg \in Messages /\ g.pos <= g.msg.size + 1
      BY <1>1, <1>4, <3>1, <3>2, FlitFacts DEF Routed
    <3>9. ASSUME f.msg.num = g.msg.num, f.pos < g.pos PROVE FALSE
      <4>1. f.msg = g.msg
        BY <2>6, <3>8, <3>9, MessageIdentity DEF SamePair
      <4> QED
        BY <1>3, <1>8, <3>2, <3>8, <3>9, <4>1, FlitFacts
    <3> QED
      BY <3>7, <3>9 DEF Before
  <2>7. \A m \in Arrived' \ Arrived : m = f.msg
    BY <2>1
  <2>8. \A m, a, k : At(m, a, k)' =>
            LET g == Held(m, a)'[k]
            IN  f.msg.src = g.msg.src /\ f.msg.dst = g.msg.dst => f.msg.num < g.msg.num
    BY <2>6 DEF SamePair
  <2> QED
    BY <1>1, <1>5, <2>1, <2>2, <2>4, <2>5, <2>7, <2>8, HopOrder
<1> QED
  BY <1>1, <1>7, <1>8, ConsumeFacts DEF f

-----------------------------------------------------------------------------
(***************************************************************************)
(* An interface pushes a flit: the last of its channel.                    *)
(***************************************************************************)
Pushed(n) == [msg |-> Message(n, nextPkt[n]), pos |-> nextPos[n]]

LEMMA PushedFacts ==
    ASSUME TypeOK, NEW lo \in Links, MeshInv(lo), NEW n \in Nodes, Inject(n),
           NEW f, f = Pushed(n)
    PROVE  /\ f \in Flits /\ f.msg \in Messages /\ f.msg.src = n /\ f.msg.num = nextPkt[n]
           /\ f.pos = nextPos[n] /\ f.pos <= f.msg.size + 1
           /\ f.msg.size \in Nat /\ nextPkt[n] \in Nat /\ nextPos[n] \in Nat
           /\ nextPkt'[n] = IF nextPos[n] = f.msg.size + 1 THEN nextPkt[n] + 1 ELSE nextPkt[n]
           /\ nextPos'[n] = IF nextPos[n] = f.msg.size + 1 THEN 0 ELSE nextPos[n] + 1
           /\ \A s \in Nodes : s # n => nextPkt'[s] = nextPkt[s] /\ nextPos'[s] = nextPos[s]
<1>1. Pushing(n) \in Expect
  BY DEF MeshInv, NodeInv
<1>2. f \in Flits /\ Fits(Pushing(n), f)
  BY <1>1, InjectFacts DEF Pushed
<1>3. f.pos <= f.msg.size + 1
  BY <1>1, <1>2, ExpectFacts
<1>4. f.msg = Message(n, nextPkt[n]) /\ f.pos = nextPos[n]
  BY DEF Pushed
<1>5. f.msg.src = n /\ f.msg.num = nextPkt[n]
  BY <1>4 DEF Message
<1>6. nextPkt \in [Nodes -> Nat \ {0}] /\ nextPos \in [Nodes -> Nat]
  BY DEF TypeOK
<1>7. /\ nextPkt'[n] = IF nextPos[n] = f.msg.size + 1 THEN nextPkt[n] + 1 ELSE nextPkt[n]
      /\ nextPos'[n] = IF nextPos[n] = f.msg.size + 1 THEN 0 ELSE nextPos[n] + 1
      /\ \A s \in Nodes : s # n => nextPkt'[s] = nextPkt[s] /\ nextPos'[s] = nextPos[s]
  BY <1>4, <1>6 DEF Inject
<1> QED
  BY <1>2, <1>3, <1>4, <1>5, <1>6, <1>7, FlitFacts

\* It is the only flit that leaves.
LEMMA GoneNext ==
    ASSUME TypeOK, NEW lo \in Links, MeshInv(lo), NEW n \in Nodes, Inject(n),
           NEW m \in Messages, NEW pos \in Nat, pos <= m.size + 1
    PROVE  Gone(m.src, m.num, pos)' <=>
               (Gone(m.src, m.num, pos) \/ [msg |-> m, pos |-> pos] = Pushed(n))
<1> DEFINE f == Pushed(n)
<1>1. /\ f \in Flits /\ f.msg \in Messages /\ f.msg.src = n /\ f.msg.num = nextPkt[n]
      /\ f.pos = nextPos[n] /\ f.pos <= f.msg.size + 1
      /\ f.msg.size \in Nat /\ nextPkt[n] \in Nat /\ nextPos[n] \in Nat
      /\ nextPkt'[n] = IF nextPos[n] = f.msg.size + 1 THEN nextPkt[n] + 1 ELSE nextPkt[n]
      /\ nextPos'[n] = IF nextPos[n] = f.msg.size + 1 THEN 0 ELSE nextPos[n] + 1
      /\ \A s \in Nodes : s # n => nextPkt'[s] = nextPkt[s] /\ nextPos'[s] = nextPos[s]
  BY PushedFacts
<1>2. /\ m.src \in Nodes /\ m.num \in Nat
      /\ m.src = n /\ m.num = nextPkt[n] => m = f.msg
  BY <1>1, MessageIdentity
<1>3. [msg |-> m, pos |-> pos] = f <=> (m = f.msg /\ pos = f.pos)
  BY <1>1, FlitFacts
<1> HIDE DEF f
<1>4. CASE m.src # n
  BY <1>1, <1>2, <1>3, <1>4 DEF Gone, f
<1>5. CASE m.src = n /\ m.num # nextPkt[n]
  <2>1. Gone(m.src, m.num, pos) <=> m.num < nextPkt[n]
    BY <1>5 DEF Gone
  <2>2. Gone(m.src, m.num, pos)' <=> m.num < nextPkt[n]
    BY <1>1, <1>2, <1>5 DEF Gone
  <2> QED
    BY <1>1, <1>3, <1>5, <2>1, <2>2 DEF f
<1>6. CASE m.src = n /\ m.num = nextPkt[n]
  <2>1. Gone(m.src, m.num, pos) <=> pos < nextPos[n]
    BY <1>1, <1>6 DEF Gone
  <2>2. Gone(m.src, m.num, pos)' <=> pos <= nextPos[n]
    BY <1>1, <1>2, <1>6 DEF Gone
  <2>3. pos <= nextPos[n] <=> (pos < nextPos[n] \/ pos = nextPos[n])
    BY <1>1
  <2> QED
    BY <1>1, <1>2, <1>3, <1>6, <2>1, <2>2, <2>3 DEF f
<1> QED
  BY <1>4, <1>5, <1>6

\* The place of the new flit is the only new one.
LEMMA PushedPlace ==
    ASSUME TypeOK, NEW n \in Nodes, Inject(n), NEW last, last = Len(ib[n][LOCAL_PORT]) + 1,
           Pushed(n) \in Flits
    PROVE  /\ LOCAL_PORT \in Slots /\ last \in Nat
           /\ At(n, LOCAL_PORT, last)' /\ Held(n, LOCAL_PORT)'[last] = Pushed(n)
           /\ \A m, a, k : At(m, a, k) => At(m, a, k)' /\ Held(m, a)'[k] = Held(m, a)[k]
           /\ \A m, a, k : At(m, a, k)' =>
                \/ At(m, a, k) /\ Held(m, a)'[k] = Held(m, a)[k]
                \/ m = n /\ a = LOCAL_PORT /\ k = last
           /\ \A m, a, k : At(m, a, k) /\ m = n /\ a = LOCAL_PORT => k < last
<1> DEFINE b == ib[n][LOCAL_PORT]
<1>1. LOCAL_PORT \in Ports /\ LOCAL_PORT \in Slots
  BY DEF LOCAL_PORT, Ports, Slots
<1>2. /\ b \in Seq(Flits) /\ Len(b) \in Nat
      /\ Held(n, LOCAL_PORT) = b /\ Held(n, LOCAL_PORT)' = Append(b, Pushed(n))
  BY <1>1, BufferFacts, LenProperties DEF Inject, TypeOK, Held, Pushed
<1>3. /\ Len(Append(b, Pushed(n))) = Len(b) + 1 /\ Append(b, Pushed(n))[Len(b) + 1] = Pushed(n)
      /\ \A k \in 1 .. Len(b) : Append(b, Pushed(n))[k] = b[k]
  BY <1>2, AppendProperties
<1>4. ASSUME NEW m \in Nodes, NEW a \in Slots, ~ (m = n /\ a = LOCAL_PORT)
      PROVE  Held(m, a)' = Held(m, a)
  <2>1. ib \in [Nodes -> [Ports -> Buffers]]
    BY DEF TypeOK
  <2>2. a \in Ports => ib'[m][a] = ib[m][a]
    BY <1>1, <1>4, <2>1 DEF Inject
  <2>3. ni' = ni /\ inbox' = inbox
    BY DEF Inject
  <2> QED
    BY <2>2, <2>3 DEF Held
<1> HIDE DEF b
<1>5. ASSUME NEW m, NEW a, NEW k, At(m, a, k)
      PROVE  At(m, a, k)' /\ Held(m, a)'[k] = Held(m, a)[k]
  <2>1. CASE m = n /\ a = LOCAL_PORT
    <3>1. k \in 1 .. Len(b)
      BY <1>2, <1>5, <2>1 DEF At
    <3>2. k \in 1 .. Len(b) + 1
      BY <1>2, <3>1
    <3> QED
      BY <1>1, <1>2, <1>3, <2>1, <3>1, <3>2 DEF At
  <2>2. CASE ~ (m = n /\ a = LOCAL_PORT)
    BY <1>4, <1>5, <2>2 DEF At
  <2> QED
    BY <2>1, <2>2
<1>6. ASSUME NEW m, NEW a, NEW k, At(m, a, k)'
      PROVE  \/ At(m, a, k) /\ Held(m, a)'[k] = Held(m, a)[k]
             \/ m = n /\ a = LOCAL_PORT /\ k = last
  <2>1. CASE m = n /\ a = LOCAL_PORT
    <3>1. k \in 1 .. Len(b) + 1
      BY <1>2, <1>3, <1>6, <2>1 DEF At
    <3>2. k \in 1 .. Len(b) \/ k = Len(b) + 1
      BY <1>2, <3>1
    <3> QED
      BY <1>1, <1>2, <1>3, <2>1, <3>2 DEF At, b
  <2>2. CASE ~ (m = n /\ a = LOCAL_PORT)
    BY <1>4, <1>6, <2>2 DEF At
  <2> QED
    BY <2>1, <2>2
<1>7. ASSUME NEW k, At(n, LOCAL_PORT, k) PROVE k < last
  BY <1>2, <1>7 DEF At, b
<1>8. At(n, LOCAL_PORT, last)' /\ Held(n, LOCAL_PORT)'[last] = Pushed(n) /\ last \in Nat
  <2>1. last \in 1 .. Len(b) + 1 /\ last = Len(b) + 1
    BY <1>2 DEF b
  <2> QED
    BY <1>1, <1>2, <1>3, <2>1 DEF At
<1> QED
  BY <1>1, <1>5, <1>6, <1>7, <1>8

LEMMA InjectOrder ==
    ASSUME TypeOK, NEW lo \in Links, MeshInv(lo), OrderInv, NEW n \in Nodes, Inject(n)
    PROVE  OrderInv' /\ Arrived' = Arrived
<1>1. PICK f \in Flits : f = Pushed(n)
  BY PushedFacts
<1>2. PICK last \in Nat : last = Len(ib[n][LOCAL_PORT]) + 1
  BY <1>1, PushedPlace
<1>3. /\ f.msg \in Messages /\ f.msg.src = n /\ f.msg.num = nextPkt[n]
      /\ f.pos = nextPos[n] /\ f.pos <= f.msg.size + 1
      /\ f.msg.size \in Nat /\ nextPkt[n] \in Nat /\ nextPos[n] \in Nat
  BY <1>1, PushedFacts
<1>4. /\ LOCAL_PORT \in Slots
      /\ At(n, LOCAL_PORT, last)' /\ Held(n, LOCAL_PORT)'[last] = f
      /\ \A m, a, k : At(m, a, k) => At(m, a, k)' /\ Held(m, a)'[k] = Held(m, a)[k]
      /\ \A m, a, k : At(m, a, k)' =>
           \/ At(m, a, k) /\ Held(m, a)'[k] = Held(m, a)[k]
           \/ m = n /\ a = LOCAL_PORT /\ k = last
      /\ \A m, a, k : At(m, a, k) /\ m = n /\ a = LOCAL_PORT => k < last
  BY <1>1, <1>2, PushedPlace
<1>5. Passes(n, LOCAL_PORT, f.msg)
  BY <1>3 DEF Passes
<1>6. Arrived' = Arrived
  BY DEF Inject, Arrived, Delivered
<1>7. Routed'
  <2> SUFFICES ASSUME NEW m, NEW a, NEW k, At(m, a, k)', NEW g, g = Held(m, a)'[k]
               PROVE  /\ Passes(m, a, g.msg) /\ g.pos <= g.msg.size + 1
                      /\ Gone(g.msg.src, g.msg.num, g.pos)'
                      /\ \A x \in Arrived : x.src = g.msg.src /\ x.dst = g.msg.dst => x.num < g.msg.num
    BY <1>6 DEF Routed, Gone
  <2>1. CASE At(m, a, k) /\ g = Held(m, a)[k]
    <3>1. /\ Passes(m, a, g.msg) /\ g.pos <= g.msg.size + 1
          /\ Gone(g.msg.src, g.msg.num, g.pos)
          /\ \A x \in Arrived : x.src = g.msg.src /\ x.dst = g.msg.dst => x.num < g.msg.num
      BY <2>1 DEF OrderInv, Routed
    <3>2. g.msg \in Messages /\ g.pos \in Nat
      BY <2>1, PlaceFacts, FlitFacts
    <3> QED
      BY <3>1, <3>2, GoneNext
  <2>2. CASE m = n /\ a = LOCAL_PORT /\ g = f
    <3>1. f = [msg |-> f.msg, pos |-> f.pos] /\ f.pos \in Nat
      BY FlitFacts
    <3>2. Gone(f.msg.src, f.msg.num, f.pos)'
      BY <1>1, <1>3, <3>1, GoneNext
    <3>3. \A x \in Arrived : x.src = f.msg.src => x.num < f.msg.num
      BY <1>3 DEF OrderInv, SentBefore
    <3> QED
      BY <1>3, <1>5, <2>2, <3>2, <3>3
  <2> QED
    BY <1>4, <2>1, <2>2
\* Every flit of the channel is in front of it.
<1>8. ASSUME NEW m, NEW a, NEW k, At(m, a, k), NEW g, g = Held(m, a)[k], SamePair(f, g)
      PROVE  Before(g, f) /\ Ahead(m, a, k, n, LOCAL_PORT, last, f.msg.dst)
  <2>1. /\ m \in Nodes /\ a \in Slots /\ g \in Flits /\ g.msg \in Messages /\ f.msg.dst \in Nodes
        /\ g.msg.src = n /\ g.msg.dst = f.msg.dst
    BY <1>3, <1>8, PlaceFacts, FlitFacts DEF SamePair
  <2>2. Passes(m, a, g.msg) /\ Gone(n, g.msg.num, g.pos)
    BY <1>8, <2>1 DEF OrderInv, Routed
  <2>3. Before(g, f)
    BY <1>3, <2>2 DEF Gone, Before
  <2>4. /\ Rank(m, a, f.msg.dst) <= Rank(n, LOCAL_PORT, f.msg.dst)
        /\ Rank(m, a, f.msg.dst) \in Nat /\ Rank(n, LOCAL_PORT, f.msg.dst) \in Nat
    BY <1>4, <2>1, <2>2, PassesFacts, RankFacts
  <2>5. CASE Rank(m, a, f.msg.dst) = Rank(n, LOCAL_PORT, f.msg.dst)
    <3>1. m = n /\ a = LOCAL_PORT
      BY <1>3, <1>4, <1>5, <2>1, <2>2, <2>5, PassesUnique
    <3> QED
      BY <1>4, <1>8, <2>3, <3>1 DEF Ahead
  <2> QED
    BY <2>3, <2>4, <2>5 DEF Ahead
<1>9. Ordered'
  <2> SUFFICES ASSUME NEW m, NEW a, NEW k, NEW o, NEW c, NEW j, At(m, a, k)', At(o, c, j)',
                      NEW g, g = Held(m, a)'[k], NEW h, h = Held(o, c)'[j], SamePair(g, h)
               PROVE  \/ m = o /\ a = c /\ k = j
                      \/ Before(g, h) /\ Ahead(m, a, k, o, c, j, g.msg.dst)
                      \/ Before(h, g) /\ Ahead(o, c, j, m, a, k, g.msg.dst)
    BY DEF Ordered, InOrder, SamePair, Before, Ahead
  <2>1. CASE At(m, a, k) /\ g = Held(m, a)[k] /\ At(o, c, j) /\ h = Held(o, c)[j]
    BY <2>1 DEF OrderInv, Ordered, InOrder
  <2>2. CASE At(m, a, k) /\ g = Held(m, a)[k] /\ o = n /\ c = LOCAL_PORT /\ j = last /\ h = f
    BY <1>8, <2>2 DEF SamePair
  <2>3. CASE m = n /\ a = LOCAL_PORT /\ k = last /\ g = f /\ At(o, c, j) /\ h = Held(o, c)[j]
    BY <1>8, <2>3
  <2> QED
    BY <1>4, <2>1, <2>2, <2>3
<1>10. NoneLost'
  <2> SUFFICES ASSUME NEW m \in Messages, NEW pos \in Nat, pos <= m.size + 1,
                      Gone(m.src, m.num, pos)', m \notin Arrived
               PROVE  Lands([msg |-> m, pos |-> pos])
    BY <1>6 DEF NoneLost, Lands
  <2>1. CASE Gone(m.src, m.num, pos)
    BY <1>4, <2>1 DEF OrderInv, NoneLost, Lands
  <2>2. CASE [msg |-> m, pos |-> pos] = f
    BY <1>4, <2>2 DEF Lands
  <2> QED
    BY <1>1, <2>1, <2>2, GoneNext
<1>11. SentBefore'
  <2>1. ASSUME NEW x \in Arrived PROVE x.num < nextPkt'[x.src]
    <3>1. x.num < nextPkt[x.src]
      BY DEF OrderInv, SentBefore
    <3>2. x \in Messages
      BY DEF Arrived, Delivered, TypeOK
    <3>3. x.num \in Nat /\ x.src \in Nodes
      BY <3>2, MessageIdentity
    <3> QED
      BY <1>1, <1>3, <3>1, <3>3, PushedFacts
  <2> QED
    BY <1>6, <2>1 DEF SentBefore
<1> QED
  BY <1>6, <1>7, <1>9, <1>10, <1>11 DEF OrderInv

-----------------------------------------------------------------------------
(***************************************************************************)
(* The theorems.                                                           *)
(***************************************************************************)
LEMMA InitOrder ==
    ASSUME Init
    PROVE  OrderInv /\ Arrived = {}
<1>1. Arrived = {}
  BY DEF Init, Arrived, Delivered
<1>2. ASSUME NEW n, NEW a, NEW k, At(n, a, k) PROVE FALSE
  <2>1. n \in Nodes /\ a \in Slots /\ k \in 1 .. Len(Held(n, a))
    BY <1>2 DEF At
  <2>2. Held(n, a) = << >>
    BY <2>1 DEF Init, Held
  <2> QED
    BY <2>1, <2>2
<1>3. ASSUME NEW m \in Messages, NEW pos \in Nat PROVE ~ Gone(m.src, m.num, pos)
  BY MessageIdentity DEF Init, Gone
<1> QED
  BY <1>1, <1>2, <1>3 DEF OrderInv, Routed, Ordered, NoneLost, SentBefore

\* Flits of a packet stay in order, and packets of a channel too, on every route
\* of every mesh, and none of them is lost: the invariant of the refinement.
THEOREM OrderInvariance == Spec => []OrderInv
<1>1. Init => OrderInv
  BY InitOrder
<1>2. IInv /\ OrderInv /\ [Next]_vars => OrderInv'
  <2> SUFFICES ASSUME IInv, OrderInv, [Next]_vars PROVE OrderInv'
    OBVIOUS
  <2>1. TypeOK
    BY DEF IInv
  <2>2. PICK lo \in Links : MeshInv(lo)
    BY DEF IInv
  <2>3. CASE UNCHANGED vars
    <3>1. UNCHANGED <<ib, ni, inbox, received, nextPkt, nextPos>>
      BY <2>3 DEF vars, netVars, niVars
    <3>2. Arrived' = Arrived
      BY <3>1 DEF Arrived, Delivered
    <3>3. \A n, a : Held(n, a)' = Held(n, a)
      BY <3>1 DEF Held
    <3>4. \A n, a, k : At(n, a, k)' <=> At(n, a, k)
      BY <3>3 DEF At
    <3>5. Routed'
      BY <3>1, <3>2, <3>3, <3>4 DEF OrderInv, Routed, Gone
    <3>6. Ordered'
      BY <3>3, <3>4 DEF OrderInv, Ordered, InOrder, SamePair, Before, Ahead
    <3>7. NoneLost'
      BY <3>1, <3>2, <3>3, <3>4 DEF OrderInv, NoneLost, Gone
    <3>8. SentBefore'
      BY <3>1, <3>2 DEF OrderInv, SentBefore
    <3> QED
      BY <3>5, <3>6, <3>7, <3>8 DEF OrderInv
  <2>4. ASSUME NEW n \in Nodes, RunRouter(n) PROVE OrderInv'
    BY <2>1, <2>2, <2>4, RunOrder
  <2>5. ASSUME NEW n \in Nodes, Inject(n) PROVE OrderInv'
    BY <2>1, <2>2, <2>5, InjectOrder
  <2>6. ASSUME NEW n \in Nodes, Consume(n) PROVE OrderInv'
    BY <2>1, <2>2, <2>6, ConsumeOrder
  <2> QED
    BY <2>3, <2>4, <2>5, <2>6 DEF Next
<1> QED
  BY <1>1, <1>2, Invariance, PTL DEF Spec

\* The first beg[s] packets of every node s.
LEMMA FirstPackets ==
    ASSUME NEW beg, \A s \in Nodes : beg[s] \in Nat /\ beg[s] <= Len(Traffic[s]),
           NEW D, D = UNION {{Message(s, k) : k \in 1 .. beg[s]} : s \in Nodes}
    PROVE  \A m : m \in D <=> m \in Messages /\ m.num <= beg[m.src]
<1>1. ASSUME NEW m, m \in D
      PROVE  m \in Messages /\ m.num <= beg[m.src]
  <2>1. PICK s \in Nodes : \E k \in 1 .. beg[s] : m = Message(s, k)
    BY <1>1
  <2>2. PICK k \in 1 .. beg[s] : m = Message(s, k)
    BY <2>1
  <2>3. k \in 1 .. Len(Traffic[s])
    BY TrafficAssumption, LenProperties
  <2>4. m \in Messages /\ m.src = s /\ m.num = k
    BY <2>2, <2>3 DEF Messages, Message
  <2> QED
    BY <2>4
<1>2. ASSUME NEW m \in Messages, m.num <= beg[m.src]
      PROVE  m \in D
  <2>1. /\ m.src \in Nodes /\ m.num \in 1 .. Len(Traffic[m.src]) /\ m = Message(m.src, m.num)
    BY MessageIdentity
  <2>2. m.num \in 1 .. beg[m.src]
    BY <1>2, <2>1
  <2>3. m \in {Message(m.src, k) : k \in 1 .. beg[m.src]}
    BY <2>1, <2>2
  <2> QED
    BY <2>1, <2>3
<1> QED
  BY <1>1, <1>2

\* The packets that have departed, by their numbers.
LEMMA DepartedFacts ==
    ASSUME TypeOK, NEW lo \in Links, MeshInv(lo), OrderInv
    PROVE  /\ \A s \in Nodes : Begun(s) \in Nat /\ Begun(s) <= Len(Traffic[s])
           /\ \A m : m \in Departed <=> m \in Messages /\ m.num <= Begun(m.src)
           /\ Arrived \subseteq Departed
<1>1. ASSUME NEW s \in Nodes
      PROVE  Begun(s) \in Nat /\ Begun(s) <= Len(Traffic[s])
  <2>1. /\ nextPkt[s] \in Nat \ {0} /\ nextPos[s] \in Nat /\ nextPkt[s] <= Len(Traffic[s]) + 1
        /\ Len(Traffic[s]) \in Nat /\ Pushing(s) \in Expect
    BY TrafficAssumption, LenProperties DEF TypeOK, MeshInv, NodeInv
  <2>2. CASE nextPos[s] = 0
    BY <2>1, <2>2 DEF Begun
  <2>3. CASE nextPos[s] # 0
    <3> DEFINE m == Message(s, nextPkt[s])
    <3>1. Pushing(s) = [msg |-> m, pos |-> nextPos[s]]
      BY <2>3 DEF Pushing
    <3>2. Pushing(s).pos = nextPos[s] /\ Pushing(s).msg = m
      BY <3>1
    <3>3. m \in Messages
      BY <2>1, <2>3, <3>2 DEF Expect, Flits, Start
    <3>4. m.src = s /\ m.num = nextPkt[s]
      BY DEF Message
    <3> QED
      BY <2>1, <2>3, <3>3, <3>4, MessageIdentity DEF Begun
  <2> QED
    BY <2>2, <2>3
<1>2. \A m : m \in Departed <=> m \in Messages /\ m.num <= Begun(m.src)
  <2> DEFINE beg == [s \in Nodes |-> Begun(s)]
  <2>1. \A s \in Nodes : beg[s] = Begun(s)
    OBVIOUS
  <2>2. Departed = UNION {{Message(s, k) : k \in 1 .. beg[s]} : s \in Nodes}
    BY DEF Departed
  <2> HIDE DEF beg
  <2>3. \A m : m \in Departed <=> m \in Messages /\ m.num <= beg[m.src]
    BY <1>1, <2>1, <2>2, FirstPackets
  <2> QED
    BY <2>1, <2>3, MessageIdentity
<1>3. ASSUME NEW m \in Arrived
      PROVE  m \in Departed
  <2>1. m \in Messages
    BY DEF Arrived, Delivered, TypeOK
  <2>2. m.num < nextPkt[m.src] /\ m.src \in Nodes /\ m.num \in Nat
    BY <2>1, MessageIdentity DEF OrderInv, SentBefore
  <2>3. m.num <= Begun(m.src)
    BY <2>2 DEF Begun, TypeOK
  <2> QED
    BY <1>2, <2>1, <2>3
<1> QED
  BY <1>1, <1>2, <1>3

LEMMA PromiseFacts ==
    /\ Promise!Got = Arrived
    /\ \A m : Promise!Send(m) <=>
          /\ \A k \in (Departed \ Arrived) \cup Arrived : k # m /\ ~ Promise!Precedes(m, k)
          /\ Departed' \ Arrived' = (Departed \ Arrived) \cup {m}
          /\ received' = received
    /\ \A m : Promise!Deliver(m) <=>
          /\ m \in Departed \ Arrived
          /\ \A k \in Departed \ Arrived : ~ Promise!Precedes(k, m)
          /\ Departed' \ Arrived' = (Departed \ Arrived) \ {m}
          /\ received' = [received EXCEPT ![m.dst] = Append(received[m.dst], m)]
    /\ \A m, k : Promise!Precedes(m, k) <=> m.src = k.src /\ m.dst = k.dst /\ m.num < k.num
<1>1. Promise!Got = Arrived
  BY DEF Promise!Got, Arrived, Delivered
<1> QED
  BY <1>1 DEF Promise!Send, Promise!Deliver, Promise!Precedes

\* The first flit of a packet is Send.
LEMMA InjectSends ==
    ASSUME TypeOK, NEW lo \in Links, MeshInv(lo), OrderInv, NEW n \in Nodes, Inject(n)
    PROVE  \/ \E m \in Messages : Promise!Send(m)
           \/ UNCHANGED <<Departed \ Arrived, received>>
<1> DEFINE m == Pushed(n).msg
<1>1. /\ m \in Messages /\ m.src = n /\ m.num = nextPkt[n] /\ m.size \in Nat
      /\ nextPkt[n] \in Nat /\ nextPos[n] \in Nat
      /\ nextPkt'[n] = IF nextPos[n] = m.size + 1 THEN nextPkt[n] + 1 ELSE nextPkt[n]
      /\ nextPos'[n] = IF nextPos[n] = m.size + 1 THEN 0 ELSE nextPos[n] + 1
      /\ \A s \in Nodes : s # n => nextPkt'[s] = nextPkt[s] /\ nextPos'[s] = nextPos[s]
  BY PushedFacts
<1>2. Arrived' = Arrived /\ received' = received
  BY InjectOrder DEF Inject
<1>3. /\ \A s \in Nodes : Begun(s) \in Nat /\ Begun(s) <= Len(Traffic[s])
      /\ \A k : k \in Departed <=> k \in Messages /\ k.num <= Begun(k.src)
      /\ Arrived \subseteq Departed
  BY DepartedFacts
<1>4. \A s \in Nodes : s # n => Begun(s)' = Begun(s)
  BY <1>1 DEF Begun
<1>5. /\ nextPos[n] = 0 => Begun(n) = nextPkt[n] - 1 /\ Begun(n)' = nextPkt[n]
      /\ nextPos[n] # 0 => Begun(n)' = Begun(n)
  BY <1>1 DEF Begun
<1>6. \A k : k \in Departed' <=> k \in Messages /\ k.num <= Begun(k.src)'
  <2> DEFINE beg == [s \in Nodes |-> Begun(s)']
  <2>1. \A s \in Nodes : beg[s] = Begun(s)'
    OBVIOUS
  <2>2. Departed' = UNION {{Message(s, k) : k \in 1 .. beg[s]} : s \in Nodes}
    BY DEF Departed, Message
  <2> HIDE DEF beg
  <2>3. \A s \in Nodes : beg[s] \in Nat /\ beg[s] <= Len(Traffic[s])
    <3>1. nextPkt[n] <= Len(Traffic[n])
      BY DEF Inject
    <3> QED
      BY <1>1, <1>3, <1>4, <1>5, <2>1, <3>1
  <2>4. \A k : k \in Departed' <=> k \in Messages /\ k.num <= beg[k.src]
    BY <2>2, <2>3, FirstPackets
  <2> QED
    BY <2>1, <2>4, MessageIdentity
<1> HIDE DEF m
<1>7. CASE nextPos[n] = 0
  <2>1. Begun(n) = nextPkt[n] - 1 /\ Begun(n)' = nextPkt[n]
    BY <1>5, <1>7
  <2>2. ASSUME NEW k \in Messages, k.num <= Begun(k.src)', ~ (k.num <= Begun(k.src)) PROVE k = m
    <3>1. k.src \in Nodes /\ k.num \in Nat
      BY MessageIdentity
    <3>2. k.src = n
      BY <1>4, <2>2, <3>1
    <3>3. k.num = nextPkt[n]
      BY <1>1, <2>1, <2>2, <3>1, <3>2
    <3> QED
      BY <1>1, <3>2, <3>3, MessageIdentity
  <2>3. \A k : k \in Departed' <=> (k \in Departed \/ k = m)
    <3>1. ASSUME NEW k \in Departed PROVE k \in Departed'
      <4>1. k \in Messages /\ k.num <= Begun(k.src) /\ k.src \in Nodes /\ k.num \in Nat
        BY <1>3, MessageIdentity
      <4>2. Begun(k.src) <= Begun(k.src)'
        BY <1>1, <1>3, <1>4, <2>1, <4>1
      <4>3. k.num <= Begun(k.src)'
        <5>1. k.src = n => Begun(k.src)' = nextPkt[n]
          BY <2>1
        <5>2. Begun(k.src) \in Nat /\ Begun(k.src)' \in Int
          BY <1>1, <1>3, <1>4, <4>1, <5>1
        <5> QED
          BY <4>1, <4>2, <5>2
      <4> QED
        BY <1>6, <4>1, <4>3
    <3>2. m \in Departed'
      BY <1>1, <1>6, <2>1
    <3>3. ASSUME NEW k, k \in Departed', k # m PROVE k \in Departed
      BY <1>3, <1>6, <2>2, <3>3
    <3> QED
      BY <3>1, <3>2, <3>3
  <2>4. m \notin Departed
    BY <1>1, <1>3, <2>1
  <2>5. ASSUME NEW k \in Departed PROVE k # m /\ ~ Promise!Precedes(m, k)
    <3>1. k \in Messages /\ k.num <= Begun(k.src) /\ k.num \in Nat
      BY <1>3, MessageIdentity
    <3>2. ASSUME m.src = k.src, m.num < k.num PROVE FALSE
      BY <1>1, <2>1, <3>1, <3>2
    <3> QED
      BY <2>4, <3>2, PromiseFacts
  <2>6. Departed' \ Arrived' = (Departed \ Arrived) \cup {m}
    BY <1>2, <1>3, <2>3, <2>4
  <2>7. Promise!Send(m)
    BY <1>2, <1>3, <2>5, <2>6, PromiseFacts
  <2> QED
    BY <1>1, <2>7
<1>8. CASE nextPos[n] # 0
  <2>1. Begun(n)' = Begun(n)
    BY <1>5, <1>8
  <2>2. \A s \in Nodes : Begun(s)' = Begun(s)
    BY <1>4, <2>1
  <2>3. \A k : k \in Departed' <=> k \in Departed
    BY <1>3, <1>6, <2>2, MessageIdentity
  <2>4. Departed' = Departed
    BY <2>3
  <2> QED
    BY <1>2, <2>4
<1> QED
  BY <1>7, <1>8

\* The last flit of a packet is Deliver.
LEMMA ConsumeDelivers ==
    ASSUME TypeOK, NEW lo \in Links, MeshInv(lo), OrderInv, NEW n \in Nodes, Consume(n)
    PROVE  \/ \E m \in Messages : Promise!Deliver(m)
           \/ UNCHANGED <<Departed \ Arrived, received>>
<1> DEFINE f == ni[n][1]
           m == f.msg
<1>1. Departed' = Departed
  BY DEF Consume, Departed, Begun, Message
<1>2. /\ At(n, NI, 1) /\ Held(n, NI)[1] = f /\ f \in Flits /\ m \in Messages /\ m.dst = n
      /\ f.pos <= m.size + 1 /\ Gone(m.src, m.num, f.pos)
      /\ Held(n, INBOX) = inbox[n]
  BY TakeFacts
<1>3. /\ \A k : k \in Departed <=> k \in Messages /\ k.num <= Begun(k.src)
      /\ Arrived \subseteq Departed
      /\ \A s \in Nodes : Begun(s) \in Nat
  BY DepartedFacts
<1>4. m.src \in Nodes /\ m.num \in Nat /\ nextPkt[m.src] \in Nat /\ nextPos[m.src] \in Nat
  BY <1>2, MessageIdentity DEF TypeOK
<1> HIDE DEF f
<1>5. CASE inbox'[n] = Append(inbox[n], f) /\ received'[n] = received[n]
  <2>1. received' = received
    BY <1>5 DEF Consume, TypeOK
  <2>2. Arrived' = Arrived
    BY <2>1 DEF Arrived, Delivered
  <2> QED
    BY <1>1, <2>1, <2>2
<1>6. CASE /\ received'[n] = Append(received[n], m)
           /\ \A k \in 1 .. Len(inbox[n]) : inbox[n][k].msg = m
  <2>1. Arrived' = Arrived \cup {m}
    BY <1>2, <1>6, Arrives
  <2>2. received' = [received EXCEPT ![m.dst] = Append(received[m.dst], m)]
    BY <1>2, <1>6 DEF Consume, TypeOK
  <2>3. m \in Departed
    <3>1. m.num <= Begun(m.src)
      <4>1. f.pos \in Nat
        BY <1>2, FlitFacts
      <4> QED
        BY <1>2, <1>4, <4>1 DEF Gone, Begun
    <3> QED
      BY <1>2, <1>3, <3>1
  <2>4. m \notin Arrived
    <3>1. \A k \in Arrived : k.src = m.src /\ k.dst = m.dst => k.num < m.num
      BY <1>2 DEF OrderInv, Routed
    <3> QED
      BY <1>4, <3>1
  <2>5. ASSUME NEW k \in Departed \ Arrived, k.src = m.src, k.dst = m.dst, k.num < m.num
        PROVE  FALSE
    <3>1. k \in Messages /\ k.num \in Nat /\ k.size \in Nat
      BY <1>3, MessageIdentity
    <3>2. Gone(k.src, k.num, k.size + 1)
      <4>1. k.num < nextPkt[k.src]
        BY <1>2, <1>4, <2>5, <3>1 DEF Gone
      <4> QED
        BY <4>1 DEF Gone
    <3>3. k.size + 1 \in Nat /\ k.size + 1 <= k.size + 1
      BY <3>1
    <3>4. PICK o, c, j : At(o, c, j) /\ Held(o, c)[j] = [msg |-> k, pos |-> k.size + 1]
      BY <2>5, <3>1, <3>2, <3>3 DEF OrderInv, NoneLost
    <3>5. Held(o, c)[j].msg = k
      BY <3>4
    <3>6. InOrder(n, NI, 1, o, c, j)
      BY <1>2, <3>4 DEF OrderInv, Ordered
    <3>7. /\ m # k /\ ~ Before(f, Held(o, c)[j]) /\ SamePair(f, Held(o, c)[j])
          /\ ~ (n = o /\ NI = c /\ 1 = j)
      BY <1>2, <1>4, <2>5, <3>1, <3>5 DEF Before, SamePair
    <3>8. Ahead(o, c, j, n, NI, 1, n)
      BY <1>2, <3>6, <3>7 DEF InOrder
    <3>9. o = n /\ c = INBOX
      BY <1>2, <2>5, <3>4, <3>5, <3>8, InFront
    <3>10. j \in 1 .. Len(inbox[n]) /\ inbox[n][j].msg = k
      BY <1>2, <3>4, <3>5, <3>9 DEF At
    <3> QED
      BY <1>6, <3>7, <3>10
  <2>6. \A k \in Departed \ Arrived : ~ Promise!Precedes(k, m)
    BY <2>5, PromiseFacts
  <2>7. Departed' \ Arrived' = (Departed \ Arrived) \ {m}
    BY <1>1, <2>1
  <2>8. Promise!Deliver(m)
    BY <2>2, <2>3, <2>4, <2>6, <2>7, PromiseFacts
  <2> QED
    BY <1>2, <2>8
<1>7. NodeInv(lo, n)
  BY DEF MeshInv
<1> QED
  BY <1>5, <1>6, <1>7, ConsumeFacts DEF f

\* The mesh keeps its promise whatever its size, buffers and traffic: flits,
\* crossbars and cycles implement channels that lose, duplicate, tear or reorder
\* no packet (TRouter::Run, UBuffer::push and pop, the wiring of main()).
THEOREM ImplementsChannels == Spec => ChannelsSpec
<1>1. Init => Promise!Init
  <2> SUFFICES ASSUME Init PROVE Promise!Init
    OBVIOUS
  <2>1. Departed = {}
    <3>1. \A s \in Nodes : Begun(s) = 0
      BY DEF Init, Begun
    <3>2. \A s \in Nodes : 1 .. Begun(s) = {}
      BY <3>1
    <3> QED
      BY <3>2 DEF Departed
  <2>2. received = [d \in Nodes |-> << >>]
    BY DEF Init
  <2> QED
    BY <2>1, <2>2 DEF Promise!Init
<1>2. IInv /\ OrderInv /\ [Next]_vars
        => [Promise!Next]_<<Departed \ Arrived, received>>
  <2> SUFFICES ASSUME IInv, OrderInv, [Next]_vars
               PROVE  \/ \E m \in Messages : Promise!Send(m) \/ Promise!Deliver(m)
                      \/ UNCHANGED <<Departed \ Arrived, received>>
    BY DEF Promise!Next
  <2>1. TypeOK
    BY DEF IInv
  <2>2. PICK lo \in Links : MeshInv(lo)
    BY DEF IInv
  <2>3. CASE UNCHANGED vars
    BY <2>3 DEF vars, netVars, niVars, Departed, Begun, Arrived, Delivered, Message
  <2>4. ASSUME NEW n \in Nodes, RunRouter(n)
        PROVE  UNCHANGED <<Departed \ Arrived, received>>
    BY <2>4 DEF RunRouter, niVars, Departed, Begun, Arrived, Delivered, Message
  <2>5. ASSUME NEW n \in Nodes, Inject(n)
        PROVE  \/ \E m \in Messages : Promise!Send(m)
               \/ UNCHANGED <<Departed \ Arrived, received>>
    BY <2>1, <2>2, <2>5, InjectSends
  <2>6. ASSUME NEW n \in Nodes, Consume(n)
        PROVE  \/ \E m \in Messages : Promise!Deliver(m)
               \/ UNCHANGED <<Departed \ Arrived, received>>
    BY <2>1, <2>2, <2>6, ConsumeDelivers
  <2> QED
    BY <2>3, <2>4, <2>5, <2>6 DEF Next
<1> QED
  BY <1>1, <1>2, Invariance, OrderInvariance, PTL DEF Spec, ChannelsSpec, Promise!Spec

\* The mesh comes to rest only when it has done its work: in a mesh that stands
\* still, each packet that has left its node, even in part, has been received whole.
\* Deadlock is excluded by dimension order, loss by the order on every link.
THEOREM StillIsDone == Spec => [](Still => Departed = Arrived)
<1>1. ASSUME IInv, OrderInv, Still
      PROVE  Departed = Arrived
  <2>1. TypeOK /\ Empty
    BY <1>1, StillIsEmpty DEF IInv
  <2>2. PICK lo \in Links : MeshInv(lo)
    BY <1>1 DEF IInv
  <2>3. \A m : m \in Departed <=> m \in Messages /\ m.num <= Begun(m.src)
    BY <1>1, <2>1, <2>2, DepartedFacts
  <2>4. Arrived \subseteq Departed
    BY <1>1, <2>1, <2>2, DepartedFacts
  <2>5. ASSUME NEW m \in Departed
        PROVE  m \in Arrived
    <3>1. m \in Messages /\ m.num <= Begun(m.src) /\ m.src \in Nodes /\ m.num \in Nat
      BY <2>3, <2>5, MessageIdentity
    <3>2. Gone(m.src, m.num, 0)
      BY <2>1, <3>1 DEF Gone, Begun, Empty, TypeOK
    <3>3. ASSUME NEW n, NEW a, NEW k, At(n, a, k)
          PROVE  FALSE
      <4>1. n \in Nodes /\ a \in Slots /\ k \in Nat \ {0} /\ k <= Len(Held(n, a))
        BY <2>1, <3>3, PlaceFacts
      <4>2. Held(n, a) = << >>
        BY <1>1, <2>1, <4>1 DEF Held, Empty, Still
      <4> QED
        BY <4>1, <4>2
    <3>4. 0 \in Nat /\ 0 <= m.size + 1
      BY <3>1, MessageIdentity
    <3> QED
      BY <1>1, <3>1, <3>2, <3>3, <3>4 DEF OrderInv, NoneLost
  <2> QED
    BY <2>4, <2>5
<1> QED
  BY <1>1, Invariance, OrderInvariance, PTL
=============================================================================

------------------------------ MODULE Channels ------------------------------
(***************************************************************************)
(* What the network on chip promises to the tiles: every packet sent gets  *)
(* to its destination whole and once, and the packets of one node to       *)
(* another in the order they were sent.  Nothing is said of packets of     *)
(* different sources, nor of how long one travels.                         *)
(***************************************************************************)
EXTENDS Integers, Sequences

CONSTANTS
    Nodes,          \* the tiles
    Messages        \* the packets: records with a src, a dst and a num

VARIABLES
    pending,        \* packets on their way
    received        \* received[d]: packets d has got, in order

\* m is for the same channel as k, and goes first.
Precedes(m, k) == m.src = k.src /\ m.dst = k.dst /\ m.num < k.num

Got == UNION {{received[d][k] : k \in DOMAIN received[d]} : d \in Nodes}

Init ==
    /\ pending = {}
    /\ received = [d \in Nodes |-> << >>]

Send(m) ==
    /\ \A k \in pending \cup Got : k # m /\ ~Precedes(m, k)
    /\ pending' = pending \cup {m}
    /\ UNCHANGED received

Deliver(m) ==
    /\ m \in pending
    /\ \A k \in pending : ~Precedes(k, m)
    /\ pending' = pending \ {m}
    /\ received' = [received EXCEPT ![m.dst] = Append(@, m)]

Next == \E m \in Messages : Send(m) \/ Deliver(m)

Spec == Init /\ [][Next]_<<pending, received>>
=============================================================================

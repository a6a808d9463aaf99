---------------------------- MODULE VirtualClock ----------------------------
(***************************************************************************)
(* What the simulator promises to the hardware models: one unbounded clock *)
(* that executes, at each step, a model whose turn has come before that of *)
(* every other.  There are no epochs here, and no time but the distance    *)
(* between the models, which is all that a model can tell.                 *)
(***************************************************************************)
EXTENDS Integers

CONSTANTS
    Models,         \* the scheduled TimedModels
    First,          \* First[m]: the cycle m is scheduled to start at
    Costs           \* Costs[m]: what m.Run() may return

VARIABLE lead       \* lead[m][n]: by how many cycles m's next turn is after n's

Init == lead = [m \in Models |-> [n \in Models |-> First[m] - First[n]]]

\* The lead of a over b when m advances by c cycles.
Advanced(l, a, b, m, c) ==
    IF a = b THEN l ELSE IF a = m THEN l + c ELSE IF b = m THEN l - c ELSE l

Tick(m) ==
    /\ \A n \in Models : lead[m][n] <= 0
    /\ \E c \in Costs[m] :
          lead' = [a \in Models |-> [b \in Models |-> Advanced(lead[a][b], a, b, m, c)]]

Next == \E m \in Models : Tick(m)

Spec == Init /\ [][Next]_lead
=============================================================================

----------------------------- MODULE Simulator -----------------------------
(***************************************************************************)
(* The discrete event simulator (class Simulator) and the loop of main()   *)
(* that drives it.  The event queue holds one event per hardware model.    *)
(* Run executes events until the time of the last one exceeds the epoch,   *)
(* NextEpoch moves all events back by the time that has passed, so that    *)
(* times stay small, and main() repeats until the user interrupts it or    *)
(* the configured number of epochs is over.                                *)
(***************************************************************************)
EXTENDS Integers

CONSTANTS
    Models,         \* the scheduled TimedModels
    First,          \* First[m]: the cycle m is scheduled to start at
    Costs,          \* Costs[m]: what m.Run() may return
    EpochLength,    \* ORCA_EPOCH_LENGTH
    EpochsToSim,    \* ORCA_EPOCHS_TO_SIM; 0 stands for INF
    EpochsMod,      \* values of _epochs (2^64, as uint64_t)
    MaxCost         \* bound of First and Costs

ASSUME EpochAssumption ==
    EpochLength \in Nat /\ EpochsToSim \in Nat /\ EpochsMod \in Nat \ {0}
ASSUME MaxCostAssumption == MaxCost \in Nat \ {0}
ASSUME ScheduleAssumption ==
    /\ First \in [Models -> 1 .. MaxCost]
    /\ Costs \in [Models -> SUBSET (1 .. MaxCost)]

VARIABLES
    mode,           \* where main() is: "head", "run", "epoch" or "done"
    queue,          \* _queue: the time of each model's event
    globalTime,     \* _globalTime
    epochs,         \* _epochs
    interruption,   \* set by the SIGINT handler
    last            \* history: the model executed last

vars == <<mode, queue, globalTime, epochs, interruption, last>>

NoModel == "none"

Init ==
    /\ mode = "head"
    /\ queue = First
    /\ globalTime = 0
    /\ epochs = 0
    /\ interruption = 0
    /\ last = NoModel

MutKeepGoing(i) == TRUE
KeepGoing(i) == i = 0

\* while(!interruption): enter Run, which resets the clock, or leave.
Head ==
    /\ mode = "head"
    /\ IF KeepGoing(interruption)
       THEN mode' = "run" /\ globalTime' = 0
       ELSE mode' = "done" /\ UNCHANGED globalTime
    /\ UNCHANGED <<queue, epochs, interruption, last>>

\* The queue orders events by time only: among equal times any may be on top.
MutAnyOnTop(q, m) == TRUE
OnTop(q, m) == \A n \in Models : q[m] <= q[n]

MutTimeOfLate(t, c) == t
NextTime(t, c) == t + c

EpochNotOver(t) == t <= EpochLength

\* One iteration of Run: pop the next event, execute the model, push it back.
Execute(m) ==
    /\ mode = "run"
    /\ EpochNotOver(globalTime)
    /\ OnTop(queue, m)
    /\ globalTime' = queue[m]
    /\ \E c \in Costs[m] : queue' = [queue EXCEPT ![m] = NextTime(@, c)]
    /\ last' = m
    /\ UNCHANGED <<mode, epochs, interruption>>

\* The model throws: main() catches the exception outside of its loop and goes
\* on to print the statistics; the event, popped, is never looked at again.
ExecuteThrows(m) ==
    /\ mode = "run"
    /\ EpochNotOver(globalTime)
    /\ OnTop(queue, m)
    /\ globalTime' = queue[m]
    /\ mode' = "done"
    /\ last' = m
    /\ UNCHANGED <<queue, epochs, interruption>>

\* The last event executed was past the end of the epoch: Run returns.
Return ==
    /\ mode = "run"
    /\ ~ EpochNotOver(globalTime)
    /\ mode' = "epoch"
    /\ UNCHANGED <<queue, globalTime, epochs, interruption, last>>

MutDiscountWhole(t) == t
Discount(t) == t - 1

MutNoRebase(q, d) == q
MutRebaseDueOnly(q, d) == [m \in Models |-> IF q[m] > d + 1 THEN q[m] ELSE q[m] - d]
Rebase(q, d) == [m \in Models |-> q[m] - d]

MutIsLastEpoch(e) == FALSE
IsLastEpoch(e) == EpochsToSim # 0 /\ e >= EpochsToSim

\* NextEpoch, and the check of main() that follows it.
NextEpoch ==
    /\ mode = "epoch"
    /\ queue' = Rebase(queue, Discount(globalTime))
    /\ epochs' = (epochs + 1) % EpochsMod
    /\ mode' = IF IsLastEpoch(epochs') THEN "done" ELSE "head"
    /\ UNCHANGED <<globalTime, interruption, last>>

\* sig_handler: the first SIGINT asks for the end, the second ends the process.
Interrupt ==
    /\ mode # "done"
    /\ IF interruption = 0
       THEN interruption' = 1 /\ UNCHANGED mode
       ELSE mode' = "done" /\ UNCHANGED interruption
    /\ UNCHANGED <<queue, globalTime, epochs, last>>

Step ==
    \/ Head
    \/ \E m \in Models : Execute(m)
    \/ Return
    \/ NextEpoch

Next ==
    \/ Step
    \/ \E m \in Models : ExecuteThrows(m)
    \/ Interrupt

Spec == Init /\ [][Next]_vars

(***************************************************************************)
(* The simulation thread never waits for anything.  Nobody has to press    *)
(* CTRL+C.                                                                 *)
(***************************************************************************)
FairSpec == Spec /\ WF_vars(Step)

-----------------------------------------------------------------------------
(***************************************************************************)
(* Properties.                                                             *)
(***************************************************************************)
\* Event times are at least 1 at all times: the unsigned subtraction of
\* NextEpoch never wraps, and no event is in the past of the next Run.
TypeOK ==
    /\ mode \in {"head", "run", "epoch", "done"}
    /\ queue \in [Models -> Nat \ {0}]
    /\ globalTime \in Nat
    /\ epochs \in 0 .. EpochsMod - 1
    /\ interruption \in {0, 1}
    /\ last \in Models \cup {NoModel}

\* No event is left behind the clock, so that NextEpoch's discount is never
\* more than any event's time (Simulator.cpp:82-95).
NothingOverdue ==
    /\ mode \in {"run", "epoch"} => \A m \in Models : globalTime <= queue[m]
    /\ mode = "epoch" => globalTime >= 1

\* Models advance together: at no time is one more than its own step ahead of
\* another, across any number of epochs.
BoundedSkew == \A m, n \in Models : queue[m] <= queue[n] + MaxCost

\* Rebasing keeps times within one epoch and two steps, one by which the last event
\* executed is past the epoch's end and one to the next: they never reach the limit
\* of SimulationTime however long the simulation runs (Simulator.cpp:34, 82-95).
BoundedTimes == \A m \in Models : queue[m] <= EpochLength + 2 * MaxCost

IInv == TypeOK /\ NothingOverdue /\ BoundedSkew

\* No model is ever forgotten: each keeps being executed until main() ends.
EveryModelRuns == \A m \in Models : []<>(last = m \/ mode = "done")

\* "Wait for the current epoch to finish": after CTRL+C the loop comes to its
\* end (Orca.cpp:63, 323).
InterruptEnds == (interruption = 1) ~> (mode = "done")

\* The configured number of epochs is never exceeded (Orca.cpp:340-344).
EpochsLimited ==
    EpochsToSim # 0 =>
        (epochs < EpochsToSim \/ (epochs = EpochsToSim /\ mode = "done"))

(***************************************************************************)
(* To the models, epochs are invisible: the simulator executes them as one *)
(* clock that is never rebased would.                                      *)
(***************************************************************************)
Lead == [m \in Models |-> [n \in Models |-> queue[m] - queue[n]]]
Clock == INSTANCE VirtualClock WITH lead <- Lead
ClockSpec == Clock!Spec
=============================================================================

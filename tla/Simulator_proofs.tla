-------------------------- MODULE Simulator_proofs --------------------------
(***************************************************************************)
(* The simulator for every set of models, schedule and epoch length: times *)
(* never wrap and stay bounded, models stay together, and epochs are       *)
(* invisible to them.                                                      *)
(***************************************************************************)
EXTENDS Simulator, TLAPS

LEMMA CostFacts ==
    ASSUME NEW m \in Models, NEW c \in Costs[m]
    PROVE  c \in 1 .. MaxCost
BY ScheduleAssumption

LEMMA InitIInv == Init => IInv
<1> SUFFICES ASSUME Init PROVE IInv
  OBVIOUS
<1>1. queue \in [Models -> 1 .. MaxCost]
  BY ScheduleAssumption DEF Init
<1>2. TypeOK /\ NothingOverdue
  BY <1>1, EpochAssumption, MaxCostAssumption DEF Init, TypeOK, NothingOverdue
<1>3. BoundedSkew
  BY <1>1, MaxCostAssumption DEF BoundedSkew
<1> QED
  BY <1>2, <1>3 DEF IInv

LEMMA ExecuteStep ==
    ASSUME IInv, NEW m \in Models, Execute(m)
    PROVE  IInv'
<1> USE DEF IInv
<1>1. PICK c \in Costs[m] :
        /\ queue' = [queue EXCEPT ![m] = @ + c]
        /\ globalTime' = queue[m] /\ mode = "run" /\ last' = m
        /\ \A n \in Models : queue[m] <= queue[n]
        /\ UNCHANGED <<mode, epochs, interruption>>
  BY DEF Execute, NextTime, OnTop
<1>2. c \in 1 .. MaxCost /\ queue \in [Models -> Nat \ {0}]
  BY CostFacts DEF TypeOK
<1>3. \A n \in Models : queue'[n] = IF n = m THEN queue[m] + c ELSE queue[n]
  BY <1>1, <1>2
<1>4. \A n \in Models : queue[n] \in Nat \ {0}
  BY <1>2
<1>5. TypeOK'
  BY <1>1, <1>2, <1>4, MaxCostAssumption DEF TypeOK
<1>6. NothingOverdue'
  BY <1>1, <1>2, <1>3, <1>4, MaxCostAssumption DEF NothingOverdue
<1>7. BoundedSkew'
  <2> SUFFICES ASSUME NEW a \in Models, NEW b \in Models
      PROVE queue'[a] <= queue'[b] + MaxCost
    BY DEF BoundedSkew
  <2>1. queue[m] <= queue[b] /\ queue[a] <= queue[b] + MaxCost
    BY <1>1 DEF BoundedSkew
  <2> QED
    BY <2>1, <1>2, <1>3, <1>4, MaxCostAssumption
<1> QED
  BY <1>5, <1>6, <1>7

LEMMA NextEpochStep ==
    ASSUME IInv, NextEpoch
    PROVE  IInv'
<1> USE DEF IInv
<1>1. /\ mode = "epoch" /\ globalTime \in Nat /\ globalTime >= 1
      /\ queue' = [m \in Models |-> queue[m] - (globalTime - 1)]
      /\ epochs' = (epochs + 1) % EpochsMod
      /\ mode' \in {"done", "head"}
      /\ UNCHANGED <<globalTime, interruption, last>>
  BY DEF NextEpoch, Rebase, Discount, NothingOverdue, TypeOK
<1>2. \A m \in Models : queue[m] \in Nat /\ globalTime <= queue[m]
  BY <1>1 DEF NothingOverdue, TypeOK
<1>3. \A m \in Models : queue'[m] = queue[m] - (globalTime - 1) /\ queue'[m] \in Nat \ {0}
  BY <1>1, <1>2
<1>4. epochs' \in 0 .. EpochsMod - 1
  BY <1>1, EpochAssumption DEF TypeOK
<1>5. TypeOK' /\ NothingOverdue'
  BY <1>1, <1>3, <1>4 DEF TypeOK, NothingOverdue
<1>6. BoundedSkew'
  BY <1>1, <1>2, <1>3, MaxCostAssumption DEF BoundedSkew
<1> QED
  BY <1>5, <1>6

LEMMA OtherSteps ==
    ASSUME IInv, Head \/ Return \/ Interrupt \/ (\E m \in Models : ExecuteThrows(m))
                 \/ UNCHANGED vars
    PROVE  IInv'
<1> USE DEF IInv
<1>1. CASE Head
  BY <1>1 DEF Head, TypeOK, NothingOverdue, BoundedSkew
<1>2. CASE Return
  <2>1. globalTime >= 1
    BY <1>2, EpochAssumption DEF Return, EpochNotOver, TypeOK
  <2> QED
    BY <1>2, <2>1 DEF Return, TypeOK, NothingOverdue, BoundedSkew
<1>3. CASE Interrupt
  BY <1>3 DEF Interrupt, TypeOK, NothingOverdue, BoundedSkew
<1>4. ASSUME NEW m \in Models, ExecuteThrows(m) PROVE IInv'
  BY <1>4 DEF ExecuteThrows, TypeOK, NothingOverdue, BoundedSkew
<1>5. CASE UNCHANGED vars
  BY <1>5 DEF vars, TypeOK, NothingOverdue, BoundedSkew
<1> QED
  BY <1>1, <1>2, <1>3, <1>4, <1>5

LEMMA NextIInv == IInv /\ [Next]_vars => IInv'
BY ExecuteStep, NextEpochStep, OtherSteps DEF Next, Step

\* The inductive invariant holds in every reachable state.
THEOREM Invariance == Spec => []IInv
<1>1. Init => IInv
  BY InitIInv
<1>2. IInv /\ [Next]_vars => IInv'
  BY NextIInv
<1> QED
  BY <1>1, <1>2, PTL DEF Spec

\* Event times stay positive: NextEpoch's unsigned subtraction never wraps
\* (Simulator.cpp:82-95).
THEOREM TypeCorrect == Spec => []TypeOK
<1>1. IInv => TypeOK
  BY DEF IInv
<1> QED
  BY <1>1, Invariance, PTL

\* The clock never overtakes a pending event (Simulator.cpp:34-57, 82).
THEOREM NeverOverdue == Spec => []NothingOverdue
<1>1. IInv => NothingOverdue
  BY DEF IInv
<1> QED
  BY <1>1, Invariance, PTL

\* Models never drift apart by more than one step (Simulator.cpp:44-56).
THEOREM SkewIsBounded == Spec => []BoundedSkew
<1>1. IInv => BoundedSkew
  BY DEF IInv
<1> QED
  BY <1>1, Invariance, PTL

-----------------------------------------------------------------------------
(***************************************************************************)
(* The configured number of epochs, for every number that fits _epochs.    *)
(***************************************************************************)
LEMMA EpochsLimitedStep ==
    ASSUME EpochsToSim < EpochsMod, IInv, EpochsLimited, [Next]_vars
    PROVE  EpochsLimited'
<1> SUFFICES ASSUME EpochsToSim # 0 PROVE EpochsLimited'
  BY DEF EpochsLimited
<1>1. epochs \in Nat /\ EpochsToSim \in Nat /\ EpochsMod \in Nat \ {0}
  BY EpochAssumption DEF IInv, TypeOK
<1>2. epochs < EpochsToSim \/ (epochs = EpochsToSim /\ mode = "done")
  BY DEF EpochsLimited
<1>3. CASE NextEpoch
  <2>1. epochs < EpochsToSim /\ epochs' = (epochs + 1) % EpochsMod
    BY <1>2, <1>3 DEF NextEpoch
  <2>2. epochs' = epochs + 1
    BY <1>1, <2>1
  <2>3. epochs' >= EpochsToSim => mode' = "done"
    BY <1>3 DEF NextEpoch, IsLastEpoch
  <2> QED
    BY <1>1, <2>1, <2>2, <2>3 DEF EpochsLimited
<1>4. CASE Head
  BY <1>2, <1>4 DEF Head, EpochsLimited
<1>5. CASE Return
  BY <1>2, <1>5 DEF Return, EpochsLimited
<1>6. CASE Interrupt
  BY <1>2, <1>6 DEF Interrupt, EpochsLimited
<1>7. ASSUME NEW m \in Models, Execute(m) PROVE EpochsLimited'
  BY <1>2, <1>7 DEF Execute, EpochsLimited
<1>8. ASSUME NEW m \in Models, ExecuteThrows(m) PROVE EpochsLimited'
  BY <1>2, <1>8 DEF ExecuteThrows, EpochsLimited
<1>9. CASE UNCHANGED vars
  BY <1>2, <1>9 DEF vars, EpochsLimited
<1> QED
  BY <1>3, <1>4, <1>5, <1>6, <1>7, <1>8, <1>9 DEF Next, Step

\* The loop of main() never simulates more epochs than configured, if the
\* number fits the counter (Orca.cpp:340-344).
THEOREM EpochsAreLimited == ASSUME EpochsToSim < EpochsMod PROVE Spec => []EpochsLimited
<1>1. Init => EpochsLimited
  BY EpochAssumption DEF Init, EpochsLimited
<1>2. IInv /\ EpochsLimited /\ [Next]_vars => EpochsLimited'
  BY EpochsLimitedStep
<1> QED
  BY <1>1, <1>2, Invariance, PTL DEF Spec

-----------------------------------------------------------------------------
(***************************************************************************)
(* Times stay bounded.  While an epoch runs some event is at most one step *)
(* after the clock, so that none is more than two, and the clock is at     *)
(* most one step past the epoch; NextEpoch brings the earliest event back  *)
(* to the first step.                                                      *)
(***************************************************************************)
Limit == IF mode = "head" THEN MaxCost + 1
         ELSE IF globalTime = 0 THEN MaxCost + 1 ELSE globalTime + MaxCost

Near ==
    /\ mode \in {"run", "epoch"} => globalTime <= EpochLength + MaxCost
    /\ mode # "done" => \E m \in Models : queue[m] <= Limit

TimesInv == IInv /\ BoundedTimes /\ Near

LEMMA InitTimes ==
    ASSUME Models # {}, Init
    PROVE  TimesInv
<1>1. queue \in [Models -> 1 .. MaxCost] /\ globalTime = 0 /\ mode = "head"
  BY ScheduleAssumption DEF Init
<1>2. BoundedTimes /\ Near
  BY <1>1, EpochAssumption, MaxCostAssumption DEF BoundedTimes, Near, Limit
<1> QED
  BY <1>2, InitIInv DEF TimesInv

LEMMA ExecuteTimes ==
    ASSUME EpochLength >= 1, TimesInv, NEW m \in Models, Execute(m)
    PROVE  BoundedTimes' /\ Near'
<1>1. PICK c \in Costs[m] :
        /\ queue' = [queue EXCEPT ![m] = @ + c]
        /\ globalTime' = queue[m] /\ mode = "run" /\ mode' = "run"
        /\ globalTime <= EpochLength
        /\ \A n \in Models : queue[m] <= queue[n]
  BY DEF Execute, NextTime, OnTop, EpochNotOver
<1>2. /\ c \in 1 .. MaxCost /\ queue \in [Models -> Nat \ {0}] /\ globalTime \in Nat
      /\ EpochLength \in Nat /\ MaxCost \in Nat
  BY CostFacts, EpochAssumption, MaxCostAssumption DEF TimesInv, IInv, TypeOK
<1>3. PICK n \in Models : queue[n] <= Limit
  BY <1>1 DEF TimesInv, Near
<1>4. queue[m] <= EpochLength + MaxCost
  <2>1. queue[m] <= Limit /\ Limit <= EpochLength + MaxCost
    BY <1>1, <1>2, <1>3 DEF Limit
  <2> QED
    BY <1>2, <2>1 DEF Limit
<1>5. \A a \in Models : queue'[a] = IF a = m THEN queue[m] + c ELSE queue[a]
  BY <1>1, <1>2
<1>6. BoundedTimes'
  BY <1>2, <1>4, <1>5 DEF BoundedTimes, TimesInv
<1>7. queue'[m] <= Limit'
  BY <1>1, <1>2, <1>5 DEF Limit
<1>8. Near'
  BY <1>1, <1>4, <1>7 DEF Near
<1> QED
  BY <1>6, <1>8

LEMMA NextEpochTimes ==
    ASSUME TimesInv, NextEpoch
    PROVE  BoundedTimes' /\ Near'
<1>1. /\ mode = "epoch" /\ globalTime \in Nat /\ globalTime >= 1
      /\ queue' = [m \in Models |-> queue[m] - (globalTime - 1)]
      /\ mode' \in {"done", "head"}
      /\ queue \in [Models -> Nat \ {0}]
      /\ EpochLength \in Nat /\ MaxCost \in Nat
  BY EpochAssumption, MaxCostAssumption
     DEF NextEpoch, Rebase, Discount, TimesInv, IInv, NothingOverdue, TypeOK
<1>2. \A m \in Models : queue'[m] = queue[m] - (globalTime - 1) /\ queue[m] \in Nat
  BY <1>1
<1>3. BoundedTimes'
  BY <1>1, <1>2 DEF TimesInv, BoundedTimes
<1>4. PICK n \in Models : queue[n] <= Limit
  BY <1>1 DEF TimesInv, Near
<1>5. queue'[n] <= MaxCost + 1
  BY <1>1, <1>2, <1>4 DEF Limit
<1>6. Near'
  BY <1>1, <1>5 DEF Near, Limit
<1> QED
  BY <1>3, <1>6

LEMMA OtherTimes ==
    ASSUME TimesInv, Head \/ Return \/ Interrupt \/ (\E m \in Models : ExecuteThrows(m))
                     \/ UNCHANGED vars
    PROVE  BoundedTimes' /\ Near'
<1>0. /\ queue' = queue /\ EpochLength \in Nat /\ MaxCost \in Nat \ {0} /\ globalTime \in Nat
  BY EpochAssumption, MaxCostAssumption
     DEF Head, Return, Interrupt, ExecuteThrows, vars, TimesInv, IInv, TypeOK
<1>1. BoundedTimes'
  BY <1>0 DEF TimesInv, BoundedTimes
<1>2. CASE Head
  <2>1. mode' = "done" \/ (mode' = "run" /\ globalTime' = 0)
    BY <1>2 DEF Head
  <2>2. \E m \in Models : queue[m] <= MaxCost + 1
    BY <1>2 DEF Head, TimesInv, Near, Limit
  <2> QED
    BY <1>0, <1>1, <2>1, <2>2 DEF Near, Limit
<1>3. CASE Return
  BY <1>0, <1>1, <1>3 DEF Return, TimesInv, Near, Limit
<1>4. CASE Interrupt
  BY <1>0, <1>1, <1>4 DEF Interrupt, TimesInv, Near, Limit
<1>5. CASE \E m \in Models : ExecuteThrows(m)
  BY <1>0, <1>1, <1>5 DEF ExecuteThrows, Near
<1>6. CASE UNCHANGED vars
  BY <1>0, <1>1, <1>6 DEF vars, TimesInv, Near, Limit
<1> QED
  BY <1>2, <1>3, <1>4, <1>5, <1>6

\* Rebasing keeps event times within one epoch and two steps, for ever
\* (Simulator.cpp:82-95).
THEOREM TimesAreBounded ==
    ASSUME EpochLength >= 1, Models # {}
    PROVE  Spec => []BoundedTimes
<1>1. Init => TimesInv
  BY InitTimes
<1>2. TimesInv /\ [Next]_vars => TimesInv'
  <2> SUFFICES ASSUME TimesInv, [Next]_vars PROVE BoundedTimes' /\ Near'
    BY NextIInv DEF TimesInv
  <2> QED
    BY ExecuteTimes, NextEpochTimes, OtherTimes DEF Next, Step
<1>3. TimesInv => BoundedTimes
  BY DEF TimesInv
<1> QED
  BY <1>1, <1>2, <1>3, PTL DEF Spec

-----------------------------------------------------------------------------
(***************************************************************************)
(* Epochs are invisible.                                                   *)
(***************************************************************************)
LEMMA LeadUnchanged == ASSUME queue' = queue PROVE Lead' = Lead
BY DEF Lead

LEMMA ExecuteTicks ==
    ASSUME IInv, NEW m \in Models, Execute(m)
    PROVE  Clock!Tick(m)
<1>1. PICK c \in Costs[m] : queue' = [queue EXCEPT ![m] = @ + c]
  BY DEF Execute, NextTime
<1>2. c \in Int /\ queue \in [Models -> Nat \ {0}]
  BY CostFacts DEF IInv, TypeOK
<1>3. \A n \in Models : queue'[n] = IF n = m THEN queue[m] + c ELSE queue[n]
  BY <1>1, <1>2
<1>4. \A n \in Models : Lead[m][n] <= 0
  <2> SUFFICES ASSUME NEW n \in Models PROVE Lead[m][n] <= 0
    OBVIOUS
  <2>1. queue[m] <= queue[n] /\ queue[m] \in Nat /\ queue[n] \in Nat
    BY <1>2 DEF Execute, OnTop
  <2>2. Lead[m][n] = queue[m] - queue[n]
    BY DEF Lead
  <2> QED
    BY <2>1, <2>2
<1>5. \A a, b \in Models :
        queue'[a] - queue'[b] = Clock!Advanced(Lead[a][b], a, b, m, c)
  <2> SUFFICES ASSUME NEW a \in Models, NEW b \in Models
      PROVE queue'[a] - queue'[b] = Clock!Advanced(Lead[a][b], a, b, m, c)
    OBVIOUS
  <2>1. queue[a] \in Nat /\ queue[b] \in Nat /\ queue[m] \in Nat
    BY <1>2
  <2>2. Lead[a][b] = queue[a] - queue[b]
    BY DEF Lead
  <2> QED
    BY <1>2, <1>3, <2>1, <2>2 DEF Clock!Advanced
<1>6. Lead' = [a \in Models |-> [b \in Models |-> Clock!Advanced(Lead[a][b], a, b, m, c)]]
  BY <1>5 DEF Lead
<1> QED
  BY <1>4, <1>6 DEF Clock!Tick

\* The simulator implements the clock: executing a model is a tick, everything
\* else, the change of epoch included, is a stuttering step.
THEOREM EpochsInvisible == Spec => ClockSpec
<1>1. Init => Clock!Init
  BY DEF Init, Clock!Init, Lead
<1>2. IInv /\ [Next]_vars => [Clock!Next]_Lead
  <2> SUFFICES ASSUME IInv, [Next]_vars PROVE Clock!Next \/ Lead' = Lead
    OBVIOUS
  <2>1. ASSUME NEW m \in Models, Execute(m) PROVE Clock!Next
    BY <2>1, ExecuteTicks DEF Clock!Next
  <2>2. CASE NextEpoch
    <3>1. queue' = [m \in Models |-> queue[m] - (globalTime - 1)]
      BY <2>2 DEF NextEpoch, Rebase, Discount
    <3>2. globalTime \in Nat /\ \A m \in Models : queue[m] \in Nat
      BY DEF IInv, TypeOK
    <3>3. \A a, b \in Models : queue'[a] - queue'[b] = queue[a] - queue[b]
      BY <3>1, <3>2
    <3> QED
      BY <3>3 DEF Lead
  <2>3. CASE Head \/ Return \/ Interrupt \/ (\E m \in Models : ExecuteThrows(m))
             \/ UNCHANGED vars
    <3>1. queue' = queue
      BY <2>3 DEF Head, Return, Interrupt, ExecuteThrows, vars
    <3> QED
      BY <3>1, LeadUnchanged
  <2> QED
    BY <2>1, <2>2, <2>3 DEF Next, Step
<1> QED
  BY <1>1, <1>2, Invariance, PTL DEF Spec, ClockSpec, Clock!Spec
=============================================================================

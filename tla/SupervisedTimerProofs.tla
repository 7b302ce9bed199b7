----------------------- MODULE SupervisedTimerProofs -----------------------
(***************************************************************************)
(* Proofs about the timer of ANSI 67, 21 and 87, for every timer and every *)
(* sequence of criteria.                                                   *)
(***************************************************************************)
EXTENDS SupervisedTimer, TLAPS

TimerInv == accumulated_time \in [Phase -> Time]
TimerNext == \E met \in SUBSET Enabled : Run(met)

\* The timers only ever take timer values.
THEOREM TimerStaysInRange == TimerSpec => []TimerInv
<1>1. Init => TimerInv
  BY TimerAssumption DEF Init, TimerInv
<1>2. TimerInv /\ [TimerNext]_vars => TimerInv'
  <2> SUFFICES ASSUME TimerInv, [TimerNext]_vars
               PROVE  TimerInv'
    OBVIOUS
  <2>1. ASSUME NEW met \in SUBSET Enabled, Run(met)
        PROVE  TimerInv'
    BY <2>1, TimerAssumption DEF TimerInv, Run, NextTimer, TimedTrip
  <2>2. CASE UNCHANGED vars
    BY <2>2 DEF vars, TimerInv
  <2>3. QED
    BY <2>1, <2>2 DEF TimerNext
<1>3. QED
  BY <1>1, <1>2, PTL DEF TimerSpec, TimerNext

\* One call is one call of the delayed trip.
LEMMA RunIsCall ==
  ASSUME Enabled \subseteq Phase, TimerInv, NEW met \in SUBSET Enabled, Run(met)
  PROVE  Trip!Call(met)
<1> DEFINE runs == [p \in Enabled |-> CallsIn[accumulated_time[p]]]
<1>1. ASSUME NEW p \in Enabled
      PROVE  CallsIn[accumulated_time'[p]] =
               IF p \notin met THEN 0
               ELSE IF runs[p] = OperateCalls THEN OperateCalls ELSE runs[p] + 1
  <2>1. accumulated_time[p] \in Time
    BY <1>1 DEF TimerInv
  <2>2. CASE OperateDelay > 0
    <3>1. accumulated_time'[p] = IF p \in met THEN AddDt[accumulated_time[p]] ELSE 0
      BY <1>1, <2>2 DEF Run, NextTimer
    <3>2. QED
      BY <2>1, <3>1, DelayAssumption
  <2>3. CASE ~(OperateDelay > 0)
    <3>1. accumulated_time'[p] = IF p \in met THEN accumulated_time[p] ELSE 0
      BY <1>1, <2>3 DEF Run, NextTimer
    <3>2. accumulated_time[p] >= OperateDelay
      <4>1. accumulated_time[p] \in Nat /\ OperateDelay \in Int
        BY <2>1, TimerAssumption, DelayAssumption
      <4>2. QED
        BY <2>3, <4>1
    <3>3. runs[p] = OperateCalls
      BY <1>1, <2>1, <3>2, DelayAssumption
    <3>4. QED
      BY <3>1, <3>3, DelayAssumption
  <2>4. QED
    BY <2>2, <2>3
<1>2. output'.trip = {p \in met : CallsIn[accumulated_time'[p]] = OperateCalls}
  <2>1. TimerInv'
    BY TimerAssumption DEF TimerInv, Run, NextTimer, TimedTrip
  <2>2. ASSUME NEW p \in met
        PROVE  accumulated_time'[p] >= OperateDelay
                 <=> CallsIn[accumulated_time'[p]] = OperateCalls
    <3>1. accumulated_time'[p] \in Time
      BY <2>1, <2>2 DEF TimerInv
    <3>2. QED
      BY <3>1, DelayAssumption
  <2>3. output'.trip = {p \in met : accumulated_time'[p] >= OperateDelay}
    <3>1. ASSUME NEW p \in met
          PROVE  /\ accumulated_time'[p] = NextTimer(met, p)
                 /\ ~(OperateDelay > 0) => accumulated_time'[p] >= OperateDelay
      <4>1. accumulated_time'[p] \in Nat /\ OperateDelay \in Int
        BY <2>1, <3>1, TimerAssumption, DelayAssumption DEF TimerInv
      <4>2. accumulated_time'[p] = NextTimer(met, p)
        BY <3>1 DEF Run
      <4>3. QED
        BY <4>1, <4>2
    <3>2. output'.trip = TimedTrip(met)
      BY DEF Run
    <3>3. QED
      BY <3>1, <3>2 DEF TimedTrip
  <2>4. QED
    BY <2>2, <2>3
<1>3. output'.start = met
  BY DEF Run
<1>4. QED
  BY <1>1, <1>2, <1>3 DEF Trip!Call

\* A supervised timer trips in exactly the calls that end OperateCalls
\* consecutive calls in which the criterion held, whatever the criterion.
THEOREM SupervisedTimerImplementsDelayedTrip ==
  ASSUME Enabled \subseteq Phase
  PROVE  TimerSpec => DelaysTrip
<1>1. Init => Trip!Init
  BY DelayAssumption DEF Init, Trip!Init, NoOutput
<1>2. TimerInv /\ [TimerNext]_vars
        => [Trip!Next]_<<[p \in Enabled |-> CallsIn[accumulated_time[p]]],
                           output.start, output.trip>>
  <2> SUFFICES ASSUME TimerInv, [TimerNext]_vars
               PROVE  [Trip!Next]_<<[p \in Enabled |-> CallsIn[accumulated_time[p]]],
                                    output.start, output.trip>>
    OBVIOUS
  <2>1. ASSUME NEW met \in SUBSET Enabled, Run(met)
        PROVE  Trip!Next
    BY <2>1, RunIsCall DEF Trip!Next
  <2>2. CASE UNCHANGED vars
    BY <2>2 DEF vars
  <2>3. QED
    BY <2>1, <2>2 DEF TimerNext
<1>3. QED
  BY <1>1, <1>2, TimerStaysInRange, PTL DEF TimerSpec, TimerNext, DelaysTrip, Trip!Spec
=============================================================================

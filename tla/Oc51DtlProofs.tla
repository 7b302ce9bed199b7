--------------------------- MODULE Oc51DtlProofs ---------------------------
(* Proofs about ANSI 51 DTL, for every timer and every set of frames. *)
EXTENDS Oc51Dtl, TLAPS

\* What the refinement needs to know of the state.
TimerInv == accumulated_time \in [Phase -> Time]

\* The timers only ever take timer values.
THEOREM TimerStaysInRange == Spec => []TimerInv
<1>1. Init => TimerInv
  BY TimerAssumption DEF Init, TimerInv
<1>2. TimerInv /\ [\E frame \in Frame : Step(frame)]_vars => TimerInv'
  <2> SUFFICES ASSUME TimerInv, [\E frame \in Frame : Step(frame)]_vars
               PROVE  TimerInv'
    OBVIOUS
  <2>1. ASSUME NEW frame \in Frame, Step(frame)
        PROVE  TimerInv'
    BY <2>1, TimerAssumption DEF TimerInv, Step, NextTimer
  <2>2. CASE UNCHANGED vars
    BY <2>2 DEF vars, TimerInv
  <2>3. QED
    BY <2>1, <2>2
<1>3. QED
  BY <1>1, <1>2, PTL DEF Spec

\* One call of the element is one call of the delayed trip, with the phases at
\* or above their pickup as those whose criterion holds.
LEMMA StepIsCall ==
  ASSUME TimerInv, NEW frame \in Frame, Step(frame)
  PROVE  Trip!Call(Started(frame))
<1> DEFINE met == Started(frame)
           runs == [p \in Enabled |-> CallsIn[accumulated_time[p]]]
<1>1. met \subseteq Enabled
  BY DEF Started
<1>2. ASSUME NEW p \in Enabled
      PROVE  CallsIn[accumulated_time'[p]] =
               IF p \notin met THEN 0
               ELSE IF runs[p] = OperateCalls THEN OperateCalls ELSE runs[p] + 1
  <2>1. accumulated_time'[p] = IF p \in met THEN AddDt[accumulated_time[p]] ELSE 0
    BY <1>2, EnabledAssumption DEF Step, NextTimer
  <2>2. accumulated_time[p] \in Time
    BY <1>2, EnabledAssumption DEF TimerInv
  <2>3. QED
    BY <2>1, <2>2, DelayAssumption
<1>3. output'.trip = {p \in met : CallsIn[accumulated_time'[p]] = OperateCalls}
  <2>1. TimerInv'
    BY TimerAssumption DEF TimerInv, Step, NextTimer
  <2>2. ASSUME NEW p \in met
        PROVE  accumulated_time'[p] >= OperateDelay
                 <=> CallsIn[accumulated_time'[p]] = OperateCalls
    <3>1. accumulated_time'[p] \in Time
      BY <1>1, <2>1, <2>2, EnabledAssumption DEF TimerInv
    <3>2. QED
      BY <3>1, DelayAssumption
  <2>3. output'.trip = {p \in met : accumulated_time'[p] >= OperateDelay}
    BY <1>1, EnabledAssumption DEF Step, NextTimer
  <2>4. QED
    BY <2>2, <2>3
<1>4. output'.start = met
  BY DEF Step
<1>5. QED
  BY <1>1, <1>2, <1>3, <1>4 DEF Trip!Call

\* ANSI 51 DTL trips in exactly the calls that end OperateCalls consecutive
\* calls at or above the pickup, whatever the timer's arithmetic, as long as
\* the same number of additions always reaches the delay.
THEOREM DtlImplementsDelayedTrip == Spec => DelaysTrip
<1>1. Init => Trip!Init
  BY EnabledAssumption, DelayAssumption DEF Init, Trip!Init, NoOutput
<1>2. TimerInv /\ [\E frame \in Frame : Step(frame)]_vars
        => [Trip!Next]_<<[p \in Enabled |-> CallsIn[accumulated_time[p]]],
                           output.start, output.trip>>
  <2> SUFFICES ASSUME TimerInv, [\E frame \in Frame : Step(frame)]_vars
               PROVE  [Trip!Next]_<<[p \in Enabled |-> CallsIn[accumulated_time[p]]],
                                    output.start, output.trip>>
    OBVIOUS
  <2>1. ASSUME NEW frame \in Frame, Step(frame)
        PROVE  Trip!Next
    BY <2>1, StepIsCall DEF Trip!Next, Started
  <2>2. CASE UNCHANGED vars
    BY <2>2 DEF vars
  <2>3. QED
    BY <2>1, <2>2
<1>3. QED
  BY <1>1, <1>2, TimerStaysInRange, PTL DEF Spec, DelaysTrip, Trip!Spec
=============================================================================

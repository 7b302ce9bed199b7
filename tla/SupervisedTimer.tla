-------------------------- MODULE SupervisedTimer --------------------------
(***************************************************************************)
(* The tail that dir67_step, dist21_step and diff87_step have in common.   *)
(* Each computes the phases whose criterion holds, then treats a phase the *)
(* same way: outside the criterion the timer is reset, inside it the timer *)
(* runs and trips at the delay, or trips at once if no delay is set.       *)
(***************************************************************************)
EXTENDS DefiniteTime

CONSTANT Enabled    \* enabled_phase_mask

VARIABLES accumulated_time, output
vars == <<accumulated_time, output>>

Init ==
  /\ accumulated_time = [p \in Phase |-> 0]
  /\ output = NoOutput

\* Slips: the timer kept outside the criterion; started over at the delay.
KeptTimer(met, p) ==
  IF p \in met THEN AddDt[accumulated_time[p]] ELSE accumulated_time[p]
RestartedTimer(met, p) ==
  IF p \in met /\ accumulated_time[p] < OperateDelay
  THEN AddDt[accumulated_time[p]] ELSE 0

\* The timer of phase p after a call whose criterion holds for `met'.
NextTimer(met, p) ==
  IF p \in met
  THEN IF OperateDelay > 0 THEN AddDt[accumulated_time[p]] ELSE accumulated_time[p]
  ELSE IF p \in Enabled THEN 0 ELSE accumulated_time[p]

\* A slip: the trip one call late.
LateTrip(met) == {p \in met : accumulated_time[p] >= OperateDelay}

TimedTrip(met) ==
  {p \in met : OperateDelay > 0 => NextTimer(met, p) >= OperateDelay}

\* A call whose criterion holds for the phases in `met'.
Run(met) ==
  /\ accumulated_time' = [p \in Phase |-> NextTimer(met, p)]
  /\ output' = [start |-> met, trip |-> TimedTrip(met), block |-> {}]

\* Calls with an arbitrary criterion on the enabled phases.
TimerSpec == Init /\ [][\E met \in SUBSET Enabled : Run(met)]_vars

\* The timer implements the delayed trip: a phase trips in exactly the calls
\* that end OperateCalls consecutive calls in which the criterion held.
Trip == INSTANCE DelayedTrip WITH
  Channel  <- Enabled,
  run      <- [p \in Enabled |-> CallsIn[accumulated_time[p]]],
  started  <- output.start,
  tripping <- output.trip
DelaysTrip == Trip!Spec
=============================================================================

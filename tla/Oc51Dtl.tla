------------------------------ MODULE Oc51Dtl ------------------------------
(* ANSI 51, definite time: a timer per phase that runs above the pickup. *)
EXTENDS DefiniteTime

CONSTANTS
  Enabled,        \* enabled_phase_mask
  PickupCurrent   \* pickup_current

ASSUME EnabledAssumption == Enabled \subseteq Phase

VARIABLES accumulated_time, output
vars == <<accumulated_time, output>>

\* oc51_dtl_init; no call has produced an output yet.
Init ==
  /\ accumulated_time = [p \in Phase |-> 0]
  /\ output = NoOutput

Started(frame) ==
  {p \in Enabled : frame.current_magnitude[p] >= PickupCurrent[p]}

\* Slips: the timer kept below the pickup; dt lost in an integer division.
KeptTimer(frame, p) ==
  IF p \in Started(frame) THEN AddDt[accumulated_time[p]] ELSE accumulated_time[p]
StalledTimer(frame, p) ==
  IF p \in Started(frame) THEN accumulated_time[p] ELSE 0

\* The timer of phase p after a call.
NextTimer(frame, p) ==
  IF p \in Started(frame) THEN AddDt[accumulated_time[p]]
  ELSE IF p \in Enabled THEN 0 ELSE accumulated_time[p]

Step(frame) ==
  /\ accumulated_time' = [p \in Phase |-> NextTimer(frame, p)]
  /\ output' =
       [start |-> Started(frame),
        trip  |-> {p \in Started(frame) : NextTimer(frame, p) >= OperateDelay},
        block |-> {}]

Spec == Init /\ [][\E frame \in Frame : Step(frame)]_vars

\* The loop that owns the element keeps calling it.
FairSpec == Spec /\ WF_vars(\E frame \in Frame : Step(frame))
-----------------------------------------------------------------------------
\* The element implements the delayed trip: a phase trips in exactly the calls
\* that end OperateCalls consecutive calls at or above the pickup.
Trip == INSTANCE DelayedTrip WITH
  Channel  <- Enabled,
  run      <- [p \in Enabled |-> CallsIn[accumulated_time[p]]],
  started  <- output.start,
  tripping <- output.trip
DelaysTrip == Trip!Spec

\* A phase that has started does not stay started for ever without tripping,
\* for all the rounding of its timer.
StartedTripsOrDropsOut ==
  \A p \in Enabled :
    p \in output.start ~> (p \in output.start => p \in output.trip)

\* "20 ms": once the pickup has lasted the delay, at Dt per call, it trips.
TripsAtNominalDelay(dt, delay) ==
  \A p \in Enabled :
    CallsIn[accumulated_time[p]] * dt >= delay => p \in output.trip
=============================================================================

------------------------------ MODULE Oc51Idmt ------------------------------
(* ANSI 51, inverse time: a progress per phase that runs above the pickup. *)
EXTENDS InverseTime

CONSTANTS
  Enabled,        \* enabled_phase_mask
  PickupCurrent   \* pickup_current

VARIABLES progress, output
vars == <<progress, output>>

Init ==
  /\ progress = [p \in Phase |-> 0]
  /\ output = NoOutput

Started(frame) ==
  {p \in Enabled : /\ PickupCurrent[p] > 0
                   /\ frame.current_magnitude[p] >= PickupCurrent[p]}

\* multiple <= 1.0001f, or no curve: "treat as extremely slow".
Degenerate(frame, p) ==
  \/ 10000 * frame.current_magnitude[p] <= 10001 * PickupCurrent[p]
  \/ CurveTime[PickupCurrent[p]][frame.current_magnitude[p]] = 0

OperateTime(frame, p) ==
  Clamped(CurveTime[PickupCurrent[p]][frame.current_magnitude[p]])

\* The phases whose progress this call moves.
Advancing(frame) == {p \in Started(frame) : ~Degenerate(frame, p)}

\* `*progress += dt_seconds / operate_time', in floats.
Advanced(frame, p) == AddShare[progress[p]][OperateTime(frame, p)]

\* A slip: the progress left above 1.0f, as the code's comment would allow.
Unlatched(x) == x

\* `*progress = 1.0f' on a trip.
Latched(x) == IF x >= One THEN One ELSE x

Step(frame) ==
  /\ progress' =
       [p \in Phase |->
          IF p \in Advancing(frame)
          THEN Latched(Advanced(frame, p))
          ELSE IF p \in Enabled \ Started(frame) THEN 0 ELSE progress[p]]
  /\ output' = [start |-> Started(frame),
                trip  |-> {p \in Advancing(frame) : Advanced(frame, p) >= One},
                block |-> {}]

Spec == Init /\ [][\E frame \in Frame : Step(frame)]_vars
=============================================================================

-------------------------------- MODULE Oc50 --------------------------------
(* ANSI 50, instantaneous overcurrent: no state but its last output. *)
EXTENDS ProtCommon

CONSTANTS
  Enabled,        \* enabled_phase_mask
  PickupCurrent   \* pickup_current

VARIABLE output

Init == output = NoOutput

\* A slip: strictly above the pickup.
StartedAbove(frame) ==
  {p \in Enabled : frame.current_magnitude[p] > PickupCurrent[p]}

\* At or above the pickup.
Started(frame) ==
  {p \in Enabled : frame.current_magnitude[p] >= PickupCurrent[p]}

Step(frame) ==
  output' = [start |-> Started(frame), trip |-> Started(frame), block |-> {}]

Spec == Init /\ [][\E frame \in Frame : Step(frame)]_output
=============================================================================

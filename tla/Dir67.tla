------------------------------- MODULE Dir67 -------------------------------
(* ANSI 67, directional overcurrent. *)
EXTENDS SupervisedTimer

CONSTANTS
  PickupCurrent,             \* pickup_current
  Mode,                      \* "forward", "reverse" or "non_directional"
  TorqueAngle,               \* torque_angle
  AngleTolerance,            \* angle_tolerance
  MinimumPolarizingVoltage   \* minimum_polarizing_voltage

DirectionIsValid(frame, p) ==
  \/ Mode = "non_directional"
  \/ /\ frame.voltage_magnitude[p] >= MinimumPolarizingVoltage
     /\ LET relative == NormalizeAngle(frame.current_angle[p] - frame.voltage_angle[p])
            sought   == IF Mode = "forward" THEN TorqueAngle ELSE TorqueAngle + 180
        IN  AngleBetween(relative, NormalizeAngle(sought)) <= AngleTolerance

\* A slip: the direction without the pickup.
StartedByDirection(frame) == {p \in Enabled : DirectionIsValid(frame, p)}

\* The pickup check, then the directional check.
Started(frame) ==
  {p \in Enabled : /\ PickupCurrent[p] > 0
                   /\ frame.current_magnitude[p] >= PickupCurrent[p]
                   /\ DirectionIsValid(frame, p)}

Step(frame) == Run(Started(frame))

Spec == Init /\ [][\E frame \in Frame : Step(frame)]_vars
=============================================================================

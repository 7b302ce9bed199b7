------------------------------- MODULE Dist21 -------------------------------
(* ANSI 21, distance: one zone of scalar reach with directional supervision. *)
EXTENDS SupervisedTimer

CONSTANTS
  ReachOhms,                 \* reach_ohms
  Mode,                      \* "forward", "reverse" or "non_directional"
  LineAngle,                 \* line_angle
  AngleTolerance,            \* angle_tolerance
  MinimumVoltageMagnitude,   \* minimum_voltage_magnitude
  MinimumCurrentMagnitude    \* minimum_current_magnitude

DirectionIsValid(impedanceAngle) ==
  \/ Mode \notin {"forward", "reverse"}
  \/ LET sought == IF Mode = "forward" THEN LineAngle ELSE LineAngle + 180
     IN  AngleBetween(impedanceAngle, NormalizeAngle(sought)) <= AngleTolerance

\* |V| / |I| <= reach, where the division is defined.
InReach(frame, p) ==
  /\ frame.voltage_magnitude[p] >= MinimumVoltageMagnitude
  /\ frame.current_magnitude[p] >= MinimumCurrentMagnitude
  /\ frame.current_magnitude[p] > 0
  /\ ReachOhms[p] > 0
  /\ frame.voltage_magnitude[p] <= ReachOhms[p] * frame.current_magnitude[p]

Started(frame) ==
  {p \in Enabled :
     /\ InReach(frame, p)
     /\ DirectionIsValid(NormalizeAngle(frame.voltage_angle[p] -
                                        frame.current_angle[p]))}

Step(frame) == Run(Started(frame))

Spec == Init /\ [][\E frame \in Frame : Step(frame)]_vars
=============================================================================

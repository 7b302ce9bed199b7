------------------------------- MODULE Diff87 -------------------------------
(***************************************************************************)
(* ANSI 87, percentage differential between two line ends.  A phasor is a  *)
(* record of its real and imaginary parts; Magnitude and Angle stand for   *)
(* sqrtf and atan2f on it.                                                 *)
(***************************************************************************)
EXTENDS SupervisedTimer

CONSTANTS
  Magnitude, Angle,          \* functions of a phasor
  MinimumTerminalCurrent,    \* minimum_terminal_current
  MinimumRestraintCurrent,   \* minimum_restraint_current
  PickupOperateCurrent,      \* pickup_operate_current
  BiasSlopeTenths,           \* bias_slope, in tenths
  AngleTolerance             \* angle_tolerance

Minus(a, b) == [real |-> a.real - b.real, imag |-> a.imag - b.imag]

\* Twice the restraint current.
TotalCurrent(l, r) == Magnitude[l] + Magnitude[r]

\* Twenty times operate_threshold.
OperateThreshold20(l, r) ==
  20 * PickupOperateCurrent +
    (IF TotalCurrent(l, r) < 2 * MinimumRestraintCurrent THEN 0
     ELSE BiasSlopeTenths * TotalCurrent(l, r))

InOperateRegion(l, r) ==
  /\ Magnitude[l] >= MinimumTerminalCurrent \/ Magnitude[r] >= MinimumTerminalCurrent
  /\ AngleTolerance > 0 =>
       AngleBetween(NormalizeAngle(Angle[l]), NormalizeAngle(Angle[r])) <= AngleTolerance
  /\ 20 * Magnitude[Minus(l, r)] >= OperateThreshold20(l, r)

Started(frame) ==
  {p \in Enabled : InOperateRegion(frame.local_current[p], frame.remote_current[p])}

Step(frame) == Run(Started(frame))

Spec == Init /\ [][\E frame \in Frame : Step(frame)]_vars
=============================================================================

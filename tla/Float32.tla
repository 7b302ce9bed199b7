------------------------------ MODULE Float32 ------------------------------
(***************************************************************************)
(* The float timers of the elements, exactly.  A timer value is a whole    *)
(* number of units of 2^-35 s, the spacing of the floats around 0.00025f;  *)
(* below 2^31 units (1/16 s) nothing overflows TLC's integers.             *)
(***************************************************************************)
EXTENDS Rounding, FiniteSets

\* (float)250 / 1e6f and 0.020f.
DtSeconds == 8589935
OperateDelaySeconds == 687194752

RoundToFloat(n) == Rounded(24, n)

\* The timer t after n more calls, half of them at a time.
Advance[n \in Nat, t \in Nat] ==
  IF n = 0 THEN t
  ELSE IF n = 1 THEN RoundToFloat(t + DtSeconds)
  ELSE Advance[n - (n \div 2), Advance[n \div 2, t]]

\* The timer after n calls, from a reset.
TimerAfter(n) == Advance[n, 0]
=============================================================================

----------------------------- MODULE ProtCommon -----------------------------
(***************************************************************************)
(* What the protection elements share: the measurement frame, the masks of *)
(* an element's output, the wrapping of angles and the float timer.        *)
(*                                                                         *)
(* A mask is the set of the phases whose bit is set.  Magnitudes are in    *)
(* amperes and volts, angles in degrees.  Time is the set of the values a  *)
(* float timer takes, in whatever unit the instance chooses; AddDt is one  *)
(* `+= dt_seconds' on it, rounding included.                               *)
(***************************************************************************)
EXTENDS Integers

CONSTANTS
  Phase,    \* "A", "B", "C", "N", or some of them
  Frame,    \* the vpac_measurement_frame_t values the elements may be given
  Time,     \* the values of a timer
  AddDt     \* AddDt[t]: the timer t after one call

ASSUME TimerAssumption ==
  /\ Time \subseteq Nat /\ 0 \in Time
  /\ AddDt \in [Time -> Time]
\* Adding a positive dt never moves a timer back, and keeps the order of two.
ASSUME MonotoneAssumption ==
  /\ \A t \in Time : t <= AddDt[t]
  /\ \A t, u \in Time : t <= u => AddDt[t] <= AddDt[u]

\* protection_output_t
Output == [start : SUBSET Phase, trip : SUBSET Phase, block : SUBSET Phase]
NoOutput == [start |-> {}, trip |-> {}, block |-> {}]

\* normalize_angle: into (-180, 180].
NormalizeAngle(angle) ==
  LET turn == angle % 360 IN IF turn > 180 THEN turn - 360 ELSE turn

\* fabsf(normalize_angle(a - b)): how far apart two directions are.
AngleBetween(a, b) ==
  LET d == NormalizeAngle(a - b) IN IF d < 0 THEN -d ELSE d
=============================================================================

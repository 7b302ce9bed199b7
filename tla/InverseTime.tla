---------------------------- MODULE InverseTime ----------------------------
(***************************************************************************)
(* The inverse-time delay of ANSI 51: operate times from the curve, within *)
(* its clamps, and what they amount to when every call adds dt over the    *)
(* operate time to the progress.  Times are in calls; a progress is a      *)
(* float, under any order-preserving numbering, and both the division and  *)
(* the addition are rounded.                                               *)
(***************************************************************************)
EXTENDS ProtCommon

CONSTANTS
  CurveTime,   \* CurveTime[p][i]: t_mult * a / (multiple^p - 1) at pickup p and
               \* current i; 0 where the code's guards find it undefined
  MinTime,     \* minimum_operate_time_seconds; 0 for no clamp
  MaxTime,     \* maximum_operate_time_seconds, positive in both programs
  Duration,    \* operate times, all that the clamped curve gives among them
  One,         \* progress 1.0f
  Progress,    \* the values of the progress, none beyond One
  AddShare,    \* AddShare[x][t]: x + dt_seconds / t, in floats
  SlowCalls,   \* the calls at the upper clamp that first reach 1.0f
  Slowest      \* Slowest[n]: the progress after n calls at the upper clamp

\* A slip: the upper clamp alone.
ClampedAbove(time) == IF time > MaxTime THEN MaxTime ELSE time

\* The two clamps, in the order of the code.
Clamped(time) ==
  LET floored == IF MinTime > 0 /\ time < MinTime THEN MinTime ELSE time
  IN  IF floored > MaxTime THEN MaxTime ELSE floored

ASSUME CurveAssumption ==
  /\ MinTime \in Nat /\ MaxTime \in Nat /\ MinTime <= MaxTime
  /\ Duration \subseteq Nat \ {0} /\ MaxTime \in Duration
  /\ \A frame \in Frame, p \in Phase, pickup \in {50, 100} :
       LET time == CurveTime[pickup][frame.current_magnitude[p]]
       IN  time \in Nat /\ (time > 0 => Clamped(time) \in Duration)

\* Rounding keeps the order: a share no smaller, added to a progress no smaller,
\* gives no less; and a positive one never takes the progress back.
ASSUME ShareAssumption ==
  /\ One \in Nat \ {0} /\ Progress \subseteq 0 .. One /\ {0, One} \subseteq Progress
  /\ AddShare \in [Progress -> [Duration -> Nat]]
  /\ \A x \in Progress, t \in Duration :
       x <= AddShare[x][t] /\ (AddShare[x][t] < One => AddShare[x][t] \in Progress)
  /\ \A x, y \in Progress, t, u \in Duration :
       x <= y /\ u <= t => AddShare[x][t] <= AddShare[y][u]

\* The progress of `calls' calls in a row at the operate time t, the last of
\* which trips.
SteadyRun(run, calls, t) ==
  /\ run \in [0 .. calls -> Progress]
  /\ run[0] = 0 /\ run[calls] = One
  /\ \A n \in 1 .. calls :
       LET sum == AddShare[run[n - 1]][t]
       IN  run[n - 1] < One /\ (IF n < calls THEN run[n] = sum ELSE sum >= One)

ASSUME SlowestAssumption == SlowCalls \in Nat /\ SteadyRun(Slowest, SlowCalls, MaxTime)
=============================================================================

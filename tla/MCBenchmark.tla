---------------------------- MODULE MCBenchmark ----------------------------
(* A timer that stops at the end of its range, and short loops. *)
EXTENDS Benchmark

Ticks == 0 .. 2
NextTick == [t \in Ticks |-> IF t = 2 THEN 2 ELSE t + 1]
NoDelay == [t \in Ticks |-> 0]
CaseFrames == {FrameFor(ProtCases[j]) : j \in DOMAIN ProtCases}
Reals == {Real(x) : x \in {0, 5, 20, 25}}
Hypot == [z \in Reals |-> z.real]
Atan2 == [z \in Reals |-> 0]
\* Progress in quarters.
Quarters == 0 .. 4
Durations == {4}
AddQuarter == [x \in Quarters |-> [t \in Durations |-> x + 1]]
InTurn == [n \in Quarters |-> n]
\* At one and a half times the pickup the curve is far above the clamp.
Curve == [pickup \in {50, 100} |-> [c \in {0, 2, 25, 75, 150} |-> 17]]
=============================================================================

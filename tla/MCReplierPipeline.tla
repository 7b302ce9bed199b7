------------------------- MODULE MCReplierPipeline -------------------------
(***************************************************************************)
(* Four samples per cycle, and a delay of one call more than a cycle, as   *)
(* the float timer makes of 20 ms.  A residue is one ampere, and an        *)
(* estimate that small is rounded off: it keeps its angle only.            *)
(***************************************************************************)
EXTENDS ReplierPipeline

Cosine == <<1, 0, -1, 0>>
Sine == <<0, 1, 0, -1>>
At(re, im) == [real |-> re, imag |-> im]
Residues == {At(1, 0), At(0, 1)}
States == {"load", "fault"}
Peak == [state \in States |-> IF state = "load" THEN 40 ELSE 400]

Tick == 0 .. 5
NextTick == [t \in Tick |-> IF t = 5 THEN 5 ELSE t + 1]
TicksIn == [t \in Tick |-> t]

\* What half the difference of two samples of a channel may be, and what the
\* remote current leaves of it.
Halves == {(a - b) \div 2 : a, b \in {100, 102} \cup {-400, -40, 0, 40, 400}}
          \cup {-1000, -500, 0, 500, 1000} \cup {-2, -1, 0, 1, 2} \cup {100, 102}
          \cup {-400, -40, 40, 400}
Parts == Halves \cup {0, 40, 80, 81} \cup {h - r : h \in Halves, r \in {40, 80, 81}}
Phasors == {At(re, im) : re \in Parts, im \in Halves}
Abs(x) == IF x < 0 THEN -x ELSE x
\* sqrtf and hypotf, to the even ampere below.
Root(n) == CHOOSE m \in 0 .. 800 : 4 * m * m <= n /\ n < 4 * (m + 1) * (m + 1)
Hypot == [z \in Phasors |-> 2 * Root(z.real * z.real + z.imag * z.imag)]
\* atan2f, exact on the axes and the diagonals, and to an eighth of a turn
\* between them.
Octant(x, y) == IF y = 0 THEN 0 ELSE IF x = 0 THEN 90 ELSE IF x = y THEN 45
                ELSE IF y < x THEN 22 ELSE 67
Atan2 == [z \in Phasors |->
            LET turn == Octant(Abs(z.real), Abs(z.imag))
                side == IF z.real < 0 THEN 180 - turn ELSE turn
            IN  IF z.imag < 0 THEN -side ELSE side]

NoFrames == {[current_magnitude |-> [p \in Phase |-> 0]]}
\* Progress in eighths.
Eighths == 0 .. 8
Durations == {2, 8}
AddEighths == [x \in Eighths |-> [t \in Durations |-> x + (8 \div t)]]
InTurn == [n \in Eighths |-> n]
InTwo == [n \in 0 .. 2 |-> 4 * n]
\* 4970 ms at four times the pickup, and longer below: always clamped.
Curve == [pickup \in {50, 100} |-> [i \in 0 .. 1000 |-> 17]]
=============================================================================

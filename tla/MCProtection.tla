---------------------------- MODULE MCProtection ----------------------------
(***************************************************************************)
(* A timer of whole ticks, one per call, and frames that put phase A in    *)
(* and out of every element's criterion, at the boundaries too.  The       *)
(* progress of 51 IDMT is a float of three digits: six additions of a      *)
(* sixth fall short of 1.0 and a seventh is needed, as with float32 at the *)
(* dispatcher's clamps.                                                    *)
(***************************************************************************)
EXTENDS Protection, Rounding

LOCAL INSTANCE FloatProgress

Tick == 0 .. 4
NextTick == [t \in Tick |-> IF t = 4 THEN 4 ELSE t + 1]
TicksIn == [t \in Tick |-> IF t > 3 THEN 3 ELSE t]

At(re, im) == [real |-> re, imag |-> im]
Phasors == {At(re, 0) : re \in {-400, -200, 0, 50, 100, 200, 400}}
           \cup {At(0, 200), At(-50, 200)}
\* sqrtf, to the ampere.
Hypot == [z \in Phasors |-> CHOOSE m \in {0, 50, 100, 200, 206, 400} :
                               LET n == z.real * z.real + z.imag * z.imag
                               IN  m * m <= n /\ n < (m + 1) * (m + 1)]
\* atan2f, to the degree.
Atan2 == [z \in Phasors |-> IF z.imag > 0 THEN IF z.real = 0 THEN 90 ELSE 104
                            ELSE IF z.real < 0 THEN 180 ELSE 0]

\* <<current, its angle, voltage, its angle, local phasor, remote phasor>>
Readings == {
  <<  0,   0,  100,   0, At(0, 0),      At(0, 0)>>,    \* dead line
  <<100,   0,  100,   0, At(100, 0),    At(100, 0)>>,  \* exactly at the pickup
  <<200,   0,  100,   0, At(200, 0),    At(0, 0)>>,    \* internal fault
  <<400, 350,  100, -15, At(400, 0),    At(200, 0)>>,  \* the same, angles to wrap
  <<200, 180,  100,   0, At(-200, 0),   At(200, 0)>>,  \* fault behind the relay
  <<200,   0,    5,   0, At(0, 200),    At(50, 0)>>,   \* close-in fault, no voltage
  <<200,   0, 4000,   0, At(200, 0),    At(200, 0)>>,  \* overload beyond the zone
  << 50,   0,  400,   0, At(50, 0),     At(0, 0)>>}    \* below the pickup

FrameOf(r) ==
  [current_magnitude |-> [p \in Phase |-> r[p][1]],
   current_angle     |-> [p \in Phase |-> r[p][2]],
   voltage_magnitude |-> [p \in Phase |-> r[p][3]],
   voltage_angle     |-> [p \in Phase |-> r[p][4]],
   local_current     |-> [p \in Phase |-> r[p][5]],
   remote_current    |-> [p \in Phase |-> r[p][6]]]
\* The neutral carries a fraction of the fault current, or all of it.
NeutralReadings == {
  <<  0, 0, 0, 0, At(0, 0), At(0, 0)>>,
  << 50, 0, 0, 0, At(0, 0), At(0, 0)>>,
  <<100, 0, 0, 0, At(0, 0), At(0, 0)>>}
Frames == {FrameOf(r) : r \in {[p \in Phase |-> IF p = "N" THEN n ELSE a] :
                                 a \in Readings, n \in NeutralReadings}}

\* Three points of an inverse curve, in calls; the clamps are 2 and 6.
Currents == {0, 50, 100, 200, 400}
Curve == [pickup \in {50, 100} |-> [i \in Currents |->
            IF i >= 4 * pickup THEN 1 ELSE IF i > pickup THEN 8 ELSE 0]]

\* Progress in units of 1/128.
Full == 128
Durations == 1 .. 6
Floats == {Rounded(3, n) : n \in 0 .. Full}
AddRounded == [x \in Floats |-> [t \in Durations |-> Rounded(3, x + Rounded(3, Full \div t))]]
\* Calls in a row at the operate time t.
RunAt(t, calls) ==
  LET run[n \in 0 .. calls] ==
        IF n = 0 THEN 0 ELSE IF n = calls THEN Full ELSE AddRounded[run[n - 1]][t]
  IN  run
AtSlowest == RunAt(6, 7)
AtFastest == RunAt(2, 2)

\* The float32 progress after n calls from x at an operate time in microseconds.
Float32After[n \in Nat, x \in Nat, time \in Nat] ==
  IF n = 0 THEN x
  ELSE IF n = 1 THEN Advance(x, Quotient(Seconds(250), Seconds(time)))
  ELSE Float32After[n - (n \div 2), Float32After[n \div 2, x, time], time]

\* The dispatcher's clamps, "0.010f" and "1.000f", take one call of 250 us more
\* than the 40 and the 4000 that make those times.
ASSUME Float32Clamps ==
  \A calls \in {40, 4000} :
    LET sum == Float32After[calls, 0, 250 * calls]
    IN  sum < FloatOf(1) /\ FloatOf(1) <= Float32After[1, sum, 250 * calls]
=============================================================================

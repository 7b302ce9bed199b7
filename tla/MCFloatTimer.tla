---------------------------- MODULE MCFloatTimer ----------------------------
(* ANSI 51 DTL with the dispatcher's pickups and the exact float32 timer. *)
EXTENDS Oc51Dtl, Float32

\* Bound: the timer is followed for 83 calls, two more than it takes to trip.
Timers == {TimerAfter(k) : k \in 0 .. 83}
LastTimer == TimerAfter(83)
AddFloat == [t \in Timers |-> IF t = LastTimer THEN t ELSE RoundToFloat(t + DtSeconds)]
FloatCalls == 81
CallsCounted == [t \in Timers |->
                   LET n == Cardinality({u \in Timers : u < t})
                   IN  IF n > FloatCalls THEN FloatCalls ELSE n]

Pickup == [p \in Phase |-> IF p = "N" THEN 50 ELSE 100]
Frames == [current_magnitude : {[p \in Phase |-> IF p = "N" THEN n ELSE a] :
                                  a \in {99, 100}, n \in {49, 50}}]

\* "operate_delay_seconds = 0.020f; /* 20 ms */": a pickup that has lasted 80
\* calls of 250 us has lasted 20 ms.
TripsAfter20ms == TripsAtNominalDelay(250, 20000)
=============================================================================

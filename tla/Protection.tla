----------------------------- MODULE Protection -----------------------------
(***************************************************************************)
(* prot_dispatch: the six elements with the settings of prot_dispatch_init, *)
(* all stepped on the same frame by one call of prot_dispatch_all, their   *)
(* masks OR'd into one output.                                             *)
(***************************************************************************)
EXTENDS DefiniteTime, InverseTime

CONSTANTS
  Magnitude, Angle,   \* of a phasor, as in Diff87
  FastCalls,          \* the calls at the lower clamp of 51 IDMT that first
                      \* reach 1.0f
  Fastest             \* Fastest[n]: the progress after n calls at that clamp

\* Both clamps are set.
ASSUME FastestAssumption ==
  FastCalls \in Nat /\ MinTime \in Duration /\ SteadyRun(Fastest, FastCalls, MinTime)

VARIABLES
  out50, dtlTime, dtlOut, idmtProgress, idmtOut, dirTime, dirOut,
  distTime, distOut, diffTime, diffOut,
  combined,   \* *out of prot_dispatch_all
  fed         \* history: phase -> calls that moved the IDMT progress since
              \* its last reset, up to the SlowCalls of them that matter

elementVars == <<out50, dtlTime, dtlOut, idmtProgress, idmtOut, dirTime, dirOut,
                 distTime, distOut, diffTime, diffOut>>
vars == <<elementVars, combined, fed>>

\* prot_dispatch_init: ABCN for the overcurrent elements, ABC for the others.
LinePhase == Phase \ {"N"}
OvercurrentPickup == [p \in Phase |-> IF p = "N" THEN 50 ELSE 100]
LineOnly(x) == [p \in Phase |-> IF p = "N" THEN 0 ELSE x]

Inst50 == INSTANCE Oc50 WITH
  Enabled <- Phase, PickupCurrent <- OvercurrentPickup, output <- out50
Dtl == INSTANCE Oc51Dtl WITH
  Enabled <- Phase, PickupCurrent <- OvercurrentPickup,
  accumulated_time <- dtlTime, output <- dtlOut
Idmt == INSTANCE Oc51Idmt WITH
  Enabled <- Phase, PickupCurrent <- OvercurrentPickup,
  progress <- idmtProgress, output <- idmtOut
Dir == INSTANCE Dir67 WITH
  Enabled <- LinePhase, PickupCurrent <- LineOnly(100),
  Mode <- "forward", TorqueAngle <- 0, AngleTolerance <- 20,
  MinimumPolarizingVoltage <- 10,
  accumulated_time <- dirTime, output <- dirOut
Dist == INSTANCE Dist21 WITH
  Enabled <- LinePhase, ReachOhms <- LineOnly(10),
  Mode <- "forward", LineAngle <- 0, AngleTolerance <- 20,
  MinimumVoltageMagnitude <- 10, MinimumCurrentMagnitude <- 1,
  accumulated_time <- distTime, output <- distOut
Diff == INSTANCE Diff87 WITH
  Enabled <- LinePhase, MinimumTerminalCurrent <- 1,
  MinimumRestraintCurrent <- 5, PickupOperateCurrent <- 10,
  BiasSlopeTenths <- 3, AngleTolerance <- 30,
  accumulated_time <- diffTime, output <- diffOut

Init ==
  /\ Inst50!Init /\ Dtl!Init /\ Idmt!Init /\ Dir!Init /\ Dist!Init /\ Diff!Init
  /\ combined = NoOutput
  /\ fed = [p \in Phase |-> 0]

Combine(outs) == [start |-> UNION {o.start : o \in outs},
                  trip  |-> UNION {o.trip  : o \in outs},
                  block |-> UNION {o.block : o \in outs}]

Remember(frame) ==
  fed' = [p \in Phase |->
            IF p \in Idmt!Advancing(frame)
            THEN IF fed[p] = SlowCalls THEN SlowCalls ELSE fed[p] + 1
            ELSE IF p \in Idmt!Started(frame) THEN fed[p] ELSE 0]

DispatchAll(frame) ==
  /\ Inst50!Step(frame)
  /\ Dtl!Step(frame)
  /\ Idmt!Step(frame)
  /\ Dir!Step(frame)
  /\ Dist!Step(frame)
  /\ Diff!Step(frame)
  /\ combined' = Combine({out50', dtlOut', idmtOut', dirOut', distOut', diffOut'})
  /\ Remember(frame)

Next == \E frame \in Frame : DispatchAll(frame)

Spec == Init /\ [][Next]_vars
-----------------------------------------------------------------------------
Timers == [Phase -> Time]

\* The type invariant of the elements' global state and of their outputs.
TypeOK ==
  /\ dtlTime \in Timers /\ dirTime \in Timers
  /\ distTime \in Timers /\ diffTime \in Timers
  /\ idmtProgress \in [Phase -> Progress]
  /\ {out50, dtlOut, idmtOut, dirOut, distOut, diffOut, combined} \subseteq Output
  /\ fed \in [Phase -> 0 .. SlowCalls]

\* The directional element never runs ahead of the plain definite-time one,
\* which has its pickup and its delay: whatever trips it has tripped 51 DTL too.
DirectionalNeverAhead ==
  /\ \A p \in LinePhase : dirTime[p] <= dtlTime[p]
  /\ dirOut.trip \subseteq dtlOut.trip

\* With the settings of prot_dispatch_init every delayed overcurrent trip comes
\* in a call in which ANSI 50 trips the same phase, so that the combined trip
\* is decided by 50, 21 and 87 alone.
OvercurrentShadowed ==
  /\ dtlOut.trip \cup idmtOut.trip \cup dirOut.trip \subseteq out50.trip
  /\ combined.trip = out50.trip \cup distOut.trip \cup diffOut.trip

\* The clamps on the inverse curve bound every operate time, as the rounded
\* additions count it: no trip before the calls that the lower clamp alone would
\* take, full progress after those of the upper one, whatever the current did in
\* between; and none is left of an earlier pickup.
IdmtWithinClamps ==
  \A p \in Phase :
    /\ p \in idmtOut.trip => idmtProgress[p] = One /\ fed[p] >= FastCalls
    /\ fed[p] = SlowCalls => idmtProgress[p] = One
    /\ fed[p] = 0 => idmtProgress[p] = 0

\* Each delayed element of the dispatcher trips after its delay and not before.
DtlDelaysTrip  == Dtl!DelaysTrip
DirDelaysTrip  == Dir!DelaysTrip
DistDelaysTrip == Dist!DelaysTrip
DiffDelaysTrip == Diff!DelaysTrip

\* "Trip when progress >= 1.0.": a started phase with full progress trips.
IdmtTripsAtFullProgress ==
  \A p \in idmtOut.start : idmtProgress[p] = One => p \in idmtOut.trip
=============================================================================

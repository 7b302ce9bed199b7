-------------------------- MODULE ProtectionProofs --------------------------
(***************************************************************************)
(* Proofs about the dispatcher with the settings of prot_dispatch_init, for *)
(* every set of frames, every inverse curve and every timer.               *)
(***************************************************************************)
EXTENDS Protection, TLAPS

\* The state the four timers share.
TimersOK == /\ dtlTime \in Timers /\ dirTime \in Timers
            /\ distTime \in Timers /\ diffTime \in Timers

\* Every criterion holds only for enabled phases, and an IDMT phase that advances
\* has started.
LEMMA StartedIsEnabled ==
  ASSUME NEW frame \in Frame
  PROVE  /\ Inst50!Started(frame) \subseteq Phase
         /\ Dtl!Started(frame) \subseteq Phase
         /\ Idmt!Advancing(frame) \subseteq Idmt!Started(frame)
         /\ Idmt!Started(frame) \subseteq Phase
         /\ Dir!Started(frame) \subseteq LinePhase
         /\ Dist!Started(frame) \subseteq LinePhase
         /\ Diff!Started(frame) \subseteq LinePhase
         /\ LinePhase \subseteq Phase
  BY DEF Inst50!Started, Dtl!Started, Idmt!Started, Idmt!Advancing,
         Dir!Started, Dist!Started, Diff!Started, LinePhase

\* 50, 51 DTL, 51 IDMT and 67 have the same pickup on every phase they share.
LEMMA SamePickup ==
  ASSUME NEW frame \in Frame
  PROVE  /\ Dtl!Started(frame) = Inst50!Started(frame)
         /\ Idmt!Started(frame) \subseteq Inst50!Started(frame)
         /\ Dir!Started(frame) \subseteq Inst50!Started(frame)
  BY DEF Inst50!Started, Dtl!Started, Idmt!Started, Dir!Started, LinePhase,
         OvercurrentPickup, LineOnly

\* A call of prot_dispatch keeps the timers in the range of timer values, on
\* any frame.
LEMMA TimersStep ==
  ASSUME TimersOK, NEW frame, DispatchAll(frame)
  PROVE  TimersOK'
<1>1. dtlTime' \in Timers
  BY TimerAssumption DEF DispatchAll, Dtl!Step, Dtl!NextTimer, TimersOK, Timers
<1>2. dirTime' \in Timers
  BY TimerAssumption DEF DispatchAll, Dir!Step, Dir!Run, Dir!NextTimer, TimersOK, Timers
<1>3. distTime' \in Timers
  BY TimerAssumption DEF DispatchAll, Dist!Step, Dist!Run, Dist!NextTimer, TimersOK, Timers
<1>4. diffTime' \in Timers
  BY TimerAssumption DEF DispatchAll, Diff!Step, Diff!Run, Diff!NextTimer, TimersOK, Timers
<1>5. QED
  BY <1>1, <1>2, <1>3, <1>4 DEF TimersOK

\* The state prot_dispatch_init leaves, unfolded through the six instances.
LEMMA InitialState ==
  ASSUME Init
  PROVE  LET zero == [p \in Phase |-> 0] IN
         /\ dtlTime = zero /\ dirTime = zero /\ distTime = zero /\ diffTime = zero
         /\ idmtProgress = zero /\ fed = zero
         /\ out50 = NoOutput /\ dtlOut = NoOutput /\ idmtOut = NoOutput
         /\ dirOut = NoOutput /\ distOut = NoOutput /\ diffOut = NoOutput
         /\ combined = NoOutput
  BY DEF Init, NoOutput, Inst50!Init, Inst50!NoOutput, Dtl!Init, Dtl!NoOutput,
         Idmt!Init, Idmt!NoOutput, Dir!Init, Dir!NoOutput, Dist!Init,
         Dist!NoOutput, Diff!Init, Diff!NoOutput

\* Whatever has tripped 67 has tripped 51 DTL: both count from the same pickup,
\* but only 67 is reset by the direction.
DirectionInv == TimersOK /\ DirectionalNeverAhead

\* A call keeps the timer of 67 at or below that of 51 DTL.
LEMMA DirectionStep ==
  ASSUME DirectionInv, NEW frame \in Frame, DispatchAll(frame)
  PROVE  DirectionInv'
<1> USE DEF DirectionInv
<1>1. TimersOK'
  BY TimersStep
<1>2. ASSUME NEW p \in LinePhase
      PROVE  dirTime'[p] <= dtlTime'[p]
  <2>1. /\ p \in Phase /\ dirTime[p] \in Time /\ dtlTime[p] \in Time
        /\ dirTime[p] <= dtlTime[p]
    BY <1>2 DEF TimersOK, Timers, DirectionalNeverAhead, LinePhase
  <2>2. dtlTime'[p] = IF p \in Dtl!Started(frame) THEN AddDt[dtlTime[p]] ELSE 0
    BY <2>1 DEF DispatchAll, Dtl!Step, Dtl!NextTimer
  <2>3. dirTime'[p] = IF p \in Dir!Started(frame)
                      THEN IF OperateDelay > 0 THEN AddDt[dirTime[p]] ELSE dirTime[p]
                      ELSE 0
    BY <1>2, <2>1, DelayAssumption DEF DispatchAll, Dir!Step, Dir!Run, Dir!NextTimer
  <2>4. CASE p \in Dir!Started(frame)
    <3>1. p \in Dtl!Started(frame)
      BY <2>4, SamePickup
    <3>2. /\ AddDt[dirTime[p]] <= AddDt[dtlTime[p]]
          /\ dirTime[p] <= AddDt[dirTime[p]]
          /\ {dirTime[p], AddDt[dirTime[p]], AddDt[dtlTime[p]]} \subseteq Nat
      BY <2>1, MonotoneAssumption, TimerAssumption
    <3>3. QED
      BY <2>2, <2>3, <2>4, <3>1, <3>2
  <2>5. CASE p \notin Dir!Started(frame)
    <3>1. dtlTime'[p] \in Nat
      BY <1>1, <2>1, TimerAssumption DEF TimersOK, Timers
    <3>2. QED
      BY <2>3, <2>5, <3>1
  <2>6. QED
    BY <2>4, <2>5
<1>3. dirOut'.trip \subseteq dtlOut'.trip
  <2> SUFFICES ASSUME NEW p \in dirOut'.trip
               PROVE  p \in dtlOut'.trip
    OBVIOUS
  <2>1. p \in Dir!TimedTrip(Dir!Started(frame))
    BY DEF DispatchAll, Dir!Step, Dir!Run
  <2>2. p \in Dir!Started(frame)
    BY <2>1 DEF Dir!TimedTrip
  <2>3. p \in LinePhase /\ p \in Phase /\ p \in Dtl!Started(frame)
    BY <2>2, StartedIsEnabled, SamePickup
  <2>4. dirTime'[p] \in Nat /\ dtlTime'[p] \in Nat
    BY <1>1, <2>3, TimerAssumption DEF TimersOK, Timers
  <2>5. dirTime'[p] >= OperateDelay
    <3>1. dirTime'[p] = Dir!NextTimer(Dir!Started(frame), p)
      BY <2>3 DEF DispatchAll, Dir!Step, Dir!Run
    <3>2. QED
      BY <2>1, <2>4, <3>1, DelayAssumption DEF Dir!TimedTrip
  <2>6. dtlTime'[p] >= OperateDelay
    BY <1>2, <2>3, <2>4, <2>5, DelayAssumption
  <2>7. QED
    BY <2>3, <2>6 DEF DispatchAll, Dtl!Step, Dtl!NextTimer
<1>4. QED
  BY <1>1, <1>2, <1>3 DEF DirectionalNeverAhead

\* 67 never runs ahead of 51 DTL.
THEOREM DirectionalNeverAheadHolds == Spec => []DirectionalNeverAhead
<1>1. Init => DirectionInv
  BY InitialState, TimerAssumption
     DEF DirectionInv, TimersOK, Timers, DirectionalNeverAhead, LinePhase
<1>2. DirectionInv /\ [Next]_vars => DirectionInv'
  <2> SUFFICES ASSUME DirectionInv, [Next]_vars
               PROVE  DirectionInv'
    OBVIOUS
  <2>1. ASSUME NEW frame \in Frame, DispatchAll(frame)
        PROVE  DirectionInv'
    BY <2>1, DirectionStep
  <2>2. CASE UNCHANGED vars
    BY <2>2 DEF vars, elementVars, DirectionInv, TimersOK, DirectionalNeverAhead
  <2>3. QED
    BY <2>1, <2>2 DEF Next
<1>3. DirectionInv => DirectionalNeverAhead
  BY DEF DirectionInv
<1>4. QED
  BY <1>1, <1>2, <1>3, PTL DEF Spec

\* The delayed overcurrent elements never add a phase to the combined trip.
THEOREM OvercurrentShadowedHolds == Spec => []OvercurrentShadowed
<1>1. Init => OvercurrentShadowed
  BY InitialState DEF OvercurrentShadowed, NoOutput
<1>2. OvercurrentShadowed /\ [Next]_vars => OvercurrentShadowed'
  <2> SUFFICES ASSUME OvercurrentShadowed, [Next]_vars
               PROVE  OvercurrentShadowed'
    OBVIOUS
  <2>1. ASSUME NEW frame \in Frame, DispatchAll(frame)
        PROVE  OvercurrentShadowed'
    <3> USE <2>1
    <3>1. out50'.trip = Inst50!Started(frame)
      BY DEF DispatchAll, Inst50!Step
    <3>2. dtlOut'.trip \subseteq Dtl!Started(frame)
      BY DEF DispatchAll, Dtl!Step, Dtl!NextTimer
    <3>3. idmtOut'.trip \subseteq Idmt!Started(frame)
      BY StartedIsEnabled DEF DispatchAll, Idmt!Step
    <3>4. dirOut'.trip \subseteq Dir!Started(frame)
      BY DEF DispatchAll, Dir!Step, Dir!Run, Dir!TimedTrip
    <3>5. dtlOut'.trip \cup idmtOut'.trip \cup dirOut'.trip \subseteq out50'.trip
      BY <3>1, <3>2, <3>3, <3>4, SamePickup
    <3>6. combined'.trip = out50'.trip \cup dtlOut'.trip \cup idmtOut'.trip
                             \cup dirOut'.trip \cup distOut'.trip \cup diffOut'.trip
      BY DEF DispatchAll, Combine
    <3>7. QED
      BY <3>5, <3>6 DEF OvercurrentShadowed
  <2>2. CASE UNCHANGED vars
    BY <2>2 DEF vars, elementVars, OvercurrentShadowed
  <2>3. QED
    BY <2>1, <2>2 DEF Next
<1>3. QED
  BY <1>1, <1>2, PTL DEF Spec

\* A call that moves the progress adds the share of an operate time between the
\* clamps.
LEMMA TimeWithinClamps ==
  ASSUME NEW frame \in Frame, NEW p \in Idmt!Advancing(frame)
  PROVE  LET t == Idmt!OperateTime(frame, p) IN
         t \in Duration /\ t \in Nat /\ MinTime <= t /\ t <= MaxTime
<1> DEFINE time == CurveTime[OvercurrentPickup[p]][frame.current_magnitude[p]]
<1>1. p \in Phase /\ OvercurrentPickup[p] \in {50, 100}
  BY StartedIsEnabled DEF OvercurrentPickup
<1>2. time # 0
  BY DEF Idmt!Advancing, Idmt!Degenerate
<1>3. time \in Nat /\ (time > 0 => Clamped(time) \in Duration)
  BY <1>1, CurveAssumption
<1>4. Idmt!OperateTime(frame, p) = Clamped(time)
  BY DEF Idmt!OperateTime, Idmt!Clamped, Clamped
<1> HIDE DEF time
<1>5. Clamped(time) \in Nat /\ MinTime <= Clamped(time) /\ Clamped(time) <= MaxTime
  BY <1>3, CurveAssumption DEF Clamped
<1>6. QED
  BY <1>2, <1>3, <1>4, <1>5

\* One call moves the inverse-time progress to another of its values.
LEMMA ProgressStep ==
  ASSUME idmtProgress \in [Phase -> Progress], NEW frame \in Frame,
         DispatchAll(frame)
  PROVE  idmtProgress' \in [Phase -> Progress]
<1> DEFINE ahead(p) == Idmt!Advanced(frame, p)
<1>1. ASSUME NEW p \in Idmt!Advancing(frame)
      PROVE  (IF ahead(p) >= One THEN One ELSE ahead(p)) \in Progress
  <2>1. p \in Phase /\ idmtProgress[p] \in Progress
    BY StartedIsEnabled
  <2>2. PICK t \in Duration : t = Idmt!OperateTime(frame, p)
    BY TimeWithinClamps
  <2>3. ahead(p) = AddShare[idmtProgress[p]][t]
    BY <2>2 DEF Idmt!Advanced
  <2>4. /\ AddShare[idmtProgress[p]][t] \in Nat
        /\ AddShare[idmtProgress[p]][t] < One => AddShare[idmtProgress[p]][t] \in Progress
    BY <2>1, ShareAssumption
  <2>5. QED
    BY <2>3, <2>4, ShareAssumption
<1>2. ASSUME NEW p \in Phase
      PROVE  idmtProgress'[p] \in Progress
  <2>1. idmtProgress'[p] =
          IF p \in Idmt!Advancing(frame)
          THEN IF ahead(p) >= One THEN One ELSE ahead(p)
          ELSE IF p \in Phase \ Idmt!Started(frame) THEN 0 ELSE idmtProgress[p]
    BY <1>2 DEF DispatchAll, Idmt!Step, Idmt!Latched
  <2>2. 0 \in Progress /\ idmtProgress[p] \in Progress
    BY <1>2, ShareAssumption
  <2> HIDE DEF ahead
  <2>3. QED
    BY <1>1, <2>1, <2>2
<1>3. QED
  BY <1>2 DEF DispatchAll, Idmt!Step

\* What a call puts out, per element and combined, is a well-formed output.
LEMMA OutputsStep ==
  ASSUME NEW frame \in Frame, DispatchAll(frame)
  PROVE  {out50, dtlOut, idmtOut, dirOut, distOut, diffOut, combined}' \subseteq Output
<1>1. out50' \in Output /\ dtlOut' \in Output
  BY StartedIsEnabled DEF DispatchAll, Inst50!Step, Dtl!Step, Output
<1>2. idmtOut' \in Output
  BY StartedIsEnabled DEF DispatchAll, Idmt!Step, Output
<1>3. dirOut' \in Output
  BY StartedIsEnabled DEF DispatchAll, Dir!Step, Dir!Run, Dir!TimedTrip, Output
<1>4. distOut' \in Output
  BY StartedIsEnabled DEF DispatchAll, Dist!Step, Dist!Run, Dist!TimedTrip, Output
<1>5. diffOut' \in Output
  BY StartedIsEnabled DEF DispatchAll, Diff!Step, Diff!Run, Diff!TimedTrip, Output
<1>6. combined' \in Output
  BY <1>1, <1>2, <1>3, <1>4, <1>5 DEF DispatchAll, Combine, Output
<1>7. QED
  BY <1>1, <1>2, <1>3, <1>4, <1>5, <1>6

\* The elements' state and every mask stay in range.
THEOREM TypeCorrect == Spec => []TypeOK
<1>1. Init => TypeOK
  BY InitialState, TimerAssumption, ShareAssumption, SlowestAssumption
     DEF TypeOK, Timers, Output, NoOutput
<1>2. TypeOK /\ [Next]_vars => TypeOK'
  <2> SUFFICES ASSUME TypeOK, [Next]_vars
               PROVE  TypeOK'
    OBVIOUS
  <2>1. ASSUME NEW frame \in Frame, DispatchAll(frame)
        PROVE  TypeOK'
    <3> USE <2>1
    <3>1. TimersOK'
      BY TimersStep DEF TypeOK, TimersOK
    <3>2. idmtProgress' \in [Phase -> Progress]
      BY ProgressStep DEF TypeOK
    <3>3. {out50, dtlOut, idmtOut, dirOut, distOut, diffOut, combined}' \subseteq Output
      BY OutputsStep
    <3>4. fed' \in [Phase -> 0 .. SlowCalls]
      BY SlowestAssumption DEF TypeOK, DispatchAll, Remember
    <3>5. QED
      BY <3>1, <3>2, <3>3, <3>4 DEF TypeOK, TimersOK
  <2>2. CASE UNCHANGED vars
    BY <2>2 DEF vars, elementVars, TypeOK
  <2>3. QED
    BY <2>1, <2>2 DEF Next
<1>3. QED
  BY <1>1, <1>2, PTL DEF Spec
-----------------------------------------------------------------------------
(* The clamps of the inverse-time element *)

\* The progress after n calls that moved it is no less than that of n calls at
\* the upper clamp, and no more than that of n calls at the lower one.
Between(progress, n) ==
  /\ Slowest[n] <= progress
  /\ n < FastCalls => progress <= Fastest[n]
  /\ n = 0 => progress = 0

\* The inductive invariant.
ClampInv ==
  /\ idmtProgress \in [Phase -> Progress] /\ fed \in [Phase -> 0 .. SlowCalls]
  /\ \A p \in Phase :
       /\ Between(idmtProgress[p], fed[p])
       /\ p \in idmtOut.trip => idmtProgress[p] = One /\ fed[p] >= FastCalls

\* The two bounds, from one call to the next.
LEMMA Bounds ==
  /\ SlowCalls \in Nat \ {0} /\ FastCalls \in Nat \ {0} /\ One \in Nat \ {0}
  /\ Progress \subseteq 0 .. One /\ 0 \in Progress
  /\ Slowest[0] = 0 /\ Slowest[SlowCalls] = One /\ Fastest[0] = 0
  /\ \A n \in 0 .. SlowCalls : Slowest[n] \in Progress
  /\ \A n \in 0 .. FastCalls - 1 : Fastest[n] \in Progress /\ Fastest[n] < One
  /\ \A n \in 1 .. SlowCalls :
       AddShare[Slowest[n - 1]][MaxTime] >= One \/ Slowest[n] = AddShare[Slowest[n - 1]][MaxTime]
  /\ \A n \in 1 .. FastCalls - 1 : Fastest[n] = AddShare[Fastest[n - 1]][MinTime]
<1>1. /\ One \in Nat \ {0} /\ Progress \subseteq 0 .. One /\ 0 \in Progress
  BY ShareAssumption
<1>2. SlowCalls \in Nat /\ FastCalls \in Nat
  BY SlowestAssumption, FastestAssumption
<1>3. /\ Slowest \in [0 .. SlowCalls -> Progress] /\ Slowest[0] = 0 /\ Slowest[SlowCalls] = One
      /\ \A n \in 1 .. SlowCalls :
           /\ Slowest[n - 1] < One
           /\ IF n < SlowCalls THEN Slowest[n] = AddShare[Slowest[n - 1]][MaxTime]
              ELSE AddShare[Slowest[n - 1]][MaxTime] >= One
  BY SlowestAssumption DEF SteadyRun
<1>4. /\ Fastest \in [0 .. FastCalls -> Progress] /\ Fastest[0] = 0 /\ Fastest[FastCalls] = One
      /\ \A n \in 1 .. FastCalls :
           /\ Fastest[n - 1] < One
           /\ IF n < FastCalls THEN Fastest[n] = AddShare[Fastest[n - 1]][MinTime]
              ELSE AddShare[Fastest[n - 1]][MinTime] >= One
  BY FastestAssumption DEF SteadyRun
<1>5. SlowCalls # 0 /\ FastCalls # 0
  BY <1>1, <1>3, <1>4
<1>6. ASSUME NEW n \in 0 .. FastCalls - 1
      PROVE  Fastest[n] \in Progress /\ Fastest[n] < One
  <2>1. n + 1 \in 1 .. FastCalls /\ (n + 1) - 1 = n /\ n \in 0 .. FastCalls
    BY <1>2
  <2>2. Fastest[(n + 1) - 1] < One
    BY <1>4, <2>1
  <2>3. QED
    BY <1>4, <2>1, <2>2
<1>7. ASSUME NEW n \in 1 .. SlowCalls
      PROVE  AddShare[Slowest[n - 1]][MaxTime] >= One
               \/ Slowest[n] = AddShare[Slowest[n - 1]][MaxTime]
  BY <1>3
<1>8. ASSUME NEW n \in 1 .. FastCalls - 1
      PROVE  Fastest[n] = AddShare[Fastest[n - 1]][MinTime]
  <2>1. n \in 1 .. FastCalls /\ n < FastCalls
    BY <1>2
  <2>2. QED
    BY <1>4, <2>1
<1>9. \A n \in 0 .. SlowCalls : Slowest[n] \in Progress
  BY <1>3
<1>10. QED
  BY <1>1, <1>2, <1>3, <1>4, <1>5, <1>6, <1>7, <1>8, <1>9

\* One call that moves the progress keeps it between the two.
LEMMA OneMore ==
  ASSUME NEW t \in Duration, t \in Nat, MinTime <= t, t <= MaxTime,
         NEW progress \in Progress, NEW n \in 0 .. SlowCalls, Between(progress, n)
  PROVE  LET sum == AddShare[progress][t]
             m   == IF n = SlowCalls THEN SlowCalls ELSE n + 1
         IN  /\ Between(Idmt!Latched(sum), m)
             /\ sum >= One => m >= FastCalls
<1> DEFINE sum == AddShare[progress][t]
           m   == IF n = SlowCalls THEN SlowCalls ELSE n + 1
           next == Idmt!Latched(sum)
<1>0. /\ One \in Nat \ {0} /\ FastCalls \in Nat /\ SlowCalls \in Nat \ {0}
      /\ Slowest[SlowCalls] = One
  BY Bounds
<1>a. \A x \in Progress : x \in Nat /\ x <= One
  <2>1. One \in Nat /\ Progress \subseteq 0 .. One
    BY Bounds
  <2>2. \A x \in 0 .. One : x \in Nat /\ x <= One
    BY <2>1
  <2>3. QED
    BY <2>1, <2>2
<1>b. \A k \in 0 .. SlowCalls : Slowest[k] \in Progress
  BY Bounds
<1>c. \A k \in 0 .. FastCalls - 1 : Fastest[k] \in Progress /\ Fastest[k] < One
  BY Bounds
<1>1. /\ sum \in Nat /\ progress <= sum /\ progress \in Nat /\ progress <= One
      /\ next = IF sum >= One THEN One ELSE sum
  BY ShareAssumption DEF Idmt!Latched
<1>2. /\ MinTime \in Duration /\ MaxTime \in Duration
      /\ m \in Nat /\ m > 0 /\ n \in Nat /\ m <= SlowCalls
      /\ m = n + 1 \/ (n = SlowCalls /\ m = n)
  BY <1>0, CurveAssumption, FastestAssumption
<1> HIDE DEF sum, m, next
<1>3. Slowest[m] <= next
  <2>1. /\ Slowest[n] \in Progress /\ Slowest[n] \in Nat
        /\ Slowest[m] \in Nat /\ Slowest[m] <= One
    <3>1. n \in 0 .. SlowCalls /\ m \in 0 .. SlowCalls
      BY <1>2
    <3>2. Slowest[n] \in Progress /\ Slowest[m] \in Progress
      BY <1>b, <3>1
    <3>3. QED
      BY <1>a, <3>2
  <2>2. CASE m = n + 1
    <3>1. AddShare[Slowest[n]][MaxTime] <= sum
      BY <1>2, <2>1, ShareAssumption DEF Between, sum
    <3>2. AddShare[Slowest[n]][MaxTime] \in Nat
      BY <1>2, <2>1, ShareAssumption
    <3>3. AddShare[Slowest[n]][MaxTime] >= One \/ Slowest[m] = AddShare[Slowest[n]][MaxTime]
      <4>1. m \in 1 .. SlowCalls /\ m - 1 = n
        BY <1>0, <1>2, <2>2
      <4>2. QED
        BY <4>1, Bounds
    <3>4. CASE sum >= One
      BY <1>0, <1>1, <2>1, <3>4
    <3>5. CASE ~(sum >= One)
      BY <1>0, <1>1, <3>1, <3>2, <3>3, <3>5
    <3>6. QED
      BY <3>4, <3>5
  <2>3. CASE n = SlowCalls /\ m = n
    <3>1. One <= progress
      BY <1>0, <2>3 DEF Between
    <3>2. next = One
      BY <1>0, <1>1, <3>1
    <3>3. QED
      BY <2>1, <3>2
  <2>4. QED
    BY <1>2, <2>2, <2>3
<1>4. ASSUME m < FastCalls
      PROVE  sum < One /\ sum <= Fastest[m]
  <2>1. CASE m = n + 1
    <3>1. n < FastCalls /\ n \in 0 .. FastCalls - 1 /\ m \in 1 .. FastCalls - 1 /\ m - 1 = n
      BY <1>0, <1>2, <1>4, <2>1
    <3>2. /\ Fastest[n] \in Progress /\ progress <= Fastest[n]
          /\ Fastest[m] = AddShare[Fastest[n]][MinTime]
      BY <3>1, Bounds DEF Between
    <3>3. sum <= AddShare[Fastest[n]][MinTime]
      BY <1>2, <3>2, ShareAssumption DEF sum
    <3>4. Fastest[m] \in Progress /\ Fastest[m] < One
      <4>1. m \in 0 .. FastCalls - 1
        BY <1>0, <3>1
      <4>2. QED
        BY <1>c, <4>1
    <3>5. Fastest[m] \in Nat
      BY <1>a, <3>4
    <3>6. QED
      BY <1>0, <1>1, <3>2, <3>3, <3>4, <3>5
  <2>2. CASE n = SlowCalls /\ m = n
    <3>1. n \in 0 .. FastCalls - 1
      BY <1>0, <1>2, <1>4, <2>2
    <3>2. Fastest[n] < One /\ Fastest[n] \in Progress
      BY <1>c, <3>1
    <3>3. progress <= Fastest[n]
      BY <1>2, <1>4, <2>2 DEF Between
    <3>4. Fastest[n] \in Nat
      BY <1>a, <3>2
    <3>5. One <= progress
      BY <1>0, <2>2 DEF Between
    <3>6. FALSE
      BY <1>0, <1>1, <3>2, <3>3, <3>4, <3>5
    <3>7. QED
      BY <3>6
  <2>3. QED
    BY <1>2, <2>1, <2>2
<1>5. m < FastCalls => next <= Fastest[m]
  BY <1>0, <1>1, <1>4
<1>6. sum >= One => m >= FastCalls
  BY <1>0, <1>1, <1>2, <1>4
<1>7. Between(next, m)
  BY <1>2, <1>3, <1>5 DEF Between
<1>8. QED
  BY <1>6, <1>7 DEF sum, m, next

\* A call of the dispatcher keeps the progress between the clamps.
LEMMA ClampStep ==
  ASSUME ClampInv, NEW frame \in Frame, DispatchAll(frame)
  PROVE  ClampInv'
<1>1. idmtProgress' \in [Phase -> Progress]
  BY ProgressStep DEF ClampInv
<1>2. fed' \in [Phase -> 0 .. SlowCalls]
  BY SlowestAssumption DEF ClampInv, DispatchAll, Remember
<1>3. ASSUME NEW p \in Phase
      PROVE  /\ Between(idmtProgress'[p], fed'[p])
             /\ p \in idmtOut'.trip => idmtProgress'[p] = One /\ fed'[p] >= FastCalls
  <2>1. /\ idmtProgress[p] \in Progress /\ fed[p] \in 0 .. SlowCalls
        /\ Between(idmtProgress[p], fed[p])
    BY <1>3 DEF ClampInv
  <2>2. CASE p \in Idmt!Advancing(frame)
    <3>1. PICK t \in Duration : /\ t = Idmt!OperateTime(frame, p)
                                /\ t \in Nat /\ MinTime <= t /\ t <= MaxTime
      BY <2>2, TimeWithinClamps
    <3> DEFINE sum == AddShare[idmtProgress[p]][t]
    <3>2. /\ idmtProgress'[p] = Idmt!Latched(sum)
          /\ p \in idmtOut'.trip => sum >= One
      BY <1>3, <2>2, <3>1 DEF DispatchAll, Idmt!Step, Idmt!Advanced
    <3>3. fed'[p] = IF fed[p] = SlowCalls THEN SlowCalls ELSE fed[p] + 1
      BY <1>3, <2>2 DEF DispatchAll, Remember
    <3>4. /\ Between(Idmt!Latched(sum), fed'[p])
          /\ sum >= One => fed'[p] >= FastCalls
      BY <2>1, <3>1, <3>3, OneMore
    <3> HIDE DEF sum
    <3>5. p \in idmtOut'.trip => idmtProgress'[p] = One
      BY <3>2 DEF Idmt!Latched
    <3>6. QED
      BY <3>2, <3>4, <3>5
  <2>3. CASE p \notin Idmt!Advancing(frame)
    <3>1. p \notin idmtOut'.trip
      BY <2>3 DEF DispatchAll, Idmt!Step
    <3>2. \/ idmtProgress'[p] = idmtProgress[p] /\ fed'[p] = fed[p]
          \/ idmtProgress'[p] = 0 /\ fed'[p] = 0
      BY <1>3, <2>3 DEF DispatchAll, Idmt!Step, Remember
    <3>3. Between(0, 0)
      BY Bounds DEF Between
    <3>4. QED
      BY <2>1, <3>1, <3>2, <3>3
  <2>4. QED
    BY <2>2, <2>3
<1>4. QED
  BY <1>1, <1>2, <1>3 DEF ClampInv

\* The clamps bound every operate time, in calls of the rounded additions, for
\* every curve, every rounding that keeps the order, and whatever the current
\* does in between.
THEOREM IdmtWithinClampsHolds == Spec => []IdmtWithinClamps
<1>1. Init => ClampInv
  <2> SUFFICES ASSUME Init
               PROVE  ClampInv
    OBVIOUS
  <2>1. /\ idmtProgress = [p \in Phase |-> 0] /\ fed = [p \in Phase |-> 0]
        /\ idmtOut.trip = {}
    BY InitialState DEF NoOutput
  <2>2. 0 \in 0 .. SlowCalls /\ 0 \in Progress /\ Between(0, 0)
    BY Bounds DEF Between
  <2>3. QED
    BY <2>1, <2>2 DEF ClampInv
<1>2. ClampInv /\ [Next]_vars => ClampInv'
  <2> SUFFICES ASSUME ClampInv, [Next]_vars
               PROVE  ClampInv'
    OBVIOUS
  <2>1. ASSUME NEW frame \in Frame, DispatchAll(frame)
        PROVE  ClampInv'
    BY <2>1, ClampStep
  <2>2. CASE UNCHANGED vars
    BY <2>2 DEF vars, elementVars, ClampInv
  <2>3. QED
    BY <2>1, <2>2 DEF Next
<1>3. ClampInv => IdmtWithinClamps
  <2> SUFFICES ASSUME ClampInv, NEW p \in Phase, fed[p] = SlowCalls
               PROVE  idmtProgress[p] = One
    BY DEF ClampInv, Between, IdmtWithinClamps
  <2>1. One <= idmtProgress[p] /\ idmtProgress[p] \in 0 .. One
    BY Bounds DEF ClampInv, Between
  <2>2. QED
    BY <2>1, Bounds
<1>4. QED
  BY <1>1, <1>2, <1>3, PTL DEF Spec

-----------------------------------------------------------------------------
(* Trip delays: an element behind the dispatcher is the element alone *)

\* The proofs about the elements alone, for the state the dispatcher keeps.
DtlTimer == INSTANCE Oc51DtlProofs WITH
  Enabled <- Phase, PickupCurrent <- OvercurrentPickup,
  accumulated_time <- dtlTime, output <- dtlOut
DirTimer == INSTANCE SupervisedTimerProofs WITH
  Enabled <- LinePhase, accumulated_time <- dirTime, output <- dirOut
DistTimer == INSTANCE SupervisedTimerProofs WITH
  Enabled <- LinePhase, accumulated_time <- distTime, output <- distOut
DiffTimer == INSTANCE SupervisedTimerProofs WITH
  Enabled <- LinePhase, accumulated_time <- diffTime, output <- diffOut

\* The dispatcher steps 51 DTL on every frame, and every frame steps it.
THEOREM DtlDelaysTripHolds == Spec => DtlDelaysTrip
<1>1. DtlTimer!Spec => DtlTimer!DelaysTrip
  BY DtlTimer!DtlImplementsDelayedTrip, TimerAssumption, MonotoneAssumption,
     DelayAssumption
<1>2. Init => DtlTimer!Init
  BY DEF Init, Dtl!Init, DtlTimer!Init, Dtl!NoOutput, DtlTimer!NoOutput
<1>3. [Next]_vars => [\E frame \in Frame : DtlTimer!Step(frame)]_<<dtlTime, dtlOut>>
  <2>1. ASSUME NEW frame \in Frame, DispatchAll(frame)
        PROVE  DtlTimer!Step(frame)
    BY <2>1 DEF DispatchAll, Dtl!Step, DtlTimer!Step, Dtl!Started,
         DtlTimer!Started, Dtl!NextTimer, DtlTimer!NextTimer
  <2>2. QED
    BY <2>1 DEF Next, vars, elementVars
<1>4. DtlTimer!DelaysTrip => DtlDelaysTrip
  <2>1. DtlTimer!Trip!Init => Dtl!Trip!Init
    BY DEF DtlTimer!Trip!Init, Dtl!Trip!Init
  <2>2. DtlTimer!Trip!Next => Dtl!Trip!Next
    BY DEF DtlTimer!Trip!Next, Dtl!Trip!Next, DtlTimer!Trip!Call, Dtl!Trip!Call
  <2>3. QED
    BY <2>1, <2>2, PTL
       DEF DtlTimer!DelaysTrip, DtlDelaysTrip, Dtl!DelaysTrip,
           DtlTimer!Trip!Spec, Dtl!Trip!Spec
<1>5. QED
  BY <1>1, <1>2, <1>3, <1>4, PTL DEF Spec, DtlTimer!Spec, DtlTimer!vars

\* A phase of 67 trips in exactly the calls that end a full delay in which it
\* was over its pickup in the set direction, for every sequence of frames.
THEOREM DirDelaysTripHolds == Spec => DirDelaysTrip
<1>1. DirTimer!TimerSpec => DirTimer!DelaysTrip
  BY DirTimer!SupervisedTimerImplementsDelayedTrip, TimerAssumption,
     MonotoneAssumption, DelayAssumption DEF LinePhase
<1>2. Init => DirTimer!Init
  BY DEF Init, Dir!Init, DirTimer!Init, Dir!NoOutput, DirTimer!NoOutput
<1>3. [Next]_vars
        => [\E met \in SUBSET LinePhase : DirTimer!Run(met)]_<<dirTime, dirOut>>
  <2>1. ASSUME NEW frame \in Frame, DispatchAll(frame)
        PROVE  \E met \in SUBSET LinePhase : DirTimer!Run(met)
    <3>1. Dir!Run(Dir!Started(frame))
      BY <2>1 DEF DispatchAll, Dir!Step
    <3>2. DirTimer!Run(Dir!Started(frame))
      BY <3>1 DEF Dir!Run, DirTimer!Run, Dir!NextTimer, DirTimer!NextTimer,
           Dir!TimedTrip, DirTimer!TimedTrip
    <3>3. QED
      BY <3>2, StartedIsEnabled
  <2>2. QED
    BY <2>1 DEF Next, vars, elementVars
<1>4. DirTimer!DelaysTrip => DirDelaysTrip
  BY DEF DirTimer!DelaysTrip, DirDelaysTrip, Dir!DelaysTrip,
         DirTimer!Trip!Spec, Dir!Trip!Spec, DirTimer!Trip!Init, Dir!Trip!Init,
         DirTimer!Trip!Next, Dir!Trip!Next, DirTimer!Trip!Call, Dir!Trip!Call
<1>5. QED
  BY <1>1, <1>2, <1>3, <1>4, PTL DEF Spec, DirTimer!TimerSpec, DirTimer!vars

\* A phase of 21 trips in exactly the calls that end a full delay in which its
\* apparent impedance was in the zone.
THEOREM DistDelaysTripHolds == Spec => DistDelaysTrip
<1>1. DistTimer!TimerSpec => DistTimer!DelaysTrip
  BY DistTimer!SupervisedTimerImplementsDelayedTrip, TimerAssumption,
     MonotoneAssumption, DelayAssumption DEF LinePhase
<1>2. Init => DistTimer!Init
  BY DEF Init, Dist!Init, DistTimer!Init, Dist!NoOutput, DistTimer!NoOutput
<1>3. [Next]_vars
        => [\E met \in SUBSET LinePhase : DistTimer!Run(met)]_<<distTime, distOut>>
  <2>1. ASSUME NEW frame \in Frame, DispatchAll(frame)
        PROVE  \E met \in SUBSET LinePhase : DistTimer!Run(met)
    <3>1. Dist!Run(Dist!Started(frame))
      BY <2>1 DEF DispatchAll, Dist!Step
    <3>2. DistTimer!Run(Dist!Started(frame))
      BY <3>1 DEF Dist!Run, DistTimer!Run, Dist!NextTimer, DistTimer!NextTimer,
           Dist!TimedTrip, DistTimer!TimedTrip
    <3>3. QED
      BY <3>2, StartedIsEnabled
  <2>2. QED
    BY <2>1 DEF Next, vars, elementVars
<1>4. DistTimer!DelaysTrip => DistDelaysTrip
  BY DEF DistTimer!DelaysTrip, DistDelaysTrip, Dist!DelaysTrip,
         DistTimer!Trip!Spec, Dist!Trip!Spec, DistTimer!Trip!Init, Dist!Trip!Init,
         DistTimer!Trip!Next, Dist!Trip!Next, DistTimer!Trip!Call, Dist!Trip!Call
<1>5. QED
  BY <1>1, <1>2, <1>3, <1>4, PTL DEF Spec, DistTimer!TimerSpec, DistTimer!vars

\* A phase of 87 trips in exactly the calls that end a full delay in which the
\* differential criterion held.
THEOREM DiffDelaysTripHolds == Spec => DiffDelaysTrip
<1>1. DiffTimer!TimerSpec => DiffTimer!DelaysTrip
  BY DiffTimer!SupervisedTimerImplementsDelayedTrip, TimerAssumption,
     MonotoneAssumption, DelayAssumption DEF LinePhase
<1>2. Init => DiffTimer!Init
  BY DEF Init, Diff!Init, DiffTimer!Init, Diff!NoOutput, DiffTimer!NoOutput
<1>3. [Next]_vars
        => [\E met \in SUBSET LinePhase : DiffTimer!Run(met)]_<<diffTime, diffOut>>
  <2>1. ASSUME NEW frame \in Frame, DispatchAll(frame)
        PROVE  \E met \in SUBSET LinePhase : DiffTimer!Run(met)
    <3>1. Diff!Run(Diff!Started(frame))
      BY <2>1 DEF DispatchAll, Diff!Step
    <3>2. DiffTimer!Run(Diff!Started(frame))
      BY <3>1 DEF Diff!Run, DiffTimer!Run, Diff!NextTimer, DiffTimer!NextTimer,
           Diff!TimedTrip, DiffTimer!TimedTrip
    <3>3. QED
      BY <3>2, StartedIsEnabled
  <2>2. QED
    BY <2>1 DEF Next, vars, elementVars
<1>4. DiffTimer!DelaysTrip => DiffDelaysTrip
  BY DEF DiffTimer!DelaysTrip, DiffDelaysTrip, Diff!DelaysTrip,
         DiffTimer!Trip!Spec, Diff!Trip!Spec, DiffTimer!Trip!Init, Diff!Trip!Init,
         DiffTimer!Trip!Next, Diff!Trip!Next, DiffTimer!Trip!Call, Diff!Trip!Call
<1>5. QED
  BY <1>1, <1>2, <1>3, <1>4, PTL DEF Spec, DiffTimer!TimerSpec, DiffTimer!vars
=============================================================================

-------------------------- MODULE BenchmarkProofs --------------------------
(***************************************************************************)
(* Proofs about the two benchmark programs, for every number of warm-up    *)
(* calls, samples and steps per call, and whichever calls fail.            *)
(***************************************************************************)
EXTENDS Benchmark, TLAPS

-----------------------------------------------------------------------------
(* The cases *)

\* The cases of a program are its array, each with a name of its own.
LEMMA CasesOfProgram ==
  ASSUME program \in {"prot", "meas"}
  PROVE  /\ Len(Benchmarks) \in Nat \ {0}
         /\ DOMAIN Benchmarks = 1 .. Len(Benchmarks)
         /\ \A j \in DOMAIN Benchmarks : Benchmarks[j] \in Case
         /\ \A j, k \in DOMAIN Benchmarks : Benchmarks[j] = Benchmarks[k] => j = k
         /\ \A j \in DOMAIN Benchmarks : Benchmarks[j] = "meas_sv" <=> program = "meas"
<1>1. CASE program = "prot"
  <2>1. Benchmarks = <<"oc50", "oc51_dtl", "oc51_idmt", "dir67", "dist21", "diff87">>
    BY <1>1 DEF Benchmarks, ProtCases
  <2>2. Len(Benchmarks) = 6 /\ DOMAIN Benchmarks = 1 .. 6
    BY <2>1
  <2>3. \A j \in DOMAIN Benchmarks : Benchmarks[j] = ProtCases[j]
    BY <1>1 DEF Benchmarks
  <2>4. DOMAIN ProtCases = 1 .. 6
    BY DEF ProtCases
  <2>5. \A j \in 1 .. 6 : j = 1 \/ j = 2 \/ j = 3 \/ j = 4 \/ j = 5 \/ j = 6
    OBVIOUS
  <2>6. QED
    BY <1>1, <2>1, <2>2, <2>3, <2>4, <2>5 DEF Case
<1>2. CASE program = "meas"
  BY <1>2 DEF Benchmarks, MeasCases, Case
<1>3. QED
  BY <1>1, <1>2

\* The case main is at.
LEMMA CurrentCase ==
  ASSUME program \in {"prot", "meas"}, i \in DOMAIN Benchmarks
  PROVE  Current \in Case /\ (Current = "meas_sv" <=> program = "meas")
BY CasesOfProgram DEF Current

-----------------------------------------------------------------------------
(* One step of each element on the frame of its case *)

\* All angles of a frame are 0, so they are in line with one another.
LEMMA NoAngle ==
  /\ 0 - 0 = 0
  /\ Dir!NormalizeAngle(0) = 0 /\ Dir!AngleBetween(0, 0) = 0
  /\ Dist!NormalizeAngle(0) = 0 /\ Dist!AngleBetween(0, 0) = 0
  /\ Diff!NormalizeAngle(0) = 0 /\ Diff!AngleBetween(0, 0) = 0
BY DEF Dir!NormalizeAngle, Dir!AngleBetween, Dist!NormalizeAngle,
       Dist!AngleBetween, Diff!NormalizeAngle, Diff!AngleBetween

\* A timer that runs without a delay is past it.
LEMMA NoDelayLeft ==
  ASSUME NEW t \in Time
  PROVE  t >= OperateDelay /\ AddDt[t] \in Time
BY TimerAssumption, DelayAssumption, BenchmarkAssumption

\* The overcurrent cases apply one and a half times the pickup.
LEMMA OvercurrentFrame ==
  ASSUME NEW c \in {"oc50", "oc51_dtl", "oc51_idmt"}, NEW p \in Phase
  PROVE  /\ Pickup[p] \in {50, 100}
         /\ FrameFor(c).current_magnitude[p] = (3 * Pickup[p]) \div 2
         /\ FrameFor(c).current_magnitude[p] >= Pickup[p]
<1>1. FrameFor(c).current_magnitude = OneAndAHalf(Pickup)
  BY DEF FrameFor, Reading
<1>2. OneAndAHalf(Pickup)[p] = (3 * Pickup[p]) \div 2 /\ Pickup[p] \in {50, 100}
  BY DEF OneAndAHalf, Pickup
<1>3. (3 * 50) \div 2 = 75 /\ (3 * 100) \div 2 = 150
  OBVIOUS
<1>4. QED
  BY <1>1, <1>2, <1>3

\* ANSI 50 trips at once.
LEMMA Oc50Steady ==
  ASSUME Inst50!Step(FrameFor("oc50"))
  PROVE  output' = SteadyOutcome("oc50")
<1>1. Inst50!Started(FrameFor("oc50")) = Phase
  BY OvercurrentFrame DEF Inst50!Started
<1>2. QED
  BY <1>1 DEF Inst50!Step, SteadyOutcome, Watched

\* 51 DTL trips at once, as its delay is 0.
LEMMA DtlSteady ==
  ASSUME dtlTime \in [Phase -> Time], Dtl!Step(FrameFor("oc51_dtl"))
  PROVE  output' = SteadyOutcome("oc51_dtl") /\ dtlTime' \in [Phase -> Time]
<1> DEFINE frm == FrameFor("oc51_dtl")
<1>1. Dtl!Started(frm) = Phase
  BY OvercurrentFrame DEF Dtl!Started
<1>2. \A p \in Phase : Dtl!NextTimer(frm, p) = AddDt[dtlTime[p]]
  BY <1>1 DEF Dtl!NextTimer
<1>3. \A p \in Phase : /\ Dtl!NextTimer(frm, p) \in Time
                       /\ Dtl!NextTimer(frm, p) >= OperateDelay
  BY <1>2, NoDelayLeft
<1> HIDE DEF frm
<1>4. {p \in Dtl!Started(frm) : Dtl!NextTimer(frm, p) >= OperateDelay} = Phase
  BY <1>1, <1>3
<1>5. QED
  BY <1>1, <1>3, <1>4 DEF Dtl!Step, SteadyOutcome, Watched, frm

\* The tail of 67, 21 and 87 trips at once, as the delay is 0.
LEMMA TailSteady ==
  ASSUME NEW met, NEW timer \in [Phase -> Time], NEW p \in Phase
  PROVE  /\ (IF p \in met
             THEN IF OperateDelay > 0 THEN AddDt[timer[p]] ELSE timer[p]
             ELSE IF p \in LinePhase THEN 0 ELSE timer[p]) \in Time
         /\ ~(OperateDelay > 0)
BY TimerAssumption, DelayAssumption, BenchmarkAssumption

\* ANSI 67 sees one and a half times the pickup in line with the voltage.
LEMMA DirSteady ==
  ASSUME dirTime \in [Phase -> Time], Dir!Step(FrameFor("dir67"))
  PROVE  output' = SteadyOutcome("dir67") /\ dirTime' \in [Phase -> Time]
<1> DEFINE frm == FrameFor("dir67")
<1>1. /\ frm.current_magnitude = OneAndAHalf(LineOnly(100))
      /\ frm.voltage_magnitude = Everywhere(100)
      /\ frm.current_angle = Everywhere(0) /\ frm.voltage_angle = Everywhere(0)
  BY DEF FrameFor, Reading
<1> HIDE DEF frm
<1>2. ASSUME NEW p \in LinePhase
      PROVE  /\ LineOnly(100)[p] = 100 /\ frm.current_magnitude[p] = 150
             /\ frm.voltage_magnitude[p] = 100
             /\ frm.current_angle[p] = 0 /\ frm.voltage_angle[p] = 0
  <2>1. p \in Phase /\ p # "N" /\ LineOnly(100)[p] = 100
    BY DEF LinePhase, LineOnly
  <2>2. OneAndAHalf(LineOnly(100))[p] = (3 * 100) \div 2 /\ (3 * 100) \div 2 = 150
    BY <2>1 DEF OneAndAHalf
  <2>3. QED
    BY <1>1, <2>1, <2>2 DEF Everywhere
<1>3. \A p \in LinePhase : Dir!DirectionIsValid(frm, p)
  BY <1>2, NoAngle DEF Dir!DirectionIsValid
<1>4. Dir!Started(frm) = LinePhase
  BY <1>2, <1>3 DEF Dir!Started
<1>5. Dir!TimedTrip(LinePhase) = LinePhase
  BY TailSteady DEF Dir!TimedTrip, LinePhase
<1>6. \A p \in Phase : Dir!NextTimer(LinePhase, p) \in Time
  BY TailSteady DEF Dir!NextTimer
<1>7. QED
  BY <1>4, <1>5, <1>6 DEF Dir!Step, Dir!Run, SteadyOutcome, Watched, frm

\* ANSI 21 sees half its reach.
LEMMA DistSteady ==
  ASSUME distTime \in [Phase -> Time], Dist!Step(FrameFor("dist21"))
  PROVE  output' = SteadyOutcome("dist21") /\ distTime' \in [Phase -> Time]
<1> DEFINE frm == FrameFor("dist21")
<1>1. /\ frm.current_magnitude = Everywhere(2)
      /\ frm.voltage_magnitude = Everywhere(10)
      /\ frm.current_angle = Everywhere(0) /\ frm.voltage_angle = Everywhere(0)
  BY DEF FrameFor, Reading
<1> HIDE DEF frm
<1>2. ASSUME NEW p \in LinePhase
      PROVE  /\ LineOnly(10)[p] = 10 /\ frm.current_magnitude[p] = 2
             /\ frm.voltage_magnitude[p] = 10
             /\ frm.current_angle[p] = 0 /\ frm.voltage_angle[p] = 0
  BY <1>1 DEF LinePhase, LineOnly, Everywhere
<1>3. \A p \in LinePhase : Dist!InReach(frm, p)
  BY <1>2 DEF Dist!InReach
<1>4. Dist!DirectionIsValid(Dist!NormalizeAngle(0 - 0))
  BY NoAngle DEF Dist!DirectionIsValid
<1>5. Dist!Started(frm) = LinePhase
  BY <1>2, <1>3, <1>4 DEF Dist!Started
<1>6. Dist!TimedTrip(LinePhase) = LinePhase
  BY TailSteady DEF Dist!TimedTrip, LinePhase
<1>7. \A p \in Phase : Dist!NextTimer(LinePhase, p) \in Time
  BY TailSteady DEF Dist!NextTimer
<1>8. QED
  BY <1>5, <1>6, <1>7 DEF Dist!Step, Dist!Run, SteadyOutcome, Watched, frm

\* ANSI 87 sees 20 A of operate current against a threshold of 14.5 A.
LEMMA DiffSteady ==
  ASSUME diffTime \in [Phase -> Time], Diff!Step(FrameFor("diff87"))
  PROVE  output' = SteadyOutcome("diff87") /\ diffTime' \in [Phase -> Time]
<1> DEFINE frm == FrameFor("diff87")
<1>1. /\ frm.local_current = Everywhere(Real(25))
      /\ frm.remote_current = Everywhere(Real(5))
  BY DEF FrameFor, Reading
<1> HIDE DEF frm
<1>2. /\ Magnitude[Real(25)] = 25 /\ Magnitude[Real(5)] = 5
      /\ Magnitude[Real(20)] = 20
      /\ Angle[Real(25)] = 0 /\ Angle[Real(5)] = 0
  BY CaseAssumption
<1>3. Diff!Minus(Real(25), Real(5)) = Real(20)
  BY DEF Diff!Minus, Real
<1>4. Diff!InOperateRegion(Real(25), Real(5))
  <2>1. Diff!OperateThreshold20(Real(25), Real(5)) = 290
    BY <1>2 DEF Diff!OperateThreshold20, Diff!TotalCurrent
  <2>2. QED
    BY <1>2, <1>3, <2>1, NoAngle DEF Diff!InOperateRegion
<1>5. Diff!Started(frm) = LinePhase
  BY <1>1, <1>4 DEF Diff!Started, Everywhere, LinePhase
<1>6. Diff!TimedTrip(LinePhase) = LinePhase
  BY TailSteady DEF Diff!TimedTrip, LinePhase
<1>7. \A p \in Phase : Diff!NextTimer(LinePhase, p) \in Time
  BY TailSteady DEF Diff!NextTimer
<1>8. QED
  BY <1>5, <1>6, <1>7 DEF Diff!Step, Diff!Run, SteadyOutcome, Watched, frm

\* The progress that n calls have made at least: that of the upper clamp.
Floor(n) == Slowest[IF n < SlowCalls THEN n ELSE SlowCalls]

\* It starts at 0, ends at 1.0f and grows by the share of the upper clamp.
LEMMA FloorRun ==
  /\ Floor(0) = 0 /\ One \in Nat
  /\ \A n \in Nat : /\ Floor(n) \in Progress
                    /\ n >= SlowCalls => Floor(n) = One
                    /\ AddShare[Floor(n)][MaxTime] < One =>
                         Floor(n + 1) = AddShare[Floor(n)][MaxTime]
                    /\ Floor(n + 1) <= One
<1>1. /\ SlowCalls \in Nat /\ Slowest \in [0 .. SlowCalls -> Progress]
      /\ Slowest[0] = 0 /\ Slowest[SlowCalls] = One
      /\ \A k \in 1 .. SlowCalls :
           IF k < SlowCalls THEN Slowest[k] = AddShare[Slowest[k - 1]][MaxTime]
           ELSE AddShare[Slowest[k - 1]][MaxTime] >= One
  BY SlowestAssumption DEF SteadyRun
<1>2. One \in Nat /\ \A x \in Progress : x <= One
  BY ShareAssumption
<1>3. \A n \in Nat : Floor(n) \in Progress /\ (n >= SlowCalls => Floor(n) = One)
  BY <1>1 DEF Floor
<1>4. ASSUME NEW n \in Nat, AddShare[Floor(n)][MaxTime] < One
      PROVE  Floor(n + 1) = AddShare[Floor(n)][MaxTime]
  <2>1. MaxTime \in Duration /\ Floor(n) \in Progress
    BY <1>3, CurveAssumption
  <2>2. Floor(n) <= AddShare[Floor(n)][MaxTime] /\ AddShare[Floor(n)][MaxTime] \in Nat
    BY <2>1, ShareAssumption
  <2>3. Floor(n) # One
    BY <1>2, <1>4, <2>2
  <2>4. n < SlowCalls /\ Floor(n) = Slowest[n] /\ n + 1 \in 1 .. SlowCalls /\ (n + 1) - 1 = n
    BY <1>1, <1>3, <2>3 DEF Floor
  <2>5. n + 1 < SlowCalls /\ Slowest[n + 1] = AddShare[Slowest[n]][MaxTime]
    BY <1>1, <1>2, <1>4, <2>2, <2>4
  <2>6. QED
    BY <2>4, <2>5 DEF Floor
<1>5. \A n \in Nat : Floor(n + 1) <= One
  BY <1>2, <1>3
<1>6. Floor(0) = 0
  BY <1>1 DEF Floor
<1>7. QED
  BY <1>2, <1>3, <1>4, <1>5, <1>6

\* The frame of that case.
CaseFrame == FrameFor("oc51_idmt")

\* The frame of the case moves every phase, by the share of the upper clamp at
\* least.
LEMMA IdmtAdvances ==
  ASSUME idmtProgress \in [Phase -> Progress], NEW p \in Phase
  PROVE  LET sum == Idmt!Advanced(CaseFrame, p) IN
         /\ p \in Idmt!Started(CaseFrame) /\ p \in Idmt!Advancing(CaseFrame)
         /\ sum \in Nat /\ idmtProgress[p] <= sum /\ (sum < One => sum \in Progress)
         /\ \A x \in Progress : x <= idmtProgress[p] => AddShare[x][MaxTime] <= sum
<1>1. /\ Pickup[p] \in {50, 100}
      /\ CaseFrame.current_magnitude[p] = (3 * Pickup[p]) \div 2
      /\ CaseFrame.current_magnitude[p] >= Pickup[p]
  BY OvercurrentFrame DEF CaseFrame
<1> DEFINE time == CurveTime[Pickup[p]][CaseFrame.current_magnitude[p]]
<1>2. time \in Nat \ {0} /\ Clamped(time) \in Duration
  BY <1>1, CaseAssumption
<1>3. 10000 * CaseFrame.current_magnitude[p] > 10001 * Pickup[p]
  BY <1>1
<1>4. p \in Idmt!Started(CaseFrame) /\ p \in Idmt!Advancing(CaseFrame)
  BY <1>1, <1>2, <1>3 DEF Idmt!Advancing, Idmt!Started, Idmt!Degenerate
<1>5. Idmt!OperateTime(CaseFrame, p) = Clamped(time)
  BY DEF Idmt!OperateTime, Idmt!Clamped, Clamped
<1> HIDE DEF time
<1>6. PICK t \in Duration : t = Idmt!OperateTime(CaseFrame, p) /\ t \in Nat /\ t <= MaxTime
  <2>1. Clamped(time) <= MaxTime /\ Clamped(time) \in Nat
    BY <1>2, CurveAssumption DEF Clamped
  <2>2. QED
    BY <1>2, <1>5, <2>1
<1>7. Idmt!Advanced(CaseFrame, p) = AddShare[idmtProgress[p]][t]
  BY <1>6 DEF Idmt!Advanced
<1>8. idmtProgress[p] \in Progress /\ MaxTime \in Duration
  BY CurveAssumption
<1>9. /\ AddShare[idmtProgress[p]][t] \in Nat
      /\ idmtProgress[p] <= AddShare[idmtProgress[p]][t]
      /\ AddShare[idmtProgress[p]][t] < One => AddShare[idmtProgress[p]][t] \in Progress
      /\ \A x \in Progress :
           x <= idmtProgress[p] => AddShare[x][MaxTime] <= AddShare[idmtProgress[p]][t]
  BY <1>6, <1>8, ShareAssumption
<1>10. QED
  BY <1>4, <1>7, <1>9

\* What a step makes of the progress: as much as n calls have made at least
\* becomes as much as n + 1.
Gains ==
  \A p \in Phase, n \in Nat : Floor(n) <= idmtProgress[p] => Floor(n + 1) <= idmtProgress'[p]

\* The progress after a step.
LEMMA IdmtMoves ==
  ASSUME idmtProgress \in [Phase -> Progress], Idmt!Step(CaseFrame)
  PROVE  idmtProgress' \in [Phase -> Progress] /\ Gains
<1>1. ASSUME NEW p \in Phase
      PROVE  LET next == Idmt!Latched(Idmt!Advanced(CaseFrame, p)) IN
             /\ next \in Progress
             /\ \A n \in Nat : Floor(n) <= idmtProgress[p] => Floor(n + 1) <= next
  <2> DEFINE sum == Idmt!Advanced(CaseFrame, p)
             next == IF sum >= One THEN One ELSE sum
  <2>1. /\ sum \in Nat /\ (sum < One => sum \in Progress)
        /\ \A x \in Progress : x <= idmtProgress[p] => AddShare[x][MaxTime] <= sum
    BY IdmtAdvances
  <2>2. One \in Nat /\ One \in Progress
    BY ShareAssumption
  <2>3. next = Idmt!Latched(sum)
    BY DEF Idmt!Latched
  <2> HIDE DEF sum
  <2>4. next \in Progress
    BY <2>1, <2>2
  <2>5. ASSUME NEW n \in Nat, Floor(n) <= idmtProgress[p]
        PROVE  Floor(n + 1) <= next
    <3>1. Floor(n) \in Progress /\ Floor(n + 1) <= One
      BY FloorRun
    <3>2. AddShare[Floor(n)][MaxTime] <= sum
      BY <2>1, <2>5, <3>1
    <3>3. AddShare[Floor(n)][MaxTime] \in Nat
      BY <3>1, CurveAssumption, ShareAssumption
    <3>4. CASE sum >= One
      BY <3>1, <3>4
    <3>5. CASE sum < One
      <4>1. AddShare[Floor(n)][MaxTime] < One
        BY <2>1, <2>2, <3>2, <3>3, <3>5
      <4>2. Floor(n + 1) = AddShare[Floor(n)][MaxTime]
        BY <4>1, FloorRun
      <4>3. QED
        BY <2>1, <2>2, <3>2, <3>5, <4>2
    <3>6. QED
      BY <2>1, <2>2, <3>4, <3>5
  <2>6. QED
    BY <2>3, <2>4, <2>5 DEF sum
<1>2. idmtProgress' = [p \in Phase |-> Idmt!Latched(Idmt!Advanced(CaseFrame, p))]
  BY IdmtAdvances DEF Idmt!Step
<1>3. QED
  BY <1>1, <1>2 DEF Gains

\* Once all progress is full, every step trips.
LEMMA IdmtSteady ==
  ASSUME idmtProgress \in [Phase -> Progress], Idmt!Step(CaseFrame),
         \A p \in Phase : One <= idmtProgress[p]
  PROVE  output' = SteadyOutcome("oc51_idmt")
<1>1. ASSUME NEW p \in Phase
      PROVE  /\ p \in Idmt!Started(CaseFrame) /\ p \in Idmt!Advancing(CaseFrame)
             /\ Idmt!Advanced(CaseFrame, p) >= One
  <2> DEFINE sum == Idmt!Advanced(CaseFrame, p)
  <2>1. /\ p \in Idmt!Started(CaseFrame) /\ p \in Idmt!Advancing(CaseFrame)
        /\ sum \in Nat /\ idmtProgress[p] <= sum
    BY IdmtAdvances
  <2>2. One \in Nat /\ idmtProgress[p] \in Nat /\ One <= idmtProgress[p]
    <3>1. idmtProgress[p] \in Progress /\ One <= idmtProgress[p]
      OBVIOUS
    <3>2. One \in Nat /\ \A x \in Progress : x \in Nat
      BY ShareAssumption
    <3>3. QED
      BY <3>1, <3>2
  <2> HIDE DEF sum
  <2>3. sum >= One
    BY <2>1, <2>2
  <2>4. QED
    BY <2>1, <2>3 DEF sum
<1>2. /\ Idmt!Started(CaseFrame) = Phase
      /\ {p \in Idmt!Advancing(CaseFrame) : Idmt!Advanced(CaseFrame, p) >= One} = Phase
  BY <1>1 DEF Idmt!Started, Idmt!Advancing
<1>3. QED
  BY <1>2 DEF Idmt!Step, SteadyOutcome, Watched

-----------------------------------------------------------------------------
(* One call of the measurement layer *)

\* Every ring counts to N and no further, and the estimates of full rings are
\* from N samples.
LEMMA RingsCount ==
  ASSUME \A ch \in Sv!Channel : buffers[ch].count \in 0 .. N, Sv!ProcessSample(Payload)
  PROVE  /\ \A ch \in Sv!Channel :
              buffers'[ch].count = IF buffers[ch].count < N THEN buffers[ch].count + 1 ELSE N
         /\ (\A ch \in Sv!Channel : buffers[ch].count >= N - 1) =>
              {Len(out_frame'[ch]) : ch \in Sv!Channel} = {N}
<1>0. N \in Nat \ {0}
  BY BenchmarkAssumption
<1>1. ASSUME NEW ch \in Sv!Channel
      PROVE  buffers'[ch].count = IF buffers[ch].count < N THEN buffers[ch].count + 1 ELSE N
  <2>1. buffers'[ch] = Sv!PushSample(buffers[ch], Payload[ch])
    BY DEF Sv!ProcessSample
  <2>2. buffers[ch].count \in 0 .. N
    OBVIOUS
  <2>3. QED
    BY <1>0, <2>1, <2>2 DEF Sv!PushSample
<1>2. ASSUME \A ch \in Sv!Channel : buffers[ch].count >= N - 1, NEW ch \in Sv!Channel
      PROVE  Len(out_frame'[ch]) = N
  <2>1. buffers'[ch].count >= N
    BY <1>0, <1>1, <1>2
  <2>2. out_frame'[ch] = Sv!PhasorFrom(buffers'[ch])
    BY <2>1 DEF Sv!ProcessSample
  <2>3. QED
    BY <2>2, BenchmarkAssumption DEF Sv!PhasorFrom
<1>3. Sv!Channel # {}
  <2>1. PICK p \in Phase : TRUE
    BY CaseAssumption
  <2>2. <<"current", p>> \in Sv!Channel
    BY DEF Sv!Channel
  <2>3. QED
    BY <2>2
<1>4. QED
  BY <1>1, <1>2, <1>3

-----------------------------------------------------------------------------
(* Where main is, and what a step then does *)

\* The counters of the loops stay within them, and are reset between them.
LoopInv ==
  /\ program \in {"prot", "meas"}
  /\ pc \in {"lock", "init", "fill", "create", "warm_up", "measure", "report",
             "exit", "failure"}
  /\ i \in DOMAIN Benchmarks
  /\ calls \in Nat /\ runs \in Nat
  /\ pc = "warm_up" => calls < WarmUps
  /\ pc = "measure" => calls < SampleCount
  /\ pc \notin {"warm_up", "measure"} => calls = 0
  /\ pc \in {"warm_up", "measure"} => runs < RunsPerCall
  /\ pc = "fill" => runs <= N - 1 /\ program = "meas"
  /\ pc \notin {"fill", "warm_up", "measure"} => runs = 0

\* The warm-up has brought the inverse-time element so far.
WarmedUp(steps) == \A p \in Phase : Floor(steps) <= idmtProgress[p]

\* The elements and the rings are where every measured step takes one path.
PathInv ==
  /\ {dtlTime, dirTime, distTime, diffTime} \subseteq [Phase -> Time]
  /\ idmtProgress \in [Phase -> Progress]
  /\ program = "prot" /\ pc \in {"create", "warm_up", "measure"} =>
       frame = FrameFor(Current)
  /\ Current = "oc51_idmt" =>
       /\ pc = "warm_up" => WarmedUp(calls * RunsPerCall + runs)
       /\ pc = "measure" => \A p \in Phase : One <= idmtProgress[p]
  /\ \A ch \in Sv!Channel :
       /\ buffers[ch].count \in 0 .. N
       /\ pc = "fill" => buffers[ch].count = runs
       /\ program = "meas" /\ pc \in {"create", "warm_up", "measure"} =>
            buffers[ch].count >= N - 1
  /\ pc \notin {"warm_up", "measure"} => work = {}
  /\ pc = "measure" => work \subseteq {SteadyOutcome(Current)}
  /\ program = "meas" => work \subseteq {{N}}

\* The bounds are positive numbers.
LEMMA Limits ==
  /\ N \in Nat \ {0} /\ RunsPerCall \in Nat \ {0}
  /\ WarmUps \in Nat \ {0} /\ SampleCount \in Nat \ {0}
BY BenchmarkAssumption

\* What a step of the current case does to the elements and the rings, and what
\* it returns.
LEMMA StepOfCase ==
  ASSUME LoopInv, PathInv, pc \in {"warm_up", "measure"}, RunStep,
         UNCHANGED <<program, frame>>
  PROVE  /\ {dtlTime, dirTime, distTime, diffTime}' \subseteq [Phase -> Time]
         /\ idmtProgress' \in [Phase -> Progress]
         /\ Current = "oc51_idmt" => Gains
         /\ \A ch \in Sv!Channel :
              /\ buffers'[ch].count \in 0 .. N
              /\ program = "meas" => buffers'[ch].count >= N - 1
         /\ program = "meas" => Outcome' = {N}
         /\ pc = "measure" => Outcome' = SteadyOutcome(Current)
<1> DEFINE Types == {dtlTime, dirTime, distTime, diffTime} \subseteq [Phase -> Time]
                    /\ idmtProgress \in [Phase -> Progress]
<1>1. Types /\ \A ch \in Sv!Channel : buffers[ch].count \in 0 .. N
  BY DEF PathInv
<1>2. CASE program = "meas"
  <2>1. Current = "meas_sv"
    BY <1>2, CurrentCase DEF LoopInv
  <2>2. Sv!ProcessSample(Payload) /\ UNCHANGED stateVars
    BY <2>1 DEF RunStep
  <2>3. \A ch \in Sv!Channel : buffers[ch].count >= N - 1
    BY <1>2 DEF PathInv
  <2>4. /\ \A ch \in Sv!Channel :
             buffers'[ch].count = IF buffers[ch].count < N THEN buffers[ch].count + 1 ELSE N
        /\ {Len(out_frame'[ch]) : ch \in Sv!Channel} = {N}
    BY <1>1, <2>2, <2>3, RingsCount
  <2>5. \A ch \in Sv!Channel : buffers'[ch].count \in 0 .. N /\ buffers'[ch].count >= N - 1
    BY <1>1, <2>3, <2>4, Limits
  <2>6. Outcome' = {N}
    BY <1>2, <2>4 DEF Outcome
  <2>7. SteadyOutcome(Current) = {N}
    BY <2>1 DEF SteadyOutcome
  <2>8. QED
    BY <1>1, <2>1, <2>2, <2>5, <2>6, <2>7 DEF stateVars
<1>3. CASE program = "prot"
  <2>1. Current # "meas_sv" /\ frame = FrameFor(Current) /\ Outcome' = output'
    BY <1>3, CurrentCase DEF LoopInv, PathInv, Outcome
  <2>2. UNCHANGED measureVars
    BY <2>1 DEF RunStep
  <2> SUFFICES /\ Types'
               /\ Current = "oc51_idmt" => Gains
               /\ pc = "measure" => output' = SteadyOutcome(Current)
    BY <1>1, <1>3, <2>1, <2>2 DEF measureVars
  <2>3. CASE Current = "oc50"
    BY <1>1, <2>1, <2>3, Oc50Steady DEF RunStep
  <2>4. CASE Current = "oc51_dtl"
    BY <1>1, <2>1, <2>4, DtlSteady DEF RunStep
  <2>5. CASE Current = "dir67"
    BY <1>1, <2>1, <2>5, DirSteady DEF RunStep
  <2>6. CASE Current = "dist21"
    BY <1>1, <2>1, <2>6, DistSteady DEF RunStep
  <2>7. CASE Current = "diff87"
    BY <1>1, <2>1, <2>7, DiffSteady DEF RunStep
  <2>8. CASE Current = "oc51_idmt"
    <3>1. /\ Idmt!Step(CaseFrame)
          /\ UNCHANGED <<dtlTime, dirTime, distTime, diffTime>>
      BY <2>1, <2>8 DEF RunStep, CaseFrame
    <3>2. pc = "measure" => output' = SteadyOutcome("oc51_idmt")
      BY <1>1, <2>8, <3>1, IdmtSteady DEF PathInv
    <3>3. QED
      BY <1>1, <2>8, <3>1, <3>2, IdmtMoves
  <2>9. QED
    BY <2>1, <2>3, <2>4, <2>5, <2>6, <2>7, <2>8 DEF RunStep
<1>4. QED
  BY <1>2, <1>3 DEF LoopInv

-----------------------------------------------------------------------------
(* The samples, the cases and the memory *)

\* A case that the first loop of main is done with, and one it has not begun.
Settled(j) ==
  IF Benchmarks[j] \in failed THEN Benchmarks[j] \notin timers
  ELSE Benchmarks[j] \in timers /\ Len(deltas[Benchmarks[j]]) = SampleCount
Untouched(j) == Benchmarks[j] \notin timers \cup failed

\* A case that the second loop is done with.
Reported(j) ==
  LET c == Benchmarks[j] IN
  IF c \in failed THEN csv[c] = Timer!NoFile
  ELSE csv[c] = deltas[c] /\ Len(csv[c]) = SampleCount

Setup == {"lock", "init", "fill", "create", "warm_up", "measure", "failure"}

\* Every stored sample is that of a steady call, and there is room for all.
SampleInv ==
  /\ DOMAIN deltas = Case /\ DOMAIN csv = Case
  /\ \A c \in Case : /\ deltas[c] \in Seq({{SteadyOutcome(c)}})
                     /\ Len(deltas[c]) <= SampleCount
  /\ pc = "warm_up" => deltas[Current] = <<>>
  /\ pc = "measure" => Len(deltas[Current]) = calls

\* The cases before and after the one main is at.
CaseInv ==
  /\ timers \subseteq Case /\ failed \subseteq Case
  /\ pc \in Setup =>
       /\ \A j \in DOMAIN Benchmarks : IF j < i THEN Settled(j) ELSE Untouched(j)
       /\ \A c \in Case : csv[c] = Timer!NoFile
  /\ pc = "report" =>
       \A j \in DOMAIN Benchmarks :
         IF j < i THEN Reported(j)
         ELSE Settled(j) /\ csv[Benchmarks[j]] = Timer!NoFile
  /\ pc = "exit" => \A j \in DOMAIN Benchmarks : Reported(j)

\* The memory in use.
HeapInv == heap = Owners \X Timer!Block

\* Blocks of several owners.
LEMMA BlocksOfOwners ==
  ASSUME NEW S
  PROVE  UNION {Timer!BlocksOf(c) : c \in S} = S \X Timer!Block
BY DEF Timer!BlocksOf

\* The inductive invariant of the programs.
BenchmarkInv == LoopInv /\ PathInv /\ SampleInv /\ CaseInv /\ HeapInv

\* main has not begun.
LEMMA BenchmarkInit ==
  ASSUME Init
  PROVE  BenchmarkInv
<1> USE Limits
<1>1. LoopInv /\ i = 1
  <2>1. 1 \in DOMAIN Benchmarks
    BY CasesOfProgram DEF Init
  <2>2. QED
    BY <2>1 DEF Init, LoopInv
<1>2. PathInv
  <2>1. /\ {dtlTime, dirTime, distTime, diffTime} \subseteq [Phase -> Time]
        /\ idmtProgress \in [Phase -> Progress]
    BY TimerAssumption, ShareAssumption DEF Init, Dtl!Init, Idmt!Init, Dir!Init, Dist!Init, Diff!Init
  <2>2. \A ch \in Sv!Channel : buffers[ch].count \in 0 .. N
    BY DEF Init, Sv!Init, Sv!EmptyRing
  <2>3. QED
    BY <2>1, <2>2 DEF Init, PathInv
<1>3. SampleInv
  BY DEF Init, Timer!Init, SampleInv
<1>4. CaseInv
  <2>1. \A j \in DOMAIN Benchmarks : ~(j < i)
    BY <1>1, CasesOfProgram DEF LoopInv
  <2>2. pc = "lock" /\ timers = {} /\ failed = {} /\ \A c \in Case : csv[c] = Timer!NoFile
    BY DEF Init, Timer!Init
  <2>3. QED
    BY <2>1, <2>2 DEF CaseInv, Untouched
<1>5. HeapInv
  <2>1. Owners = {}
    BY DEF Init, Owners
  <2>2. QED
    BY <2>1 DEF Init, Timer!Init, HeapInv
<1>6. QED
  BY <1>1, <1>2, <1>3, <1>4, <1>5 DEF BenchmarkInv

-----------------------------------------------------------------------------
(* The steps of main, in a state of the invariant *)

\* A step of the case that leaves its call running.
Within ==
  /\ pc \in {"warm_up", "measure"} /\ StepWithinCall
  /\ UNCHANGED <<program, failed, frame>>

\* The unmeasured call returns.
WarmUpReturns ==
  /\ pc = "warm_up" /\ StepReturns
  /\ UNCHANGED <<program, failed, frame, i, timers, timerVars>>
  /\ IF calls + 1 < WarmUps THEN calls' = calls + 1 /\ pc' = pc
     ELSE calls' = 0 /\ pc' = "measure"

\* The measured call returns.
MeasureReturns ==
  /\ pc = "measure" /\ StepReturns
  /\ UNCHANGED <<program, failed, frame>>
  /\ Timer!Measure(Current, WorkAfter) /\ MeasureAgain

\* perf_timer_measure never returns early: there is a timer, and room in it.
LEMMA NeverDeclines ==
  ASSUME BenchmarkInv, pc = "measure"
  PROVE  ~Timer!Declines(Current)
<1>1. Timer!BlocksOf(Current) \subseteq heap
  <2>1. Current \in Owners
    BY DEF Owners
  <2>2. QED
    BY <2>1 DEF BenchmarkInv, HeapInv, Timer!BlocksOf
<1>2. Len(deltas[Current]) = calls /\ calls \in Nat /\ calls < SampleCount
  BY DEF BenchmarkInv, SampleInv, LoopInv
<1>3. QED
  BY <1>1, <1>2, Limits DEF Timer!Declines, Timer!Exists

\* What main can do next.
LEMMA Moves ==
  ASSUME BenchmarkInv, Next
  PROVE  \/ LockMemory \/ InitElement \/ InitMeasurement \/ FillRings
         \/ \E got \in SUBSET Timer!Block : CreateTimer(got)
         \/ Within \/ WarmUpReturns \/ MeasureReturns \/ Report
<1>1. CASE WarmUp
  BY <1>1 DEF WarmUp, Within, WarmUpReturns, PlainWarmUp
<1>2. CASE Measure
  BY <1>2, NeverDeclines DEF Measure, Within, MeasureReturns
<1>3. QED
  BY <1>1, <1>2 DEF Next

\* The program stays the same, and its array with it.
LEMMA SameProgram ==
  ASSUME Next
  PROVE  program' = program /\ Benchmarks' = Benchmarks
<1>1. program' = program
  BY DEF Next, LockMemory, InitElement, InitMeasurement, FillRings, CreateTimer,
         WarmUp, Measure, Report
<1>2. QED
  BY <1>1 DEF Benchmarks

\* main goes on to a case of its array.
LEMMA OntoACase ==
  ASSUME LoopInv
  PROVE  /\ i < Len(Benchmarks) => i + 1 \in DOMAIN Benchmarks
         /\ 1 \in DOMAIN Benchmarks
BY CasesOfProgram DEF LoopInv

\* Every step keeps the counters in their loops.
LEMMA LoopInductive ==
  ASSUME BenchmarkInv, Next
  PROVE  LoopInv'
<1> USE Limits
<1>1. /\ LoopInv /\ Benchmarks' = Benchmarks /\ program' = program
      /\ i < Len(Benchmarks) => i + 1 \in DOMAIN Benchmarks
      /\ 1 \in DOMAIN Benchmarks
  BY SameProgram, OntoACase DEF BenchmarkInv
<1>2. CASE LockMemory
  BY <1>1, <1>2 DEF LockMemory, LoopInv
<1>3. CASE InitElement
  BY <1>1, <1>3 DEF InitElement, LoopInv
<1>4. CASE InitMeasurement
  BY <1>1, <1>4 DEF InitMeasurement, LoopInv
<1>5. CASE FillRings
  BY <1>1, <1>5 DEF FillRings, Prefilled, LoopInv
<1>6. ASSUME NEW got \in SUBSET Timer!Block, CreateTimer(got)
      PROVE  LoopInv'
  BY <1>1, <1>6 DEF CreateTimer, GoOn, NextCase, LoopInv
<1>7. CASE Within
  BY <1>1, <1>7 DEF Within, StepWithinCall, LoopInv
<1>8. CASE WarmUpReturns
  BY <1>1, <1>8 DEF WarmUpReturns, StepReturns, LoopInv
<1>9. CASE MeasureReturns
  BY <1>1, <1>9 DEF MeasureReturns, MeasureAgain, StepReturns, GoOn, NextCase, LoopInv
<1>10. CASE Report
  BY <1>1, <1>10 DEF Report, LoopInv
<1>11. QED
  BY <1>2, <1>3, <1>4, <1>5, <1>6, <1>7, <1>8, <1>9, <1>10, Moves

-----------------------------------------------------------------------------
(* The path every step takes *)

\* One more step of the warm-up.
LEMMA OneMoreStep ==
  ASSUME NEW steps \in Nat, WarmedUp(steps), Gains
  PROVE  \A p \in Phase : Floor(steps + 1) <= idmtProgress'[p]
BY DEF WarmedUp, Gains

\* The steps of the whole warm-up are enough for all of the progress, and another
\* step leaves it full.
LEMMA WarmUpSuffices ==
  /\ Floor(WarmUps * RunsPerCall) = One
  /\ Gains => \A p \in Phase : One <= idmtProgress[p] => One <= idmtProgress'[p]
<1>1. PICK steps \in Nat : steps = WarmUps * RunsPerCall
  BY Limits
<1>2. Floor(steps) = One
  BY <1>1, FloorRun, BenchmarkAssumption
<1>3. SlowCalls \in Nat
  BY SlowestAssumption
<1>4. SlowCalls + 1 \in Nat /\ SlowCalls + 1 >= SlowCalls /\ SlowCalls >= SlowCalls
  BY <1>3
<1>5. Floor(SlowCalls) = One /\ Floor(SlowCalls + 1) = One
  BY <1>3, <1>4, FloorRun
<1>6. Gains => \A p \in Phase : One <= idmtProgress[p] => One <= idmtProgress'[p]
  BY <1>3, <1>5 DEF Gains
<1>7. QED
  BY <1>1, <1>2, <1>6

\* The steps made in the warm-up, before and after one more.
LEMMA StepsOfWarmUp ==
  ASSUME LoopInv
  PROVE  /\ calls * RunsPerCall + runs \in Nat
         /\ calls * RunsPerCall + (runs + 1) = (calls * RunsPerCall + runs) + 1
         /\ runs + 1 = RunsPerCall =>
              (calls + 1) * RunsPerCall = (calls * RunsPerCall + runs) + 1
<1>1. calls \in Nat /\ runs \in Nat /\ RunsPerCall \in Nat
  BY Limits DEF LoopInv
<1>2. PICK made \in Nat : made = calls * RunsPerCall
  BY <1>1
<1>3. (calls + 1) * RunsPerCall = made + RunsPerCall
  BY <1>1, <1>2
<1>4. QED
  BY <1>1, <1>2, <1>3

\* A step of the current case keeps its call, its loop and the loop after it
\* on the path.
LEMMA PathOfStep ==
  ASSUME BenchmarkInv, Next, Within \/ WarmUpReturns \/ MeasureReturns
  PROVE  PathInv'
<1>1. LoopInv /\ PathInv /\ pc \in {"warm_up", "measure"} /\ RunStep
  BY DEF BenchmarkInv, Within, WarmUpReturns, MeasureReturns, StepWithinCall, StepReturns
<1>2. UNCHANGED <<program, frame>> /\ Benchmarks' = Benchmarks
  BY SameProgram DEF Within, WarmUpReturns, MeasureReturns
<1>3. /\ {dtlTime, dirTime, distTime, diffTime}' \subseteq [Phase -> Time]
      /\ idmtProgress' \in [Phase -> Progress]
      /\ Current = "oc51_idmt" => Gains
      /\ \A ch \in Sv!Channel :
           /\ buffers'[ch].count \in 0 .. N
           /\ program = "meas" => buffers'[ch].count >= N - 1
      /\ program = "meas" => Outcome' = {N}
      /\ pc = "measure" => Outcome' = SteadyOutcome(Current)
  BY <1>1, <1>2, StepOfCase
<1>4. CASE Within
  <2>1. pc' = pc /\ Current' = Current /\ calls' = calls /\ runs' = runs + 1
    BY <1>2, <1>4 DEF Within, StepWithinCall, Current
  <2>2. work' = work \cup {Outcome'}
    BY <1>4 DEF Within, StepWithinCall, WorkAfter
  <2>3. Current = "oc51_idmt" /\ pc = "warm_up" =>
          WarmedUp(calls * RunsPerCall + runs)'
    <3>1. SUFFICES ASSUME Current = "oc51_idmt", pc = "warm_up"
                   PROVE  \A p \in Phase :
                            Floor(calls * RunsPerCall + (runs + 1)) <= idmtProgress'[p]
      BY <2>1 DEF WarmedUp
    <3>2. WarmedUp(calls * RunsPerCall + runs)
      BY <1>1, <3>1 DEF PathInv
    <3>3. QED
      BY <1>1, <1>3, <3>1, <3>2, StepsOfWarmUp, OneMoreStep DEF PathInv
  <2>4. Current = "oc51_idmt" /\ pc = "measure" => \A p \in Phase : One <= idmtProgress'[p]
    BY <1>1, <1>3, WarmUpSuffices DEF PathInv
  <2>5. pc # "fill" /\ pc # "create"
    BY <1>1
  <2>6. /\ pc = "measure" => work' \subseteq {SteadyOutcome(Current)}
        /\ program = "meas" => work' \subseteq {{N}}
    BY <1>1, <1>3, <2>2 DEF PathInv
  <2>7. program = "prot" => frame' = FrameFor(Current)
    BY <1>1, <1>2 DEF PathInv
  <2>8. SteadyOutcome(Current)' = SteadyOutcome(Current) /\ FrameFor(Current)' = FrameFor(Current)
    BY <2>1 DEF SteadyOutcome, FrameFor
  <2>9. QED
    BY <1>1, <1>2, <1>3, <2>1, <2>3, <2>4, <2>5, <2>6, <2>7, <2>8 DEF PathInv
<1>5. CASE WarmUpReturns
  <2>1. /\ pc = "warm_up" /\ Current' = Current /\ runs' = 0 /\ work' = {}
        /\ runs + 1 = RunsPerCall
        /\ \/ calls + 1 < WarmUps /\ calls' = calls + 1 /\ pc' = "warm_up"
           \/ calls + 1 >= WarmUps /\ pc' = "measure"
    BY <1>1, <1>2, <1>5, Limits DEF WarmUpReturns, StepReturns, Current, LoopInv
  <2>2. Current = "oc51_idmt" => \A p \in Phase :
          Floor((calls + 1) * RunsPerCall) <= idmtProgress'[p]
    BY <1>1, <1>3, <2>1, StepsOfWarmUp, OneMoreStep DEF PathInv
  <2>3. Current = "oc51_idmt" /\ pc' = "warm_up" =>
          WarmedUp(calls * RunsPerCall + runs)'
    <3>1. pc' = "warm_up" => (calls + 1) * RunsPerCall = calls' * RunsPerCall + runs'
      BY <1>1, <2>1, Limits DEF LoopInv
    <3>2. QED
      BY <2>2, <3>1 DEF WarmedUp
  <2>4. Current = "oc51_idmt" /\ pc' = "measure" => \A p \in Phase : One <= idmtProgress'[p]
    <3>1. pc' = "measure" => calls + 1 = WarmUps
      BY <1>1, <2>1, Limits DEF LoopInv
    <3>2. QED
      BY <2>2, <3>1, WarmUpSuffices
  <2>5. program = "prot" => frame' = FrameFor(Current)
    BY <1>1, <1>2 DEF PathInv
  <2>6. FrameFor(Current)' = FrameFor(Current)
    BY <2>1 DEF FrameFor
  <2>7. QED
    BY <1>1, <1>2, <1>3, <2>1, <2>3, <2>4, <2>5, <2>6 DEF PathInv
<1>6. CASE MeasureReturns
  <2>1. /\ runs' = 0 /\ work' = {} /\ pc = "measure"
        /\ \/ pc' = pc /\ Current' = Current
           \/ pc' \in {"init", "report"}
    BY <1>2, <1>6 DEF MeasureReturns, StepReturns, MeasureAgain, GoOn, Current
  <2>2. Current = "oc51_idmt" => \A p \in Phase : One <= idmtProgress'[p]
    BY <1>1, <1>3, <2>1, WarmUpSuffices DEF PathInv
  <2>3. program = "prot" => frame' = FrameFor(Current)
    BY <1>1, <1>2 DEF PathInv
  <2>4. Current' = Current => FrameFor(Current)' = FrameFor(Current)
    BY DEF FrameFor
  <2>5. CASE pc' \in {"init", "report"}
    BY <1>3, <2>1, <2>5 DEF PathInv
  <2>6. CASE pc' = "measure" /\ Current' = Current
    BY <1>2, <1>3, <2>1, <2>2, <2>3, <2>4, <2>6 DEF PathInv
  <2>7. QED
    BY <2>1, <2>5, <2>6
<1>7. QED
  BY <1>4, <1>5, <1>6

\* Every step of main keeps the path.
LEMMA PathInductive ==
  ASSUME BenchmarkInv, Next
  PROVE  PathInv'
<1> USE Limits
<1>1. /\ LoopInv /\ PathInv /\ Benchmarks' = Benchmarks /\ program' = program
      /\ \A ch \in Sv!Channel : buffers[ch].count \in 0 .. N
      /\ {dtlTime, dirTime, distTime, diffTime} \subseteq [Phase -> Time]
      /\ idmtProgress \in [Phase -> Progress]
  BY SameProgram DEF BenchmarkInv, PathInv
<1>2. CASE LockMemory
  BY <1>1, <1>2 DEF LockMemory, PathInv, stateVars, measureVars
<1>3. CASE InitElement
  <2>1. /\ frame' = FrameFor(Current) /\ program = "prot" /\ pc = "init" /\ pc' = "create"
        /\ Current' = Current /\ work' = work /\ buffers' = buffers
    BY <1>1, <1>3 DEF InitElement, Current, measureVars
  <2>2. \A state \in [Phase -> Time], c \in Case : Zeroed(c, state) \in [Phase -> Time]
    BY TimerAssumption DEF Zeroed, Everywhere
  <2>3. Zeroed("oc51_idmt", idmtProgress) \in [Phase -> Progress]
    BY <1>1, ShareAssumption DEF Zeroed, Everywhere
  <2>4. {"oc51_dtl", "dir67", "dist21", "diff87"} \subseteq Case
    <3>1. /\ ProtCases[2] = "oc51_dtl" /\ ProtCases[4] = "dir67"
          /\ ProtCases[5] = "dist21" /\ ProtCases[6] = "diff87"
          /\ {2, 4, 5, 6} \subseteq DOMAIN ProtCases
      BY DEF ProtCases
    <3>2. QED
      BY <3>1 DEF Case
  <2>5. /\ {dtlTime, dirTime, distTime, diffTime}' \subseteq [Phase -> Time]
        /\ idmtProgress' \in [Phase -> Progress]
    BY <1>1, <1>3, <2>2, <2>3, <2>4 DEF InitElement
  <2>6. work = {}
    BY <1>1, <2>1 DEF PathInv
  <2>7. FrameFor(Current)' = FrameFor(Current)
    BY <2>1 DEF FrameFor
  <2>8. QED
    BY <1>1, <2>1, <2>5, <2>6, <2>7 DEF PathInv
<1>4. CASE InitMeasurement
  <2>1. \A ch \in Sv!Channel : buffers'[ch].count = 0
    BY <1>4 DEF InitMeasurement, Sv!EmptyRing
  <2>2. /\ pc = "init" /\ pc' = "fill" /\ runs' = 0 /\ work' = work
        /\ UNCHANGED stateVars
    BY <1>4 DEF InitMeasurement
  <2>3. QED
    BY <1>1, <2>1, <2>2 DEF PathInv, stateVars
<1>5. CASE FillRings
  <2>1. /\ pc = "fill" /\ work' = work /\ UNCHANGED stateVars /\ program = "meas"
        /\ \A ch \in Sv!Channel : buffers[ch].count = runs
        /\ runs \in Nat /\ runs <= N - 1
    BY <1>1, <1>5 DEF FillRings, PathInv, LoopInv
  <2>2. CASE runs < N - 1
    <3>1. Sv!ProcessSample(Payload) /\ runs' = runs + 1 /\ pc' = "fill"
      BY <1>5, <2>2 DEF FillRings, Prefilled
    <3>2. \A ch \in Sv!Channel : buffers'[ch].count = runs'
      BY <1>1, <2>1, <2>2, <3>1, RingsCount
    <3>3. QED
      BY <1>1, <2>1, <2>2, <3>1, <3>2 DEF PathInv, stateVars
  <2>3. CASE runs = N - 1
    <3>1. runs' = 0 /\ pc' = "create" /\ UNCHANGED measureVars
      BY <1>5, <2>1, <2>3 DEF FillRings, Prefilled
    <3>2. QED
      BY <1>1, <2>1, <2>3, <3>1 DEF PathInv, stateVars, measureVars
  <2>4. QED
    BY <2>1, <2>2, <2>3
<1>6. ASSUME NEW got \in SUBSET Timer!Block, CreateTimer(got)
      PROVE  PathInv'
  <2>1. /\ pc = "create" /\ work' = work /\ frame' = frame
        /\ UNCHANGED stateVars /\ UNCHANGED measureVars
        /\ runs' = runs /\ calls' = calls /\ runs = 0 /\ calls = 0
    BY <1>1, <1>6 DEF CreateTimer, LoopInv
  <2>2. CASE got = Timer!Block
    <3>1. pc' = "warm_up" /\ Current' = Current
      BY <1>1, <1>6, <2>2 DEF CreateTimer, Current
    <3>2. WarmedUp(calls * RunsPerCall + runs)'
      <4>1. 0 * RunsPerCall + 0 = 0
        BY Limits
      <4>2. \A p \in Phase : 0 <= idmtProgress[p]
        <5>1. \A x \in Progress : 0 <= x
          BY ShareAssumption
        <5>2. QED
          BY <1>1, <5>1
      <4>3. /\ calls' = 0 /\ runs' = 0 /\ idmtProgress' = idmtProgress
        BY <2>1 DEF stateVars
      <4>4. Floor(0) = 0
        BY FloorRun
      <4>5. QED
        BY <4>1, <4>2, <4>3, <4>4 DEF WarmedUp
    <3>3. FrameFor(Current)' = FrameFor(Current)
      BY <3>1 DEF FrameFor
    <3>4. QED
      BY <1>1, <2>1, <3>1, <3>2, <3>3 DEF PathInv, stateVars, measureVars
  <2>3. CASE got # Timer!Block
    <3>1. pc' \in {"init", "report"}
      BY <1>6, <2>3 DEF CreateTimer, GoOn
    <3>2. QED
      BY <1>1, <2>1, <3>1 DEF PathInv, stateVars, measureVars
  <2>4. QED
    BY <2>2, <2>3
<1>7. CASE Within \/ WarmUpReturns \/ MeasureReturns
  BY <1>7, PathOfStep
<1>8. CASE Report
  <2>1. pc = "report" /\ pc' \in {"report", "exit"} /\ work' = work
        /\ UNCHANGED stateVars /\ UNCHANGED measureVars
    BY <1>8 DEF Report
  <2>2. QED
    BY <1>1, <2>1 DEF PathInv, stateVars, measureVars
<1>9. QED
  BY <1>2, <1>3, <1>4, <1>5, <1>6, <1>7, <1>8, Moves

-----------------------------------------------------------------------------
(* The samples *)

\* The steps that neither make nor fill a timer leave the samples alone, and
\* come to no loop that uses one.
LEMMA SamplesLeft ==
  ASSUME BenchmarkInv, Next, UNCHANGED deltas, DOMAIN csv' = DOMAIN csv,
         pc' \notin {"warm_up", "measure"}
  PROVE  SampleInv'
<1>1. \A c \in Case : SteadyOutcome(c)' = SteadyOutcome(c)
  BY DEF SteadyOutcome
<1>2. QED
  BY <1>1 DEF BenchmarkInv, SampleInv

\* Every sample that is stored is steady.
LEMMA SampleInductive ==
  ASSUME BenchmarkInv, Next
  PROVE  SampleInv'
<1>1. /\ LoopInv /\ PathInv /\ SampleInv /\ Benchmarks' = Benchmarks
      /\ program' = program /\ Current \in Case
  BY SameProgram, CurrentCase DEF BenchmarkInv, LoopInv
<1>2. CASE LockMemory
  BY <1>2, SamplesLeft DEF LockMemory, timerVars
<1>3. CASE InitElement
  BY <1>3, SamplesLeft DEF InitElement, timerVars
<1>4. CASE InitMeasurement
  BY <1>4, SamplesLeft DEF InitMeasurement, timerVars
<1>5. CASE FillRings
  BY <1>5, SamplesLeft DEF FillRings, timerVars
<1>6. ASSUME NEW got \in SUBSET Timer!Block, CreateTimer(got)
      PROVE  SampleInv'
  <2>1. deltas' = [deltas EXCEPT ![Current] = <<>>] /\ csv' = csv
    BY <1>6 DEF CreateTimer, Timer!Create
  <2>2. ASSUME NEW c \in Case
        PROVE  /\ deltas'[c] \in Seq({{SteadyOutcome(c)}})
               /\ Len(deltas'[c]) <= SampleCount
    <3>1. CASE c = Current
      <4>1. deltas'[c] = <<>>
        BY <1>1, <2>1, <3>1 DEF SampleInv
      <4>2. QED
        BY <4>1, Limits
    <3>2. CASE c # Current
      BY <1>1, <2>1, <3>2 DEF SampleInv
    <3>3. QED
      BY <3>1, <3>2
  <2>3. DOMAIN deltas' = Case /\ DOMAIN csv' = Case /\ deltas'[Current] = <<>>
    BY <1>1, <2>1 DEF SampleInv
  <2>4. \/ pc' = "warm_up" /\ Current' = Current
        \/ pc' \in {"init", "report"}
    BY <1>1, <1>6 DEF CreateTimer, GoOn, Current
  <2>5. QED
    BY <2>2, <2>3, <2>4 DEF SampleInv, SteadyOutcome
<1>7. CASE Within
  <2>1. UNCHANGED <<deltas, csv, pc, calls>> /\ Current' = Current
    BY <1>1, <1>7 DEF Within, StepWithinCall, timerVars, Current
  <2>2. QED
    BY <1>1, <2>1 DEF SampleInv, SteadyOutcome
<1>8. CASE WarmUpReturns
  <2>1. UNCHANGED <<deltas, csv>> /\ Current' = Current /\ pc = "warm_up"
    BY <1>1, <1>8 DEF WarmUpReturns, timerVars, Current
  <2>2. pc' = "measure" => calls' = 0
    BY <1>8, <2>1 DEF WarmUpReturns
  <2>3. QED
    BY <1>1, <2>1, <2>2 DEF SampleInv, SteadyOutcome
<1>9. CASE MeasureReturns
  <2>1. /\ pc = "measure" /\ RunStep /\ UNCHANGED frame /\ csv' = csv
        /\ deltas' = [deltas EXCEPT ![Current] = Append(deltas[Current], WorkAfter)]
    BY <1>9 DEF MeasureReturns, StepReturns, Timer!Measure, Timer!Stored
  <2>2. WorkAfter = {SteadyOutcome(Current)}
    <3>1. Outcome' = SteadyOutcome(Current)
      BY <1>1, <2>1, StepOfCase
    <3>2. work \subseteq {SteadyOutcome(Current)}
      BY <1>1, <2>1 DEF PathInv
    <3>3. QED
      BY <3>1, <3>2 DEF WorkAfter
  <2>3. /\ deltas[Current] \in Seq({{SteadyOutcome(Current)}})
        /\ Len(deltas[Current]) = calls /\ calls \in Nat /\ calls < SampleCount
    BY <1>1, <2>1 DEF SampleInv, LoopInv
  <2>4. deltas'[Current] = Append(deltas[Current], {SteadyOutcome(Current)})
    BY <1>1, <2>1, <2>2 DEF SampleInv
  <2>5. /\ deltas'[Current] \in Seq({{SteadyOutcome(Current)}})
        /\ Len(deltas'[Current]) = calls + 1 /\ calls + 1 <= SampleCount
    BY <2>3, <2>4, Limits
  <2>6. ASSUME NEW c \in Case
        PROVE  /\ deltas'[c] \in Seq({{SteadyOutcome(c)}})
               /\ Len(deltas'[c]) <= SampleCount
    <3>1. CASE c = Current
      BY <2>5, <3>1
    <3>2. CASE c # Current
      BY <1>1, <2>1, <3>2 DEF SampleInv
    <3>3. QED
      BY <3>1, <3>2
  <2>7. DOMAIN deltas' = Case /\ DOMAIN csv' = Case
    BY <1>1, <2>1 DEF SampleInv
  <2>8. \/ pc' = "measure" /\ Current' = Current /\ calls' = calls + 1
        \/ pc' \in {"init", "report"}
    BY <1>1, <1>9 DEF MeasureReturns, MeasureAgain, GoOn, Current
  <2>9. QED
    BY <2>5, <2>6, <2>7, <2>8 DEF SampleInv, SteadyOutcome
<1>10. CASE Report
  BY <1>10, SamplesLeft DEF Report, timerVars, Timer!SaveAndFree
<1>11. QED
  BY <1>2, <1>3, <1>4, <1>5, <1>6, <1>7, <1>8, <1>9, <1>10, Moves

-----------------------------------------------------------------------------
(* The cases *)

\* A step that leaves the samples and the marks of a case alone leaves it
\* settled, untouched or reported.
LEMMA CaseLeft ==
  ASSUME Benchmarks' = Benchmarks, NEW j \in DOMAIN Benchmarks,
         deltas'[Benchmarks[j]] = deltas[Benchmarks[j]],
         csv'[Benchmarks[j]] = csv[Benchmarks[j]],
         Benchmarks[j] \in failed' <=> Benchmarks[j] \in failed,
         Benchmarks[j] \in timers' <=> Benchmarks[j] \in timers
  PROVE  /\ Settled(j)' <=> Settled(j)
         /\ Untouched(j)' <=> Untouched(j)
         /\ Reported(j)' <=> Reported(j)
BY DEF Settled, Untouched, Reported, Timer!NoFile

\* main goes on with the case it is at settled.
LEMMA OnwardSettled ==
  ASSUME LoopInv, GoOn, Benchmarks' = Benchmarks,
         \A j \in DOMAIN Benchmarks : IF j <= i THEN Settled(j)' ELSE Untouched(j)',
         \A c \in Case : csv'[c] = Timer!NoFile,
         timers' \subseteq Case, failed' \subseteq Case
  PROVE  CaseInv'
<1>1. /\ i \in DOMAIN Benchmarks /\ DOMAIN Benchmarks = 1 .. Len(Benchmarks)
      /\ Len(Benchmarks) \in Nat /\ \A j \in DOMAIN Benchmarks : Benchmarks[j] \in Case
  BY CasesOfProgram DEF LoopInv
<1>2. CASE i < Len(Benchmarks)
  <2>1. i' = i + 1 /\ pc' = "init"
    BY <1>2 DEF GoOn, NextCase
  <2>2. \A j \in DOMAIN Benchmarks : j <= i <=> j < i'
    BY <1>1, <2>1
  <2>3. QED
    BY <2>1, <2>2 DEF CaseInv, Timer!NoFile
<1>3. CASE ~(i < Len(Benchmarks))
  <2>1. i' = 1 /\ pc' = "report"
    BY <1>3 DEF GoOn
  <2>2. \A j \in DOMAIN Benchmarks : j <= i /\ ~(j < i')
    BY <1>1, <1>3, <2>1
  <2>3. QED
    BY <1>1, <2>1, <2>2 DEF CaseInv, Setup, Timer!NoFile
<1>4. QED
  BY <1>2, <1>3

\* Steps within the case main is setting up.
LEMMA WithinCase ==
  ASSUME LoopInv, CaseInv, pc \in Setup, pc' \in Setup, Benchmarks' = Benchmarks,
         UNCHANGED <<i, timers, failed, csv>>,
         \A c \in Case \ {Current} : deltas'[c] = deltas[c]
  PROVE  CaseInv'
<1>1. \A j \in DOMAIN Benchmarks : j # i => Benchmarks[j] \in Case \ {Current}
  BY CasesOfProgram DEF LoopInv, Current
<1>2. \A j \in DOMAIN Benchmarks : j < i => Settled(j)'
  <2>1. SUFFICES ASSUME NEW j \in DOMAIN Benchmarks, j < i PROVE Settled(j)'
    OBVIOUS
  <2>2. i \in Nat /\ j \in Nat /\ j # i
    BY <2>1, CasesOfProgram DEF LoopInv
  <2>3. Settled(j)
    BY <2>1 DEF CaseInv
  <2>4. QED
    BY <1>1, <2>2, <2>3, CaseLeft
<1>3. \A j \in DOMAIN Benchmarks : ~(j < i) => Untouched(j)'
  BY DEF CaseInv, Untouched
<1>4. pc' \notin {"report", "exit"}
  BY DEF Setup
<1>5. QED
  BY <1>2, <1>3, <1>4 DEF CaseInv, Timer!NoFile

\* Every step keeps the account of the cases.
LEMMA CaseInductive ==
  ASSUME BenchmarkInv, Next
  PROVE  CaseInv'
<1>1. /\ LoopInv /\ SampleInv /\ CaseInv /\ Benchmarks' = Benchmarks
      /\ program' = program /\ Current \in Case /\ Current = Benchmarks[i]
      /\ i \in Nat /\ i \in DOMAIN Benchmarks
      /\ DOMAIN Benchmarks = 1 .. Len(Benchmarks) /\ Len(Benchmarks) \in Nat
      /\ \A j \in DOMAIN Benchmarks : Benchmarks[j] \in Case
  BY SameProgram, CurrentCase, CasesOfProgram DEF BenchmarkInv, LoopInv, Current
<1>2. \A j \in DOMAIN Benchmarks : j # i => Benchmarks[j] # Current
  BY <1>1, CasesOfProgram DEF LoopInv
<1>3. CASE LockMemory
  BY <1>1, <1>3, WithinCase DEF LockMemory, timerVars, Setup
<1>4. CASE InitElement
  BY <1>1, <1>4, WithinCase DEF InitElement, timerVars, Setup
<1>5. CASE InitMeasurement
  BY <1>1, <1>5, WithinCase DEF InitMeasurement, timerVars, Setup
<1>6. CASE FillRings
  BY <1>1, <1>6, WithinCase DEF FillRings, timerVars, Setup
<1>7. ASSUME NEW got \in SUBSET Timer!Block, CreateTimer(got)
      PROVE  CaseInv'
  <2>1. /\ pc = "create" /\ csv' = csv /\ timers' = timers
        /\ deltas' = [deltas EXCEPT ![Current] = <<>>]
    BY <1>7 DEF CreateTimer, Timer!Create
  <2>2. \A c \in Case \ {Current} : deltas'[c] = deltas[c]
    BY <1>1, <2>1 DEF SampleInv
  <2>3. CASE got = Timer!Block
    BY <1>1, <1>7, <2>1, <2>2, <2>3, WithinCase DEF CreateTimer, Setup
  <2>4. CASE got # Timer!Block
    <3>1. GoOn /\ failed' = failed \cup {Current}
      BY <1>7, <2>4 DEF CreateTimer
    <3>2. ASSUME NEW j \in DOMAIN Benchmarks
          PROVE  IF j <= i THEN Settled(j)' ELSE Untouched(j)'
      <4>1. CASE j = i
        <5>1. Untouched(i)
          BY <1>1, <2>1 DEF CaseInv, Setup
        <5>2. Current \in failed' /\ Current \notin timers'
          BY <1>1, <2>1, <3>1, <5>1 DEF Untouched
        <5>3. QED
          BY <1>1, <4>1, <5>2 DEF Settled
      <4>2. CASE j # i
        <5>1. /\ Settled(j)' <=> Settled(j)
              /\ Untouched(j)' <=> Untouched(j)
          BY <1>1, <1>2, <2>1, <2>2, <3>1, <4>2, CaseLeft
        <5>2. IF j < i THEN Settled(j) ELSE Untouched(j)
          BY <1>1, <2>1 DEF CaseInv, Setup
        <5>3. j <= i <=> j < i
          BY <1>1, <4>2
        <5>4. QED
          BY <5>1, <5>2, <5>3
      <4>3. QED
        BY <4>1, <4>2
    <3>3. \A c \in Case : csv'[c] = Timer!NoFile
      BY <1>1, <2>1 DEF CaseInv, Setup
    <3>4. timers' \subseteq Case /\ failed' \subseteq Case
      BY <1>1, <2>1, <3>1 DEF CaseInv
    <3>5. QED
      BY <1>1, <3>1, <3>2, <3>3, <3>4, OnwardSettled
  <2>5. QED
    BY <2>3, <2>4
<1>8. CASE Within
  BY <1>1, <1>8, WithinCase DEF Within, StepWithinCall, timerVars, Setup
<1>9. CASE WarmUpReturns
  BY <1>1, <1>9, WithinCase DEF WarmUpReturns, timerVars, Setup
<1>10. CASE MeasureReturns
  <2>1. /\ pc = "measure" /\ csv' = csv /\ failed' = failed
        /\ deltas' = [deltas EXCEPT ![Current] = Append(deltas[Current], WorkAfter)]
    BY <1>10 DEF MeasureReturns, Timer!Measure, Timer!Stored
  <2>2. \A c \in Case \ {Current} : deltas'[c] = deltas[c]
    BY <1>1, <2>1 DEF SampleInv
  <2>3. CASE calls + 1 < SampleCount
    BY <1>1, <1>10, <2>1, <2>2, <2>3, WithinCase DEF MeasureReturns, MeasureAgain, Setup
  <2>4. CASE ~(calls + 1 < SampleCount)
    <3>1. GoOn /\ timers' = timers \cup {Current}
      BY <1>10, <2>4 DEF MeasureReturns, MeasureAgain
    <3>2. Len(deltas'[Current]) = SampleCount
      <4>1. /\ calls \in Nat /\ calls < SampleCount /\ Len(deltas[Current]) = calls
            /\ deltas[Current] \in Seq({{SteadyOutcome(Current)}})
        BY <1>1, <2>1 DEF SampleInv, LoopInv
      <4>2. deltas'[Current] = Append(deltas[Current], WorkAfter)
        BY <1>1, <2>1 DEF SampleInv
      <4>3. Len(deltas'[Current]) = calls + 1
        BY <4>1, <4>2
      <4>4. QED
        BY <2>4, <4>1, <4>3, Limits
    <3>3. ASSUME NEW j \in DOMAIN Benchmarks
          PROVE  IF j <= i THEN Settled(j)' ELSE Untouched(j)'
      <4>1. CASE j = i
        <5>1. Untouched(i)
          BY <1>1, <2>1 DEF CaseInv, Setup
        <5>2. Current \notin failed' /\ Current \in timers'
          BY <1>1, <2>1, <3>1, <5>1 DEF Untouched
        <5>3. QED
          BY <1>1, <3>2, <4>1, <5>2 DEF Settled
      <4>2. CASE j # i
        <5>1. /\ Settled(j)' <=> Settled(j)
              /\ Untouched(j)' <=> Untouched(j)
          BY <1>1, <1>2, <2>1, <2>2, <3>1, <4>2, CaseLeft
        <5>2. IF j < i THEN Settled(j) ELSE Untouched(j)
          BY <1>1, <2>1 DEF CaseInv, Setup
        <5>3. j <= i <=> j < i
          BY <1>1, <4>2
        <5>4. QED
          BY <5>1, <5>2, <5>3
      <4>3. QED
        BY <4>1, <4>2
    <3>4. \A c \in Case : csv'[c] = Timer!NoFile
      BY <1>1, <2>1 DEF CaseInv, Setup
    <3>5. timers' \subseteq Case /\ failed' \subseteq Case
      BY <1>1, <2>1, <3>1 DEF CaseInv
    <3>6. QED
      BY <1>1, <3>1, <3>3, <3>4, <3>5, OnwardSettled
  <2>5. QED
    BY <2>3, <2>4
<1>11. CASE Report
  <2>1. /\ pc = "report" /\ timers' = timers
        /\ \A j \in DOMAIN Benchmarks :
             IF j < i THEN Reported(j)
             ELSE Settled(j) /\ csv[Benchmarks[j]] = Timer!NoFile
    BY <1>1, <1>11 DEF Report, CaseInv
  <2>2. deltas' = deltas
    BY <1>11 DEF Report, Timer!SaveAndFree, timerVars
  <2>3. /\ \A c \in Case \ {Current} : csv'[c] = csv[c] /\ (c \in failed' <=> c \in failed)
        /\ failed' \subseteq Case
        /\ \A j \in DOMAIN Benchmarks : j = i => Reported(j)'
    <3>1. Settled(i) /\ csv[Current] = Timer!NoFile
      BY <1>1, <2>1
    <3>2. CASE Current \in timers
      <4>1. /\ csv' = [csv EXCEPT ![Current] = deltas[Current]] \/ csv' = csv
            /\ failed' = IF csv' = csv THEN failed \cup {Current} ELSE failed
        BY <1>11, <3>2 DEF Report, Timer!SaveAndFree
      <4>2. Current \notin failed /\ Len(deltas[Current]) = SampleCount
        BY <1>1, <3>1, <3>2 DEF Settled
      <4>3. CASE csv' = csv
        <5>1. Current \in failed' /\ csv'[Current] = Timer!NoFile
          BY <3>1, <4>1, <4>3
        <5>2. QED
          BY <1>1, <4>1, <4>3, <5>1 DEF Reported, CaseInv, Timer!NoFile
      <4>4. CASE csv' # csv
        <5>1. /\ csv' = [csv EXCEPT ![Current] = deltas[Current]] /\ failed' = failed
          BY <4>1, <4>4
        <5>2. csv'[Current] = deltas'[Current] /\ Len(csv'[Current]) = SampleCount
          BY <1>1, <2>2, <4>2, <5>1 DEF SampleInv
        <5>3. QED
          BY <1>1, <4>2, <5>1, <5>2 DEF Reported, CaseInv, SampleInv
      <4>5. QED
        BY <4>3, <4>4
    <3>3. CASE Current \notin timers
      <4>1. csv' = csv /\ failed' = failed /\ Current \in failed
        BY <1>1, <1>11, <3>1, <3>3 DEF Report, timerVars, Settled
      <4>2. QED
        BY <1>1, <3>1, <4>1 DEF Reported, CaseInv, Timer!NoFile
    <3>4. QED
      BY <3>2, <3>3
  <2>4. ASSUME NEW j \in DOMAIN Benchmarks
        PROVE  IF j <= i THEN Reported(j)'
               ELSE Settled(j)' /\ csv'[Benchmarks[j]] = Timer!NoFile
    <3>1. CASE j = i
      BY <1>1, <2>3, <3>1
    <3>2. CASE j # i
      <4>1. Benchmarks[j] \in Case \ {Current}
        BY <1>1, <1>2, <3>2
      <4>2. /\ Settled(j)' <=> Settled(j)
            /\ Reported(j)' <=> Reported(j)
            /\ csv'[Benchmarks[j]] = csv[Benchmarks[j]]
        BY <1>1, <2>1, <2>2, <2>3, <4>1, CaseLeft
      <4>3. j <= i <=> j < i
        BY <1>1, <3>2
      <4>4. QED
        BY <2>1, <4>2, <4>3
    <3>3. QED
      BY <3>1, <3>2
  <2>5. CASE i < Len(Benchmarks)
    <3>1. i' = i + 1 /\ pc' = "report"
      BY <1>11, <2>1, <2>5 DEF Report
    <3>2. \A j \in DOMAIN Benchmarks : j <= i <=> j < i'
      BY <1>1, <3>1
    <3>3. timers \subseteq Case /\ pc' \notin Setup /\ pc' # "exit"
      BY <1>1, <3>1 DEF CaseInv, Setup
    <3>4. QED
      BY <1>1, <2>1, <2>3, <2>4, <3>1, <3>2, <3>3 DEF CaseInv, Timer!NoFile
  <2>6. CASE ~(i < Len(Benchmarks))
    <3>1. pc' = "exit"
      BY <1>11, <2>6 DEF Report
    <3>2. \A j \in DOMAIN Benchmarks : j <= i
      BY <1>1, <2>6
    <3>3. timers \subseteq Case /\ pc' \notin Setup /\ pc' # "report"
      BY <1>1, <3>1 DEF CaseInv, Setup
    <3>4. QED
      BY <1>1, <2>1, <2>3, <2>4, <3>1, <3>2, <3>3 DEF CaseInv
  <2>7. QED
    BY <2>5, <2>6
<1>12. QED
  BY <1>3, <1>4, <1>5, <1>6, <1>7, <1>8, <1>9, <1>10, <1>11, Moves

-----------------------------------------------------------------------------
(* The memory *)

\* Case c owns a timer.
Owns(c) ==
  \/ /\ pc # "exit"
     /\ \E j \in DOMAIN Benchmarks :
          /\ c = Benchmarks[j] /\ c \in timers
          /\ pc = "report" => j >= i
  \/ pc \in {"warm_up", "measure"} /\ c = Current

LEMMA OwnersOwn == \A c : c \in Owners <=> Owns(c)
BY DEF Owners, Owns

\* A step that neither takes nor frees memory, and changes no owner.
LEMMA HeapLeft ==
  ASSUME HeapInv, heap' = heap, \A c : Owns(c)' <=> Owns(c)
  PROVE  HeapInv'
<1>1. \A c : c \in Owners' <=> Owns(c)'
  BY DEF Owners, Owns
<1>2. Owners' = Owners
  BY <1>1, OwnersOwn
<1>3. QED
  BY <1>2 DEF HeapInv, Timer!Block

\* When main leaves the first loop the owners are the cases with a timer.
LEMMA OwnersOnward ==
  ASSUME LoopInv, GoOn, Benchmarks' = Benchmarks
  PROVE  \A c : Owns(c)' <=> \E j \in DOMAIN Benchmarks : c = Benchmarks[j] /\ c \in timers'
<1>1. pc' = "init" \/ (pc' = "report" /\ i' = 1)
  BY DEF GoOn
<1>2. \A j \in DOMAIN Benchmarks : j >= 1
  BY CasesOfProgram DEF LoopInv
<1>3. QED
  BY <1>1, <1>2 DEF Owns

\* Every step takes and frees the memory of the owners that come and go.
LEMMA HeapInductive ==
  ASSUME BenchmarkInv, Next
  PROVE  HeapInv'
<1>1. /\ LoopInv /\ CaseInv /\ HeapInv /\ Benchmarks' = Benchmarks
      /\ Current = Benchmarks[i] /\ i \in DOMAIN Benchmarks /\ i \in Nat
      /\ DOMAIN Benchmarks = 1 .. Len(Benchmarks) /\ Len(Benchmarks) \in Nat
      /\ \A j, k \in DOMAIN Benchmarks : Benchmarks[j] = Benchmarks[k] => j = k
      /\ Timer!Block' = Timer!Block
  BY SameProgram, CasesOfProgram DEF BenchmarkInv, LoopInv, Current, Timer!Block
<1>2. \A c : c \in Owners' <=> Owns(c)'
  BY DEF Owners, Owns
<1>3. CASE LockMemory
  <2>1. \A c : Owns(c)' <=> Owns(c)
    BY <1>1, <1>3 DEF LockMemory, Owns
  <2>2. QED
    BY <1>1, <1>3, <2>1, HeapLeft DEF LockMemory, timerVars
<1>4. CASE InitElement
  <2>1. \A c : Owns(c)' <=> Owns(c)
    BY <1>1, <1>4 DEF InitElement, Owns
  <2>2. QED
    BY <1>1, <1>4, <2>1, HeapLeft DEF InitElement, timerVars
<1>5. CASE InitMeasurement
  <2>1. \A c : Owns(c)' <=> Owns(c)
    BY <1>1, <1>5 DEF InitMeasurement, Owns
  <2>2. QED
    BY <1>1, <1>5, <2>1, HeapLeft DEF InitMeasurement, timerVars
<1>6. CASE FillRings
  <2>1. \A c : Owns(c)' <=> Owns(c)
    BY <1>1, <1>6 DEF FillRings, Owns
  <2>2. QED
    BY <1>1, <1>6, <2>1, HeapLeft DEF FillRings, timerVars
<1>7. ASSUME NEW got \in SUBSET Timer!Block, CreateTimer(got)
      PROVE  HeapInv'
  <2>1. /\ pc = "create" /\ timers' = timers
        /\ heap' = heap \cup Timer!LeftOf(Current, got)
    BY <1>7 DEF CreateTimer, Timer!Create
  <2>2. CASE got = Timer!Block
    <3>1. pc' = "warm_up" /\ Current' = Current
      BY <1>1, <1>7, <2>2 DEF CreateTimer, Current
    <3>2. \A c : Owns(c)' <=> Owns(c) \/ c = Current
      BY <1>1, <2>1, <3>1 DEF Owns
    <3>3. Owners' = Owners \cup {Current}
      BY <1>2, <3>2, OwnersOwn
    <3>4. heap' = heap \cup ({Current} \X Timer!Block)
      BY <2>1, <2>2 DEF Timer!LeftOf, Timer!BlocksOf
    <3>5. QED
      BY <1>1, <3>3, <3>4 DEF HeapInv
  <2>3. CASE got # Timer!Block
    <3>1. GoOn /\ heap' = heap
      BY <1>7, <2>1, <2>3 DEF CreateTimer, Timer!LeftOf
    <3>2. \A c : Owns(c)' <=> Owns(c)
      BY <1>1, <2>1, <3>1, OwnersOnward DEF Owns
    <3>3. QED
      BY <1>1, <3>1, <3>2, HeapLeft
  <2>4. QED
    BY <2>2, <2>3
<1>8. CASE Within
  <2>1. \A c : Owns(c)' <=> Owns(c)
    BY <1>1, <1>8 DEF Within, StepWithinCall, Owns, Current
  <2>2. QED
    BY <1>1, <1>8, <2>1, HeapLeft DEF Within, StepWithinCall, timerVars
<1>9. CASE WarmUpReturns
  <2>1. \A c : Owns(c)' <=> Owns(c)
    BY <1>1, <1>9 DEF WarmUpReturns, Owns, Current
  <2>2. QED
    BY <1>1, <1>9, <2>1, HeapLeft DEF WarmUpReturns, timerVars
<1>10. CASE MeasureReturns
  <2>1. pc = "measure" /\ heap' = heap
    BY <1>10 DEF MeasureReturns, Timer!Measure
  <2>2. CASE calls + 1 < SampleCount
    <3>1. \A c : Owns(c)' <=> Owns(c)
      BY <1>1, <1>10, <2>2 DEF MeasureReturns, MeasureAgain, Owns, Current
    <3>2. QED
      BY <1>1, <2>1, <3>1, HeapLeft
  <2>3. CASE ~(calls + 1 < SampleCount)
    <3>1. GoOn /\ timers' = timers \cup {Current}
      BY <1>10, <2>3 DEF MeasureReturns, MeasureAgain
    <3>2. \A c : Owns(c)' <=>
                   \E j \in DOMAIN Benchmarks : c = Benchmarks[j] /\ c \in timers \cup {Current}
      BY <1>1, <3>1, OwnersOnward
    <3>3. \A c : Owns(c)' <=> Owns(c)
      BY <1>1, <2>1, <3>2 DEF Owns
    <3>4. QED
      BY <1>1, <2>1, <3>3, HeapLeft
  <2>4. QED
    BY <2>2, <2>3
<1>11. CASE Report
  <2>1. pc = "report" /\ timers' = timers
    BY <1>11 DEF Report
  <2>2. \/ i < Len(Benchmarks) /\ i' = i + 1 /\ pc' = "report"
        \/ i = Len(Benchmarks) /\ pc' = "exit"
    BY <1>1, <1>11 DEF Report
  <2>3. ASSUME NEW c
        PROVE  Owns(c)' <=> Owns(c) /\ c # Current
    <3>1. Owns(c) <=> \E j \in DOMAIN Benchmarks : c = Benchmarks[j] /\ c \in timers /\ j >= i
      BY <2>1 DEF Owns
    <3>2. Owns(c)' <=> \E j \in DOMAIN Benchmarks : c = Benchmarks[j] /\ c \in timers /\ j > i
      <4>1. CASE i < Len(Benchmarks) /\ i' = i + 1 /\ pc' = "report"
        <5>1. \A j \in DOMAIN Benchmarks : j >= i' <=> j > i
          BY <1>1, <4>1
        <5>2. QED
          BY <1>1, <2>1, <4>1, <5>1 DEF Owns
      <4>2. CASE i = Len(Benchmarks) /\ pc' = "exit"
        <5>1. \A j \in DOMAIN Benchmarks : ~(j > i)
          BY <1>1, <4>2
        <5>2. QED
          BY <4>2, <5>1 DEF Owns
      <4>3. QED
        BY <2>2, <4>1, <4>2
    <3>3. \A j \in DOMAIN Benchmarks : j > i <=> j >= i /\ Benchmarks[j] # Current
      <4>1. \A j \in DOMAIN Benchmarks : j > i <=> j >= i /\ j # i
        BY <1>1
      <4>2. QED
        BY <1>1, <4>1
    <3>4. QED
      BY <3>1, <3>2, <3>3
  <2>4. Owners' = Owners \ {Current}
    BY <1>2, <2>3, OwnersOwn
  <2>5. heap' = heap \ ({Current} \X Timer!Block)
    <3>1. CASE Current \in timers
      BY <1>11, <3>1 DEF Report, Timer!SaveAndFree, Timer!BlocksOf
    <3>2. CASE Current \notin timers
      <4>1. heap' = heap
        BY <1>11, <3>2 DEF Report, timerVars
      <4>2. ~Owns(Current)
        BY <2>1, <3>2 DEF Owns
      <4>3. Current \notin Owners
        BY <4>2, OwnersOwn
      <4>4. QED
        BY <1>1, <4>1, <4>3 DEF HeapInv
    <3>3. QED
      BY <3>1, <3>2
  <2>6. QED
    BY <1>1, <2>4, <2>5 DEF HeapInv
<1>12. QED
  BY <1>3, <1>4, <1>5, <1>6, <1>7, <1>8, <1>9, <1>10, <1>11, Moves

-----------------------------------------------------------------------------
(* The theorems *)

\* The invariant holds initially and every step of main keeps it.
LEMMA BenchmarkInvariant == Spec => []BenchmarkInv
<1>1. Init => BenchmarkInv
  BY BenchmarkInit
<1>2. BenchmarkInv /\ [Next]_vars => BenchmarkInv'
  <2>1. ASSUME BenchmarkInv, Next PROVE BenchmarkInv'
    BY <2>1, LoopInductive, PathInductive, SampleInductive, CaseInductive, HeapInductive
       DEF BenchmarkInv
  <2>2. ASSUME BenchmarkInv, UNCHANGED vars PROVE BenchmarkInv'
    <3>1. /\ UNCHANGED <<program, pc, i, calls, runs, work, timers, failed, heap, deltas,
                         csv, frame, dtlTime, idmtProgress, dirTime, distTime, diffTime,
                         output, buffers, out_frame>>
          /\ Benchmarks' = Benchmarks /\ Current' = Current
      BY <2>2 DEF vars, mainVars, timerVars, stateVars, measureVars, Benchmarks, Current
    <3>2. LoopInv'
      BY <2>2, <3>1 DEF BenchmarkInv, LoopInv
    <3>3. PathInv'
      BY <2>2, <3>1 DEF BenchmarkInv, PathInv, WarmedUp, SteadyOutcome, FrameFor
    <3>4. SampleInv'
      BY <2>2, <3>1 DEF BenchmarkInv, SampleInv, SteadyOutcome
    <3>5. CaseInv'
      BY <2>2, <3>1 DEF BenchmarkInv, CaseInv, Settled, Untouched, Reported, Timer!NoFile
    <3>6. HeapInv'
      <4>1. \A c : Owns(c)' <=> Owns(c)
        BY <3>1 DEF Owns
      <4>2. QED
        BY <2>2, <3>1, <4>1, HeapLeft DEF BenchmarkInv
    <3>7. QED
      BY <3>2, <3>3, <3>4, <3>5, <3>6 DEF BenchmarkInv
  <2>3. QED
    BY <2>1, <2>2
<1>3. QED
  BY <1>1, <1>2, PTL DEF Spec

\* The state of main and of its timers is what their code declares.
THEOREM BenchmarkTypeCorrect == Spec => []TypeOK
<1>1. ASSUME BenchmarkInv PROVE TypeOK
  <2>1. heap \subseteq Case \X Timer!Block
    <3>1. Owners \subseteq Case
      BY <1>1, CurrentCase, CasesOfProgram DEF BenchmarkInv, LoopInv, Owners
    <3>2. QED
      BY <1>1, <3>1 DEF BenchmarkInv, HeapInv
  <2>2. QED
    BY <1>1, <2>1 DEF BenchmarkInv, LoopInv, SampleInv, CaseInv, TypeOK
<1>2. QED
  BY <1>1, BenchmarkInvariant, PTL

\* Every sample a benchmark stores has timed the one path its case is set up
\* for: no accumulated time, progress or ring carried over from a case, from
\* the warm-up or from an earlier sample makes a call take another.
THEOREM SamplesAreComparable == Spec => []SamplesComparable
<1>1. ASSUME BenchmarkInv PROVE SamplesComparable
  <2>1. SUFFICES ASSUME NEW c \in Case, NEW j \in DOMAIN deltas[c]
                 PROVE  deltas[c][j] = {SteadyOutcome(c)}
    BY DEF SamplesComparable
  <2>2. deltas[c] \in Seq({{SteadyOutcome(c)}})
    BY <1>1 DEF BenchmarkInv, SampleInv
  <2>3. QED
    BY <2>1, <2>2
<1>2. QED
  BY <1>1, BenchmarkInvariant, PTL

\* initialize_meas_benchmark pushes so many samples that the first call of the
\* warm-up, and every later one, estimates from a whole cycle.
THEOREM DftRunsFromTheFirstStep == Spec => []DftFromFirstStep
<1>1. BenchmarkInv => DftFromFirstStep
  BY DEF BenchmarkInv, PathInv, DftFromFirstStep
<1>2. QED
  BY <1>1, BenchmarkInvariant, PTL

\* At exit a case without a failed call has all its samples in its file, and a
\* failed one has no file, whichever allocations and opens have failed.
THEOREM CasesAreReported == Spec => []EveryCaseReported
<1>1. BenchmarkInv => EveryCaseReported
  BY DEF BenchmarkInv, CaseInv, Reported, EveryCaseReported
<1>2. QED
  BY <1>1, BenchmarkInvariant, PTL

\* The memory in use is at every moment that of the timers in use, so that no
\* failed creation leaks, and no timer is used after it was freed.
THEOREM HeapIsExact == Spec => []HeapIsTimers
<1>1. BenchmarkInv => HeapIsTimers
  BY BlocksOfOwners DEF BenchmarkInv, HeapInv, HeapIsTimers
<1>2. QED
  BY <1>1, BenchmarkInvariant, PTL

-----------------------------------------------------------------------------
(* The end of main *)

\* Where main is: which of its parts, and how far it has come with a case.
Part == CASE pc = "lock" -> 0 [] pc = "report" -> 2 [] pc \in {"exit", "failure"} -> 3
          [] OTHER -> 1
Stage == CASE pc = "fill" -> 1 [] pc = "create" -> 2 [] pc = "warm_up" -> 3
           [] pc = "measure" -> 4 [] OTHER -> 0

FurtherOn ==
  \/ Part < Part'
  \/ UNCHANGED Part /\ i < i'
  \/ UNCHANGED <<Part, i>> /\ Stage < Stage'
  \/ UNCHANGED <<Part, i, Stage>> /\ calls < calls'
  \/ UNCHANGED <<Part, i, Stage, calls>> /\ runs < runs'

WithinLoops ==
  /\ i <= Len(Benchmarks)
  /\ pc = "fill" => runs < N
  /\ pc = "warm_up" => calls < WarmUps /\ runs < RunsPerCall
  /\ pc = "measure" => calls < SampleCount /\ runs < RunsPerCall

\* What makes main end: every step takes it further, through loops that are
\* bounded, and no failing call makes it try a case or a step once more.
NearsExit == [][FurtherOn /\ WithinLoops']_vars

\* Every step takes main further, for every array of cases and every count of
\* calls and steps, whichever calls fail: the part of its termination that does
\* not rest on fairness.
THEOREM MainNearsExit == Spec => NearsExit
<1>1. ASSUME BenchmarkInv, Next PROVE FurtherOn /\ WithinLoops'
  <2>1. LoopInv /\ i \in Nat /\ calls \in Nat /\ runs \in Nat /\ Benchmarks' = Benchmarks
    BY <1>1, SameProgram, CasesOfProgram DEF BenchmarkInv, LoopInv
  <2>2. WithinLoops'
    <3>1. LoopInv'
      BY <1>1, LoopInductive
    <3>2. DOMAIN Benchmarks' = 1 .. Len(Benchmarks') /\ Len(Benchmarks') \in Nat
      BY <1>1, <2>1, CasesOfProgram DEF LoopInv
    <3>3. QED
      BY <3>1, <3>2, Limits DEF LoopInv, WithinLoops
  <2>3. FurtherOn
    <3> USE <2>1, Limits DEF LoopInv, FurtherOn, Part, Stage
    <3>1. CASE LockMemory
      BY <3>1 DEF LockMemory
    <3>2. CASE InitElement
      BY <3>2 DEF InitElement
    <3>3. CASE InitMeasurement
      BY <3>3 DEF InitMeasurement
    <3>4. CASE FillRings
      BY <3>4 DEF FillRings
    <3>5. ASSUME NEW got \in SUBSET Timer!Block, CreateTimer(got)
          PROVE  FurtherOn
      BY <3>5 DEF CreateTimer, GoOn, NextCase
    <3>6. CASE Within
      BY <3>6 DEF Within, StepWithinCall
    <3>7. CASE WarmUpReturns
      BY <3>7 DEF WarmUpReturns
    <3>8. CASE MeasureReturns
      BY <3>8 DEF MeasureReturns, MeasureAgain, GoOn, NextCase
    <3>9. CASE Report
      BY <3>9 DEF Report
    <3>10. QED
      BY <1>1, <3>1, <3>2, <3>3, <3>4, <3>5, <3>6, <3>7, <3>8, <3>9, Moves
  <2>4. QED
    BY <2>2, <2>3
<1>2. BenchmarkInv /\ [Next]_vars => [FurtherOn /\ WithinLoops']_vars
  BY <1>1
<1>3. QED
  BY <1>2, BenchmarkInvariant, PTL DEF Spec, NearsExit
=============================================================================

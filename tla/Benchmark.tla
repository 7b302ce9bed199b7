----------------------------- MODULE Benchmark -----------------------------
(***************************************************************************)
(* prot_benchmarking and meas_benchmarking: two programs with the same     *)
(* main, which sets up one case after another, calls its function some     *)
(* times unmeasured and then through a perf_timer, and saves every timer   *)
(* when all cases have run.  A call of the function makes RunsPerCall      *)
(* steps of an element, or of the measurement layer, on the same input.    *)
(***************************************************************************)
EXTENDS DefiniteTime, InverseTime, Sequences

CONSTANTS
  Magnitude, Angle,   \* as in Diff87
  N,              \* MEAS_SAMPLES_PER_CYCLE
  RunsPerCall,    \* AMOUNT_RUNS_PER_BENCHMARK
  WarmUps,        \* the unmeasured calls, 1000 in both programs
  SampleCount,    \* default_sample_count
  Failing         \* as in PerfTimer

\* The delays are 0 and the warm-up outlasts the longest operate time of the
\* one element left whose path depends on its past.
ASSUME BenchmarkAssumption ==
  /\ {N, RunsPerCall, WarmUps, SampleCount} \subseteq Nat \ {0}
  /\ OperateDelay <= 0
  /\ WarmUps * RunsPerCall >= SlowCalls

VARIABLES
  program,       \* "prot" or "meas"
  pc,            \* where main is
  i,             \* the index of the case in the loop main is in
  calls, runs,   \* the calls made in that loop, the steps made in this call
  work,          \* the outcomes of the steps this call has made
  timers,        \* the cases whose entry of timers[] is not NULL
  failed,        \* history: the cases for which a call failed
  heap, deltas, csv,           \* as in PerfTimer
  frame,                       \* g_measurement_frame
  dtlTime, idmtProgress, dirTime, distTime, diffTime,   \* the elements' states
  output,                      \* what the last step returned
  buffers, out_frame           \* g_meas_ctx, and the frame of that program

mainVars    == <<pc, i, calls, runs, work, timers, failed>>
timerVars   == <<heap, deltas, csv>>
stateVars   == <<dtlTime, idmtProgress, dirTime, distTime, diffTime, output>>
measureVars == <<buffers, out_frame>>
vars == <<program, mainVars, timerVars, frame, stateVars, measureVars>>

ProtCases == <<"oc50", "oc51_dtl", "oc51_idmt", "dir67", "dist21", "diff87">>
MeasCases == <<"meas_sv">>
Case == {ProtCases[j] : j \in DOMAIN ProtCases} \cup {MeasCases[j] : j \in DOMAIN MeasCases}
Benchmarks == IF program = "prot" THEN ProtCases ELSE MeasCases
Current == Benchmarks[i]

Timer == INSTANCE PerfTimer WITH Owner <- Case, Capacity <- SampleCount
-----------------------------------------------------------------------------
(* The cases: the settings and the frame that every init_fn writes. *)

LinePhase == Phase \ {"N"}
Pickup == [p \in Phase |-> IF p = "N" THEN 50 ELSE 100]
LineOnly(x) == [p \in Phase |-> IF p = "N" THEN 0 ELSE x]
Everywhere(x) == [p \in Phase |-> x]
Real(x) == [real |-> x, imag |-> 0]

Inst50 == INSTANCE Oc50 WITH Enabled <- Phase, PickupCurrent <- Pickup
Dtl == INSTANCE Oc51Dtl WITH
  Enabled <- Phase, PickupCurrent <- Pickup, accumulated_time <- dtlTime
Idmt == INSTANCE Oc51Idmt WITH
  Enabled <- Phase, PickupCurrent <- Pickup, progress <- idmtProgress
Dir == INSTANCE Dir67 WITH
  Enabled <- LinePhase, PickupCurrent <- LineOnly(100),
  Mode <- "forward", TorqueAngle <- 0, AngleTolerance <- 20,
  MinimumPolarizingVoltage <- 10, accumulated_time <- dirTime
Dist == INSTANCE Dist21 WITH
  Enabled <- LinePhase, ReachOhms <- LineOnly(10),
  Mode <- "forward", LineAngle <- 0, AngleTolerance <- 20,
  MinimumVoltageMagnitude <- 10, MinimumCurrentMagnitude <- 1,
  accumulated_time <- distTime
Diff == INSTANCE Diff87 WITH
  Enabled <- LinePhase, MinimumTerminalCurrent <- 1,
  MinimumRestraintCurrent <- 5, PickupOperateCurrent <- 10,
  BiasSlopeTenths <- 3, AngleTolerance <- 30, accumulated_time <- diffTime

\* All angles are 0 in every case.
Reading(current, voltage, local, remote) ==
  [current_magnitude |-> current, current_angle |-> Everywhere(0),
   voltage_magnitude |-> voltage, voltage_angle |-> Everywhere(0),
   local_current  |-> Everywhere(Real(local)),
   remote_current |-> Everywhere(Real(remote))]
OneAndAHalf(pickup) == [p \in Phase |-> (3 * pickup[p]) \div 2]

FrameFor(c) ==
  CASE c = "dir67"  -> Reading(OneAndAHalf(LineOnly(100)), Everywhere(100), 0, 0)
    [] c = "dist21" -> Reading(Everywhere(2), Everywhere(10), 0, 0)
    [] c = "diff87" -> Reading(LineOnly(25), Everywhere(0), 25, 5)
    [] OTHER        -> Reading(OneAndAHalf(Pickup), Everywhere(0), 0, 0)

\* The payload of the measurement benchmark: Ia of 100 A, Va of 10 V.
SvSample == [p \in Phase |-> IF p = "N" THEN 50 ELSE 100]
Sv == INSTANCE MeasSv WITH Sample <- {0, 10, 50, 100}, Zero <- 0
Payload == [ch \in Sv!Channel |->
              IF ch[1] = "current" THEN SvSample[ch[2]] ELSE LineOnly(10)[ch[2]]]

\* What the numbers of the cases ask of the other constants: phasors on the real
\* axis have their length and no angle; and the curve is defined at the currents
\* of the overcurrent cases.
ASSUME CaseAssumption ==
  /\ Phase # {}
  /\ \A x \in {5, 20, 25} : Magnitude[Real(x)] = x /\ Angle[Real(x)] = 0
  /\ \A pickup \in {50, 100} :
       LET time == CurveTime[pickup][(3 * pickup) \div 2]
       IN  time \in Nat \ {0} /\ Clamped(time) \in Duration

Init ==
  /\ program \in {"prot", "meas"}
  /\ pc = "lock" /\ i = 1 /\ calls = 0 /\ runs = 0 /\ work = {}
  /\ timers = {} /\ failed = {}
  /\ Timer!Init
  /\ frame = Reading(Everywhere(0), Everywhere(0), 0, 0)
  /\ Dtl!Init /\ Idmt!Init /\ Dir!Init /\ Dist!Init /\ Diff!Init
  /\ Sv!Init
-----------------------------------------------------------------------------
(* main *)

\* mlockall, or exit(EXIT_FAILURE).
LockMemory ==
  /\ pc = "lock"
  /\ \/ pc' = "init"
     \/ "mlockall" \in Failing /\ pc' = "failure"
  /\ UNCHANGED <<program, i, calls, runs, work, timers, failed,
                 timerVars, frame, stateVars, measureVars>>

Zeroed(c, state) == IF Current = c THEN Everywhere(0) ELSE state

\* b->init_fn() of the protection benchmarks.
InitElement ==
  /\ pc = "init" /\ program = "prot"
  /\ frame' = FrameFor(Current)
  /\ dtlTime' = Zeroed("oc51_dtl", dtlTime)
  /\ idmtProgress' = Zeroed("oc51_idmt", idmtProgress)
  /\ dirTime' = Zeroed("dir67", dirTime)
  /\ distTime' = Zeroed("dist21", distTime)
  /\ diffTime' = Zeroed("diff87", diffTime)
  /\ pc' = "create"
  /\ UNCHANGED <<program, i, calls, runs, work, timers, failed,
                 timerVars, output, measureVars>>

\* A slip: one sample too few.
PrefilledShort == N - 2

\* "79 samples to immediately allow a DFT computation on the next sample".
Prefilled == N - 1

\* initialize_meas_benchmark, up to the loop that fills the rings.
InitMeasurement ==
  /\ pc = "init" /\ program = "meas"
  /\ buffers' = [ch \in Sv!Channel |-> Sv!EmptyRing]
  /\ out_frame' = [ch \in Sv!Channel |-> <<>>]
  /\ runs' = 0 /\ pc' = "fill"
  /\ UNCHANGED <<program, i, calls, work, timers, failed,
                 timerVars, frame, stateVars>>

\* One turn of that loop.
FillRings ==
  /\ pc = "fill"
  /\ IF runs < Prefilled
     THEN Sv!ProcessSample(Payload) /\ runs' = runs + 1 /\ pc' = "fill"
     ELSE runs' = 0 /\ pc' = "create" /\ UNCHANGED measureVars
  /\ UNCHANGED <<program, i, calls, work, timers, failed,
                 timerVars, frame, stateVars>>

\* A slip: a case that fails is tried again.
SameCase == i

\* ++i, also after `continue'.
NextCase == i + 1

\* The loop of main goes on to its next case, or ends.
GoOn ==
  IF i < Len(Benchmarks) THEN i' = NextCase /\ pc' = "init"
  ELSE i' = 1 /\ pc' = "report"

\* perf_timer_create: without a timer the case is left out.
CreateTimer(got) ==
  /\ pc = "create"
  /\ Timer!Create(Current, got)
  /\ IF got = Timer!Block THEN pc' = "warm_up" /\ UNCHANGED <<i, failed>>
     ELSE GoOn /\ failed' = failed \cup {Current}
  /\ UNCHANGED <<program, calls, runs, work, timers, frame, stateVars, measureVars>>

\* One step of the function of the current case.
RunStep ==
  \/ /\ Current = "oc50" /\ Inst50!Step(frame)
     /\ UNCHANGED <<dtlTime, idmtProgress, dirTime, distTime, diffTime, measureVars>>
  \/ /\ Current = "oc51_dtl" /\ Dtl!Step(frame)
     /\ UNCHANGED <<idmtProgress, dirTime, distTime, diffTime, measureVars>>
  \/ /\ Current = "oc51_idmt" /\ Idmt!Step(frame)
     /\ UNCHANGED <<dtlTime, dirTime, distTime, diffTime, measureVars>>
  \/ /\ Current = "dir67" /\ Dir!Step(frame)
     /\ UNCHANGED <<dtlTime, idmtProgress, distTime, diffTime, measureVars>>
  \/ /\ Current = "dist21" /\ Dist!Step(frame)
     /\ UNCHANGED <<dtlTime, idmtProgress, dirTime, diffTime, measureVars>>
  \/ /\ Current = "diff87" /\ Diff!Step(frame)
     /\ UNCHANGED <<dtlTime, idmtProgress, dirTime, distTime, measureVars>>
  \/ /\ Current = "meas_sv" /\ Sv!ProcessSample(Payload)
     /\ UNCHANGED stateVars

\* What tells the paths through a step apart: the masks it returns, or how
\* many samples its estimates are from.
Outcome == IF program = "prot" THEN output ELSE {Len(out_frame[ch]) : ch \in Sv!Channel}
WorkAfter == work \cup {Outcome'}

\* A step that is not the last of its call.
StepWithinCall ==
  /\ runs + 1 < RunsPerCall
  /\ RunStep
  /\ runs' = runs + 1 /\ work' = WorkAfter
  /\ UNCHANGED <<pc, i, calls, timers, timerVars>>

\* The last step, with which the call returns.
StepReturns ==
  /\ runs + 1 = RunsPerCall
  /\ RunStep
  /\ runs' = 0 /\ work' = {}

\* A slip: the warm-up goes through the timer as well.
TimedWarmUp == Timer!Measure(Current, WorkAfter)

\* The warm-up calls the function itself.
PlainWarmUp == UNCHANGED timerVars

WarmUp ==
  /\ pc = "warm_up" /\ UNCHANGED <<program, failed, frame>>
  /\ \/ StepWithinCall
     \/ /\ StepReturns
        /\ PlainWarmUp
        /\ IF calls + 1 < WarmUps THEN calls' = calls + 1 /\ pc' = pc
           ELSE calls' = 0 /\ pc' = "measure"
        /\ UNCHANGED <<i, timers>>

\* perf_timer_measure has returned for the last time or is called again.
MeasureAgain ==
  IF calls + 1 < SampleCount
  THEN calls' = calls + 1 /\ UNCHANGED <<pc, i, timers>>
  ELSE calls' = 0 /\ timers' = timers \cup {Current} /\ GoOn

Measure ==
  /\ pc = "measure" /\ UNCHANGED <<program, failed, frame>>
  /\ IF runs = 0 /\ Timer!Declines(Current)
     THEN MeasureAgain /\ UNCHANGED <<runs, work, timerVars, stateVars, measureVars>>
     ELSE \/ StepWithinCall
          \/ /\ StepReturns
             /\ Timer!Measure(Current, WorkAfter)
             /\ MeasureAgain

\* The last loop of main: one case is reported, or passed over.
Report ==
  /\ pc = "report"
  /\ IF Current \in timers
     THEN /\ Timer!SaveAndFree(Current)
          /\ failed' = IF csv' = csv THEN failed \cup {Current} ELSE failed
     ELSE UNCHANGED <<timerVars, failed>>
  /\ IF i < Len(Benchmarks) THEN i' = i + 1 /\ pc' = pc
     ELSE i' = 1 /\ pc' = "exit"
  /\ UNCHANGED <<program, calls, runs, work, timers, frame, stateVars, measureVars>>

Next ==
  \/ LockMemory \/ InitElement \/ InitMeasurement \/ FillRings
  \/ \E got \in SUBSET Timer!Block : CreateTimer(got)
  \/ WarmUp \/ Measure \/ Report

Spec == Init /\ [][Next]_vars

\* The program runs on its own and is given the processor.
FairSpec == Spec /\ WF_vars(Next)
-----------------------------------------------------------------------------
(* What makes the numbers of a benchmark comparable. *)

Watched(c) == IF c \in {"oc50", "oc51_dtl", "oc51_idmt"} THEN Phase ELSE LinePhase

\* What a step of case c is meant to do while it is measured: start and trip
\* every watched phase, or estimate every channel from a whole cycle.
SteadyOutcome(c) ==
  IF c = "meas_sv" THEN {N}
  ELSE [start |-> Watched(c), trip |-> Watched(c), block |-> {}]

\* The type invariant of main and of the timers.
TypeOK ==
  /\ pc \in {"lock", "init", "fill", "create", "warm_up", "measure", "report",
             "exit", "failure"}
  /\ i \in DOMAIN Benchmarks
  /\ calls \in Nat /\ runs \in Nat
  /\ timers \subseteq Case /\ failed \subseteq Case
  /\ heap \subseteq Case \X Timer!Block
  /\ \A c \in Case : Len(deltas[c]) <= SampleCount

\* Every sample has timed the same work, the path the case is set up for: no
\* state carried over from a case, a warm-up or an earlier sample shows in it.
SamplesComparable ==
  \A c \in Case : \A j \in DOMAIN deltas[c] : deltas[c][j] = {SteadyOutcome(c)}

\* Even the first unmeasured step of the measurement benchmark computes a DFT.
DftFromFirstStep == program = "meas" => work \subseteq {{N}}

\* When the program exits, a case for which no call failed has a file with
\* all its samples, and a failed one has no file and costs no other case its own.
EveryCaseReported ==
  pc = "exit" =>
    \A j \in DOMAIN Benchmarks :
      LET c == Benchmarks[j] IN
        IF c \in failed THEN csv[c] = Timer!NoFile
        ELSE csv[c] = deltas[c] /\ Len(csv[c]) = SampleCount

\* The cases that own a timer: those measured and not yet reported, and the one
\* being measured.
Owners ==
  {Benchmarks[j] : j \in {j \in DOMAIN Benchmarks :
                            /\ Benchmarks[j] \in timers
                            /\ pc = "report" => j >= i
                            /\ pc # "exit"}}
  \cup (IF pc \in {"warm_up", "measure"} THEN {Current} ELSE {})

\* The memory in use is that of the timers in use, however creation fails:
\* nothing is leaked, and no timer is used after it was freed.
HeapIsTimers == heap = UNION {Timer!BlocksOf(c) : c \in Owners}

\* main ends, whatever fails.
Exits == <>(pc \in {"exit", "failure"})
=============================================================================

-------------------------- MODULE ReplierPipeline --------------------------
(***************************************************************************)
(* What hot_replier does with the payload of a frame: the measurement      *)
(* layer turns it into a measurement frame, which goes to every element    *)
(* with a fixed dt.  The payloads are those of hot_sender, or samples of a *)
(* current and a voltage in phase, taken N times per cycle from a grid     *)
(* that may get a fault; any of them may be lost on the way.               *)
(***************************************************************************)
EXTENDS Protection, Sequences, FiniteSetsExt

CONSTANTS
  N,                    \* MEAS_SAMPLES_PER_CYCLE
  dft_cos, dft_sin,     \* the basis, as sequences of N whole numbers
  Ramp,                 \* the period of the sender's delta, 10 in the code
  Residue,              \* what rounding leaves of a phasor that cancels out
  GridState,            \* "load", "fault"
  Amplitude,            \* the peak current in a grid state, in amperes
  GridVoltage,          \* the peak voltage
  Horizon,              \* bound: send periods
  MaxLost,              \* bound: frames lost
  MaxChange             \* bound: changes of the grid's state

\* The delay is no shorter than the window, and the ramp fits the window.
ASSUME PipelineAssumption ==
  /\ N \in Nat \ {0} /\ Ramp \in Nat \ {0} /\ N % Ramp = 0
  /\ OperateCalls >= N /\ SlowCalls >= N
  /\ dft_cos \in [1 .. N -> Int] /\ dft_sin \in [1 .. N -> Int]
  /\ {"load", "fault"} \subseteq GridState /\ Amplitude \in [GridState -> Nat]

VARIABLES
  buffers, out_frame,   \* as in MeasSv
  source,               \* "sender" or "grid"
  grid,                 \* the grid's state
  now,                  \* the next send period
  lost, changes,        \* the bounds' counters
  since,                \* history: phase -> the period in which 51 DTL started
  lostSince,            \* history: phase -> the frames lost since then
  steady                \* history: the frames received in a row, none lost,
                        \* since the fault began

streamVars  == <<source, grid, now, lost, changes>>
historyVars == <<since, lostSince, steady>>
pipelineVars == <<vars, buffers, out_frame, streamVars, historyVars>>

Sv == INSTANCE MeasSv WITH Sample <- Int, Zero <- 0
Current(p) == <<"current", p>>
Voltage(p) == <<"voltage", p>>
-----------------------------------------------------------------------------
(* Payloads: the local samples, and the remote current. *)

\* hot_sender: a small ramp on a constant, in steps of 2 A to keep the
\* estimates whole.
Delta(iteration) == 2 * (iteration % Ramp)
SenderPayload(iteration) ==
  [local  |-> [c \in Sv!Channel |->
                 IF c[1] = "voltage" THEN 10
                 ELSE (IF c[2] = "N" THEN 50 ELSE 100 + Delta(iteration))],
   remote |-> [p \in Phase |-> 80 + Delta(iteration) \div 2]]

\* A grid fed from here: the load current leaves at the remote end, the fault
\* current does not get there.
GridPayload(time, state) ==
  LET phase == dft_cos[(time % N) + 1] IN
  [local  |-> [c \in Sv!Channel |->
                 (IF c[1] = "voltage" THEN GridVoltage ELSE Amplitude[state]) * phase],
   remote |-> [p \in Phase |-> IF state = "load" THEN Amplitude[state] ELSE 0]]

PayloadAt(time, state) ==
  IF source = "sender" THEN SenderPayload(time) ELSE GridPayload(time, state)
-----------------------------------------------------------------------------
(* From the samples of a channel to its entries in the measurement frame. *)

ComplexSum(window) ==
  [real |-> (2 * MapThenSumSet(LAMBDA k : window[k] * dft_cos[k], 1 .. N)) \div N,
   imag |-> -((2 * MapThenSumSet(LAMBDA k : window[k] * dft_sin[k], 1 .. N)) \div N)]

\* compute_phasor_from_buffer on a full ring; where the sums cancel, rounding
\* decides on a phasor next to nothing.
Phasor(window, residue) ==
  LET z == ComplexSum(window) IN IF z = [real |-> 0, imag |-> 0] THEN residue ELSE z

\* A slip: a ring that never counts as full.
OverFull(samples) == Len(samples) > N

\* buf->count has reached MEAS_SAMPLES_PER_CYCLE.
Full(samples) == Len(samples) = N

\* hypotf and atan2f of the phasor; before the ring is full, the newest sample
\* as it is, at angle 0.
MagnitudeOf(samples, residue) ==
  IF Full(samples) THEN Magnitude[Phasor(samples, residue)] ELSE samples[1]
AngleOf(samples, residue) ==
  IF Full(samples) THEN Angle[Phasor(samples, residue)] ELSE 0

\* meas_sv_process_sample, parts 3 to 5, given what part 2 estimates from.
FrameOf(samples, remote, residue) ==
  [current_magnitude |-> [p \in Phase |-> MagnitudeOf(samples[Current(p)], residue)],
   current_angle     |-> [p \in Phase |-> AngleOf(samples[Current(p)], residue)],
   voltage_magnitude |-> [p \in Phase |-> MagnitudeOf(samples[Voltage(p)], residue)],
   voltage_angle     |-> [p \in Phase |-> AngleOf(samples[Voltage(p)], residue)],
   local_current     |-> [p \in Phase |->
                            IF Full(samples[Current(p)])
                            THEN Phasor(samples[Current(p)], residue)
                            ELSE [real |-> samples[Current(p)][1], imag |-> 0]],
   remote_current    |-> [p \in Phase |-> [real |-> remote[p], imag |-> 0]]]

\* What the sender may have put in a channel, and the window of a channel that
\* a fault has filled since period t.
SenderSamples(c) == {SenderPayload(iteration).local[c] : iteration \in 0 .. Ramp - 1}
FaultWindow(c, t) == [k \in 1 .. N |-> GridPayload(t + (k - 1), "fault").local[c]]

\* The DFT leaves of the sender's ramp less than a pickup, and so close to the
\* pickup the curve is no shorter than its upper clamp.
ASSUME SenderAssumption ==
  /\ \A c \in Sv!Channel : \A window \in [1 .. N -> SenderSamples(c)], residue \in Residue :
       Magnitude[Phasor(window, residue)] \in
         0 .. (IF c[1] = "voltage" THEN 10 ELSE OvercurrentPickup[c[2]]) - 1
  /\ \A p \in Phase : \A x \in SenderSamples(Current(p)) :
       LET time == CurveTime[OvercurrentPickup[p]][x]
       IN  time \in Nat /\ (time > 0 => time >= MaxTime)

\* A fault is beyond the pickup, forward and in reach, wherever in the cycle its
\* window starts.
ASSUME FaultAssumption ==
  \A t \in 0 .. N - 1, residue \in Residue, p \in LinePhase :
    LET current == Phasor(FaultWindow(Current(p), t), residue)
        voltage == Phasor(FaultWindow(Voltage(p), t), residue)
    IN  /\ {Magnitude[current], Magnitude[voltage]} \subseteq Nat
        /\ Magnitude[current] >= 100
        /\ Magnitude[voltage] >= 10 /\ Magnitude[voltage] <= 10 * Magnitude[current]
        /\ AngleBetween(NormalizeAngle(Angle[current] - Angle[voltage]), 0) <= 20
        /\ AngleBetween(NormalizeAngle(Angle[voltage] - Angle[current]), 0) <= 20

\* What a channel may carry in a grid, before its first sample included; and
\* the window of a channel s periods after a fault began in period t, with
\* `before' the window then.
GridSamples(c) == {GridPayload(t, state).local[c] : t \in 0 .. N - 1, state \in GridState} \cup {0}
ArrivalWindow(c, t, s, before) ==
  [k \in 1 .. N |-> IF k > N - s THEN GridPayload(t + (s + k - 1 - N), "fault").local[c]
                   ELSE before[k + s]]

\* 87 then restrains phase p, of whose ring m samples were taken when the fault began.
Restrains(p, t, s, m, before) ==
  \A residue \in Residue :
    ~Diff!InOperateRegion(
       IF m + s >= N THEN Phasor(ArrivalWindow(Current(p), t, s, before), residue)
       ELSE [real |-> GridPayload(t + (s - 1), "fault").local[Current(p)], imag |-> 0],
       [real |-> 0, imag |-> 0])

\* In any N calls of a fault 87 is restrained once, while the fault enters the
\* window and in the cycle after, whatever the window held before.
ASSUME DifferentialAssumption ==
  \A p \in LinePhase, t \in 0 .. N - 1, m \in 0 .. N, n \in N .. 2 * N - 1 :
    \A before \in [2 .. N -> GridSamples(Current(p))] :
      \E s \in (n - N) + 1 .. n : Restrains(p, t, s, m, before)
-----------------------------------------------------------------------------
PipelineInit ==
  /\ Init
  /\ Sv!Init
  /\ source \in {"sender", "grid"}
  /\ grid = "load"
  /\ now = 0 /\ lost = 0 /\ changes = 0
  /\ since = [p \in Phase |-> 0]
  /\ lostSince = [p \in Phase |-> 0]
  /\ steady = 0

\* The grid between two samples.
GridMoves ==
  \/ grid' = grid /\ changes' = changes
  \/ /\ source = "grid" /\ changes < MaxChange
     /\ grid' \in GridState \ {grid} /\ changes' = changes + 1

\* process_packet on the frame of this period: measurement, then protection,
\* which is told the same dt whatever came before.
ProcessPacket(payload) ==
  /\ Sv!ProcessSample(payload.local)
  /\ \E residue \in Residue :
       \E frame \in {FrameOf(out_frame', payload.remote, residue)} : DispatchAll(frame)

Deliver ==
  /\ now < Horizon /\ now' = now + 1
  /\ GridMoves
  /\ ProcessPacket(PayloadAt(now, grid'))
  /\ since' = [p \in Phase |-> IF p \in dtlOut.start THEN since[p] ELSE now]
  /\ lostSince' = [p \in Phase |-> IF p \in dtlOut.start THEN lostSince[p] ELSE 0]
  /\ steady' = IF source = "grid" /\ grid' = "fault" THEN steady + 1 ELSE 0
  /\ UNCHANGED <<source, lost>>

\* The frame of this period does not arrive; the replier learns nothing of it.
Lose ==
  /\ now < Horizon /\ now' = now + 1
  /\ GridMoves
  /\ lost < MaxLost /\ lost' = lost + 1
  /\ lostSince' = [p \in Phase |-> lostSince[p] + 1]
  /\ steady' = 0
  /\ UNCHANGED <<vars, buffers, out_frame, source, since>>

PipelineNext == Deliver \/ Lose

PipelineSpec == PipelineInit /\ [][PipelineNext]_pipelineVars
-----------------------------------------------------------------------------
\* The 51 DTL of a replier that loses frames: with `since' the period of the
\* frame it started in, it trips when the periods passed, less the frames lost
\* in between, make up its delay.  It is never early, and late by what was lost.
TripTimeAccountsForLoss ==
  \A p \in dtlOut.start :
    p \in dtlOut.trip <=> now - since[p] - lostSince[p] >= OperateCalls

\* A fault that fills the window and then lasts the delay trips 51 DTL, 67 and
\* 21: the direction and the impedance they look at do not depend on where in
\* the cycle the window starts.
SteadyFaultTrips ==
  steady >= N + OperateCalls - 1 =>
    LinePhase \subseteq dtlOut.trip \cap dirOut.trip \cap distOut.trip

\* The same fault, with no current at the remote end, does not trip 87: the
\* local phasor turns as the window moves while the remote one is given angle
\* 0, and they are not in line for as long as the delay.
DifferentialNeverSettles == steady >= N => diffOut.trip = {}

\* On hot_sender's payloads the overcurrent and the distance elements start in
\* the first N - 1 frames only, when the constant they see is taken for a
\* magnitude; the DFT removes it, and no delayed element of them ever trips.
SenderTrafficIsQuiet ==
  source = "sender" =>
    /\ (dtlOut.trip \cup idmtOut.trip \cup dirOut.trip \cup distOut.trip) = {}
    /\ (\A p \in Phase : Full(out_frame[Current(p)])) =>
         (out50.start \cup dtlOut.start \cup idmtOut.start
            \cup dirOut.start \cup distOut.start) = {}
=============================================================================

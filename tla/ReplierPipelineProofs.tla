----------------------- MODULE ReplierPipelineProofs -----------------------
(***************************************************************************)
(* Proofs about the replier's pipeline, for every cycle length, delay,     *)
(* basis of the DFT and pattern of lost frames.                            *)
(***************************************************************************)
EXTENDS ReplierPipeline, ProtectionProofs

\* A frame that arrives is one call of every element.
LEMMA DeliverDispatches ==
  ASSUME Deliver
  PROVE  \E residue \in Residue :
           DispatchAll(FrameOf(out_frame', PayloadAt(now, grid').remote, residue))
BY DEF Deliver, ProcessPacket

\* The timers after a call, for any frame.
LEMMA TimersAfter ==
  ASSUME TimersOK, NEW frame, DispatchAll(frame), NEW p \in Phase
  PROVE  /\ dtlTime'[p] = Dtl!NextTimer(frame, p)
         /\ dirTime'[p] = Dir!NextTimer(Dir!Started(frame), p)
         /\ distTime'[p] = Dist!NextTimer(Dist!Started(frame), p)
         /\ dtlTime'[p] \in Time /\ dirTime'[p] \in Time /\ distTime'[p] \in Time
BY TimersStep
   DEF TimersOK, Timers, DispatchAll, Dtl!Step, Dir!Step, Dir!Run, Dist!Step, Dist!Run

\* The delay is some calls, and so some time.
LEMMA SomeDelay ==
  /\ N \in Nat \ {0} /\ OperateCalls \in Nat /\ OperateCalls >= N
  /\ OperateDelay \in Int /\ OperateDelay > 0 /\ CallsIn[0] = 0
<1>1. N \in Nat \ {0} /\ OperateCalls \in Nat /\ OperateCalls >= N
  BY PipelineAssumption, DelayAssumption
<1>2. 0 \in Time /\ CallsIn[0] = 0 /\ OperateDelay \in Int
  BY TimerAssumption, DelayAssumption
<1>3. 0 >= OperateDelay <=> CallsIn[0] = OperateCalls
  BY <1>2, DelayAssumption
<1>4. QED
  BY <1>1, <1>2, <1>3

-----------------------------------------------------------------------------
(* The trip time of a replier that loses frames *)

\* The frames phase p has been started for: the periods since then, less the
\* frames lost in them.
Heard(p) == now - since[p] - lostSince[p]

\* The timer of 51 DTL counts exactly those frames, up to its delay.
HeardInv ==
  /\ TimersOK /\ now \in Nat
  /\ since \in [Phase -> Nat] /\ lostSince \in [Phase -> Nat]
  /\ dtlOut.start \subseteq Phase
  /\ \A p \in Phase :
       IF p \in dtlOut.start
       THEN /\ Heard(p) >= 1
            /\ CallsIn[dtlTime[p]] = (IF Heard(p) >= OperateCalls THEN OperateCalls ELSE Heard(p))
            /\ p \in dtlOut.trip <=> dtlTime[p] >= OperateDelay
       ELSE dtlTime[p] = 0

\* A frame that arrives is counted, one that is lost is not.
LEMMA HeardStep ==
  ASSUME HeardInv, PipelineNext
  PROVE  HeardInv'
<1> USE SomeDelay
<1>1. CASE Lose
  <2>1. /\ UNCHANGED <<dtlTime, dtlOut, dirTime, distTime, diffTime, since>>
        /\ now' = now + 1 /\ lostSince' = [p \in Phase |-> lostSince[p] + 1]
    BY <1>1 DEF Lose, vars, elementVars
  <2>2. \A p \in Phase : Heard(p)' = Heard(p)
    BY <2>1 DEF HeardInv, Heard
  <2>3. lostSince' \in [Phase -> Nat] /\ now' \in Nat
    BY <2>1 DEF HeardInv
  <2>4. QED
    BY <2>1, <2>2, <2>3 DEF HeardInv, TimersOK
<1>2. CASE Deliver
  <2>1. PICK frame : DispatchAll(frame)
    BY <1>2, DeliverDispatches
  <2>2. /\ now' = now + 1 /\ now \in Nat
        /\ since' = [p \in Phase |-> IF p \in dtlOut.start THEN since[p] ELSE now]
        /\ lostSince' = [p \in Phase |-> IF p \in dtlOut.start THEN lostSince[p] ELSE 0]
    BY <1>2 DEF Deliver, HeardInv
  <2>3. dtlOut'.start = Dtl!Started(frame) /\ Dtl!Started(frame) \subseteq Phase
    BY <2>1 DEF DispatchAll, Dtl!Step, Dtl!Started
  <2>4. since' \in [Phase -> Nat] /\ lostSince' \in [Phase -> Nat] /\ now' \in Nat
    BY <2>2 DEF HeardInv
  <2>5. TimersOK'
    BY <2>1, TimersStep DEF HeardInv
  <2>6. ASSUME NEW p \in Phase, p \notin dtlOut'.start
        PROVE  dtlTime'[p] = 0
    BY <2>1, <2>3, <2>6, TimersAfter DEF HeardInv, Dtl!NextTimer
  <2>7. ASSUME NEW p \in Phase, p \in dtlOut'.start
        PROVE  /\ Heard(p)' >= 1
               /\ CallsIn[dtlTime'[p]] =
                    (IF Heard(p)' >= OperateCalls THEN OperateCalls ELSE Heard(p)')
               /\ p \in dtlOut'.trip <=> dtlTime'[p] >= OperateDelay
    <3>1. dtlTime'[p] = AddDt[dtlTime[p]] /\ dtlTime[p] \in Time
      BY <2>1, <2>3, <2>7, TimersAfter DEF HeardInv, Dtl!NextTimer, TimersOK, Timers
    <3>2. CallsIn[dtlTime'[p]] = IF CallsIn[dtlTime[p]] = OperateCalls THEN OperateCalls
                                 ELSE CallsIn[dtlTime[p]] + 1
      BY <3>1, DelayAssumption
    <3>3. /\ since'[p] = IF p \in dtlOut.start THEN since[p] ELSE now
          /\ lostSince'[p] = IF p \in dtlOut.start THEN lostSince[p] ELSE 0
          /\ since[p] \in Nat /\ lostSince[p] \in Nat
      BY <2>2 DEF HeardInv
    <3>4. Heard(p)' = IF p \in dtlOut.start THEN Heard(p) + 1 ELSE 1
      BY <2>2, <3>3 DEF Heard
    <3>5. p \in dtlOut'.trip <=> dtlTime'[p] >= OperateDelay
      <4>1. dtlOut'.trip = {q \in Dtl!Started(frame) : Dtl!NextTimer(frame, q) >= OperateDelay}
        BY <2>1 DEF DispatchAll, Dtl!Step
      <4>2. dtlTime'[p] = Dtl!NextTimer(frame, p)
        BY <2>1, TimersAfter DEF HeardInv
      <4>3. QED
        BY <2>3, <2>7, <4>1, <4>2
    <3>6. CASE p \in dtlOut.start
      <4>1. /\ Heard(p) >= 1 /\ Heard(p) \in Int
            /\ CallsIn[dtlTime[p]] = IF Heard(p) >= OperateCalls THEN OperateCalls ELSE Heard(p)
        BY <2>2, <3>3, <3>6 DEF HeardInv, Heard
      <4>2. QED
        BY <3>2, <3>4, <3>5, <3>6, <4>1
    <3>7. CASE p \notin dtlOut.start
      <4>1. CallsIn[dtlTime[p]] = 0
        BY <3>7 DEF HeardInv
      <4>2. QED
        BY <3>2, <3>4, <3>5, <3>7, <4>1
    <3>8. QED
      BY <3>6, <3>7
  <2>8. QED
    BY <2>3, <2>4, <2>5, <2>6, <2>7 DEF HeardInv
<1>3. QED
  BY <1>1, <1>2 DEF PipelineNext

\* process_packet gives every frame the same dt, so that 51 DTL is never early
\* and is late by exactly the frames that were lost since it started.
THEOREM TripTimeIsFramesHeard == PipelineSpec => []TripTimeAccountsForLoss
<1>1. PipelineInit => HeardInv
  <2>1. ASSUME PipelineInit PROVE HeardInv
    <3>1. /\ Init /\ now = 0 /\ since = [p \in Phase |-> 0]
          /\ lostSince = [p \in Phase |-> 0]
      BY <2>1 DEF PipelineInit
    <3>2. TimersOK /\ dtlTime = [p \in Phase |-> 0] /\ dtlOut.start = {}
      BY <3>1, InitialState, TimerAssumption DEF TimersOK, Timers, NoOutput
    <3>3. QED
      BY <3>1, <3>2 DEF HeardInv
  <2>2. QED
    BY <2>1
<1>2. HeardInv /\ [PipelineNext]_pipelineVars => HeardInv'
  <2>1. ASSUME HeardInv, UNCHANGED pipelineVars PROVE HeardInv'
    BY <2>1 DEF HeardInv, Heard, TimersOK, pipelineVars, vars, elementVars,
                streamVars, historyVars
  <2>2. QED
    BY <2>1, HeardStep
<1>3. HeardInv => TripTimeAccountsForLoss
  <2>1. SUFFICES ASSUME HeardInv, NEW p \in dtlOut.start
                 PROVE  p \in dtlOut.trip <=> Heard(p) >= OperateCalls
    BY DEF TripTimeAccountsForLoss, Heard
  <2>2. /\ p \in Phase /\ dtlTime[p] \in Time
        /\ CallsIn[dtlTime[p]] = (IF Heard(p) >= OperateCalls THEN OperateCalls ELSE Heard(p))
        /\ p \in dtlOut.trip <=> dtlTime[p] >= OperateDelay
    BY <2>1 DEF HeardInv, TimersOK, Timers
  <2>3. dtlTime[p] >= OperateDelay <=> CallsIn[dtlTime[p]] = OperateCalls
    BY <2>2, DelayAssumption
  <2>4. Heard(p) \in Int /\ OperateCalls \in Nat
    BY <2>1, <2>2, SomeDelay DEF HeardInv, Heard
  <2>5. QED
    BY <2>2, <2>3, <2>4
<1>4. QED
  BY <1>1, <1>2, <1>3, PTL DEF PipelineSpec

-----------------------------------------------------------------------------
(* The rings, whatever the payloads *)

\* A ring is well formed, and one that is filling is written in order.
RingShape(buf) ==
  /\ DOMAIN buf.samples = 0 .. N - 1
  /\ buf.index \in 0 .. N - 1 /\ buf.count \in 0 .. N
  /\ buf.count < N => buf.index = buf.count

\* Within two turns of a ring, wrapping is one subtraction.
LEMMA WrapOnce ==
  ASSUME NEW a \in 0 .. 2 * N - 1
  PROVE  a % N = IF a < N THEN a ELSE a - N
<1>0. N \in Nat \ {0}
  BY SomeDelay
<1>1. CASE a < N
  BY <1>0, <1>1
<1>2. CASE a >= N
  <2>1. a = 1 * N + (a - N) /\ a - N \in 0 .. N - 1
    BY <1>0, <1>2
  <2>2. QED
    BY <1>0, <1>2, <2>1
<1>3. QED
  BY <1>0, <1>1, <1>2

\* What push_sample does to a ring.
LEMMA Push ==
  ASSUME NEW buf, RingShape(buf), NEW x
  PROVE  /\ RingShape(Sv!PushSample(buf, x))
         /\ \A s \in 0 .. N - 1 :
              Sv!PushSample(buf, x).samples[s] = IF s = buf.index THEN x ELSE buf.samples[s]
         /\ Sv!PushSample(buf, x).index = IF buf.index + 1 < N THEN buf.index + 1 ELSE 0
         /\ Sv!PushSample(buf, x).count = IF buf.count < N THEN buf.count + 1 ELSE N
<1> DEFINE new == Sv!PushSample(buf, x)
<1>0. N \in Nat \ {0}
  BY SomeDelay
<1>1. /\ DOMAIN buf.samples = 0 .. N - 1 /\ buf.index \in 0 .. N - 1
      /\ buf.count \in 0 .. N /\ (buf.count < N => buf.index = buf.count)
  BY DEF RingShape
<1>2. (buf.index + 1) % N = IF buf.index + 1 < N THEN buf.index + 1 ELSE 0
  <2>1. PICK next \in Nat : next = buf.index + 1 /\ next <= N
    BY <1>0, <1>1
  <2>2. next \in 0 .. 2 * N - 1
    BY <1>0, <2>1
  <2>3. next % N = IF next < N THEN next ELSE next - N
    BY <2>2, WrapOnce
  <2>4. QED
    BY <1>0, <2>1, <2>3
<1>3. /\ new.samples = [buf.samples EXCEPT ![buf.index] = x]
      /\ new.index = IF buf.index + 1 < N THEN buf.index + 1 ELSE 0
      /\ new.count = IF buf.count < N THEN buf.count + 1 ELSE N
  BY <1>0, <1>1, <1>2 DEF Sv!PushSample
<1> HIDE DEF new
<1>4. /\ DOMAIN new.samples = 0 .. N - 1
      /\ \A s \in 0 .. N - 1 : new.samples[s] = IF s = buf.index THEN x ELSE buf.samples[s]
  BY <1>1, <1>3
<1>5. RingShape(new)
  BY <1>0, <1>1, <1>3, <1>4 DEF RingShape
<1>6. QED
  BY <1>3, <1>4, <1>5 DEF new

\* All channels are pushed together.
RingsShape ==
  /\ \A c \in Sv!Channel : RingShape(buffers[c])
  /\ \A c, d \in Sv!Channel : buffers[c].count = buffers[d].count

\* What a payload does to the ring and to the estimate of a channel.
LEMMA ChannelStep ==
  ASSUME RingsShape, NEW x, Sv!ProcessSample(x), NEW c \in Sv!Channel
  PROVE  /\ buffers'[c] = Sv!PushSample(buffers[c], x[c])
         /\ out_frame'[c] = IF buffers'[c].count = N THEN Sv!PhasorFrom(buffers'[c]) ELSE <<x[c]>>
<1>1. buffers'[c] = Sv!PushSample(buffers[c], x[c])
  BY DEF Sv!ProcessSample
<1>2. buffers'[c].count \in 0 .. N
  BY <1>1, Push DEF RingsShape, RingShape
<1>3. buffers'[c].count >= N <=> buffers'[c].count = N
  BY <1>2, SomeDelay
<1>4. QED
  BY <1>1, <1>3 DEF Sv!ProcessSample

\* A payload keeps the rings in shape.
LEMMA RingsStep ==
  ASSUME RingsShape, NEW x, Sv!ProcessSample(x)
  PROVE  RingsShape'
<1>1. ASSUME NEW c \in Sv!Channel
      PROVE  /\ RingShape(buffers'[c])
             /\ buffers'[c].count = IF buffers[c].count < N THEN buffers[c].count + 1 ELSE N
  <2>1. RingShape(buffers[c])
    BY DEF RingsShape
  <2>2. buffers'[c] = Sv!PushSample(buffers[c], x[c])
    BY ChannelStep
  <2>3. QED
    BY <2>1, <2>2, Push
<1>2. \A c, d \in Sv!Channel : buffers'[c].count = buffers'[d].count
  BY <1>1 DEF RingsShape
<1>3. QED
  BY <1>1, <1>2 DEF RingsShape, RingShape

-----------------------------------------------------------------------------
(* The sender's payloads: the calls of the elements *)

\* No timer has run, and no progress was made, for more than n calls.
AtMost(n) ==
  /\ \A p \in Phase : CallsIn[dtlTime[p]] <= n /\ idmtProgress[p] <= Slowest[n]
  /\ \A p \in LinePhase : CallsIn[dirTime[p]] <= n /\ CallsIn[distTime[p]] <= n

\* An estimate below every pickup.
Below(frame) ==
  \A p \in Phase : /\ frame.current_magnitude[p] \in 0 .. OvercurrentPickup[p] - 1
                  /\ frame.voltage_magnitude[p] \in 0 .. 9

\* No delayed element of those that look at the current has tripped.
NoDelayedTrip == (dtlOut.trip \cup idmtOut.trip \cup dirOut.trip \cup distOut.trip) = {}
NoStart == (out50.start \cup dtlOut.start \cup idmtOut.start
              \cup dirOut.start \cup distOut.start) = {}

\* An estimate below the pickups starts nothing, and resets all.
LEMMA BelowResets ==
  ASSUME TimersOK, NEW frame, DispatchAll(frame), Below(frame)
  PROVE  NoDelayedTrip' /\ NoStart' /\ AtMost(0)' /\ idmtProgress' \in [Phase -> Progress]
<1>1. ASSUME NEW p \in Phase
      PROVE  /\ ~(frame.current_magnitude[p] >= OvercurrentPickup[p])
             /\ ~(frame.voltage_magnitude[p] >= 10)
  BY DEF Below, OvercurrentPickup
<1>2. LinePhase \subseteq Phase /\ \A p \in LinePhase : LineOnly(100)[p] = OvercurrentPickup[p]
  BY DEF LinePhase, LineOnly, OvercurrentPickup
<1>3. /\ Inst50!Started(frame) = {} /\ Dtl!Started(frame) = {} /\ Idmt!Started(frame) = {}
      /\ Dir!Started(frame) = {} /\ Dist!Started(frame) = {}
  BY <1>1, <1>2 DEF Inst50!Started, Dtl!Started, Idmt!Started, Dir!Started, Dist!Started,
                    Dist!InReach
<1>4. Idmt!Advancing(frame) = {}
  BY <1>3 DEF Idmt!Advancing
<1>5. /\ out50'.start = {} /\ dtlOut'.start = {} /\ dtlOut'.trip = {}
      /\ idmtOut'.start = {} /\ idmtOut'.trip = {}
      /\ idmtProgress' = [p \in Phase |-> 0]
  BY <1>3, <1>4 DEF DispatchAll, Inst50!Step, Dtl!Step, Idmt!Step
<1>6. /\ dirOut'.start = {} /\ dirOut'.trip = {}
      /\ distOut'.start = {} /\ distOut'.trip = {}
  BY <1>3 DEF DispatchAll, Dir!Step, Dir!Run, Dir!TimedTrip, Dist!Step, Dist!Run, Dist!TimedTrip
<1>7. \A p \in Phase : dtlTime'[p] = 0
  BY <1>3 DEF DispatchAll, Dtl!Step, Dtl!NextTimer
<1>8. \A p \in LinePhase : dirTime'[p] = 0 /\ distTime'[p] = 0
  BY <1>2, <1>3 DEF DispatchAll, Dir!Step, Dir!Run, Dir!NextTimer,
                    Dist!Step, Dist!Run, Dist!NextTimer
<1>9. Slowest[0] = 0 /\ 0 \in Progress
  BY SlowestAssumption, ShareAssumption DEF SteadyRun
<1>10. AtMost(0)'
  BY <1>5, <1>7, <1>8, <1>9, SomeDelay DEF AtMost
<1>11. QED
  BY <1>5, <1>6, <1>9, <1>10 DEF NoDelayedTrip, NoStart

\* The upper clamp is not reached within a window.
LEMMA SlowestInWindow ==
  ASSUME NEW n \in Nat, n + 1 < N
  PROVE  /\ Slowest[n] \in Progress /\ Slowest[n + 1] \in Progress
         /\ Slowest[n] <= Slowest[n + 1] /\ Slowest[n + 1] < One
         /\ Slowest[n + 1] = AddShare[Slowest[n]][MaxTime]
<1>1. /\ SlowCalls \in Nat /\ N \in Nat /\ N <= SlowCalls
  BY PipelineAssumption, SlowestAssumption
<1>2. /\ n \in 0 .. SlowCalls /\ n + 1 \in 0 .. SlowCalls /\ n + 1 < SlowCalls
      /\ n + 1 \in 1 .. SlowCalls /\ n + 2 \in 1 .. SlowCalls
      /\ (n + 1) - 1 = n /\ (n + 2) - 1 = n + 1
  BY <1>1
<1>3. /\ Slowest[n] \in Progress /\ Slowest[n + 1] \in Progress
      /\ Slowest[(n + 1) - 1] < One /\ Slowest[(n + 2) - 1] < One
      /\ Slowest[n + 1] = AddShare[Slowest[(n + 1) - 1]][MaxTime]
  BY <1>2, SlowestAssumption DEF SteadyRun
<1>4. Slowest[n] <= AddShare[Slowest[n]][MaxTime]
  BY <1>3, CurveAssumption, ShareAssumption
<1>5. QED
  BY <1>2, <1>3, <1>4

\* A definite-time timer after one more call.
LEMMA OneMoreCall ==
  ASSUME NEW t \in Time, NEW n \in Nat, CallsIn[t] <= n, n + 1 < N
  PROVE  /\ AddDt[t] \in Time /\ CallsIn[0] <= n + 1 /\ CallsIn[AddDt[t]] <= n + 1
         /\ ~(AddDt[t] >= OperateDelay) /\ ~(0 >= OperateDelay)
<1>1. AddDt[t] \in Time /\ 0 \in Time
  BY TimerAssumption
<1>2. /\ CallsIn[AddDt[t]] = IF CallsIn[t] = OperateCalls THEN OperateCalls ELSE CallsIn[t] + 1
      /\ AddDt[t] >= OperateDelay <=> CallsIn[AddDt[t]] = OperateCalls
      /\ CallsIn[t] \in Nat
  BY <1>1, DelayAssumption
<1>3. QED
  BY <1>1, <1>2, SomeDelay

\* While the constants of the sender are taken for magnitudes the elements may
\* run, but no further than the frames received.
LEMMA FillingRuns ==
  ASSUME TimersOK, idmtProgress \in [Phase -> Progress], NEW n \in Nat, n + 1 < N, AtMost(n),
         NEW frame, DispatchAll(frame),
         \A p \in Phase : frame.current_magnitude[p] \in SenderSamples(Current(p))
  PROVE  NoDelayedTrip' /\ AtMost(n + 1)' /\ idmtProgress' \in [Phase -> Progress]
<1>0. /\ N \in Nat \ {0} /\ MaxTime \in Nat /\ MaxTime \in Duration /\ One \in Nat \ {0}
      /\ LinePhase \subseteq Phase
  BY PipelineAssumption, CurveAssumption, ShareAssumption DEF LinePhase
<1>1. ASSUME NEW p \in Phase
      PROVE  /\ CallsIn[dtlTime'[p]] <= n + 1
             /\ p \notin dtlOut'.trip
  <2>1. dtlTime[p] \in Time /\ CallsIn[dtlTime[p]] <= n
    BY DEF TimersOK, Timers, AtMost
  <2>2. dtlTime'[p] = Dtl!NextTimer(frame, p)
    BY TimersAfter
  <2>3. dtlOut'.trip = {q \in Dtl!Started(frame) : Dtl!NextTimer(frame, q) >= OperateDelay}
    BY DEF DispatchAll, Dtl!Step
  <2>4. Dtl!NextTimer(frame, p) \in {AddDt[dtlTime[p]], 0}
    BY DEF Dtl!NextTimer
  <2>5. QED
    BY <2>1, <2>2, <2>3, <2>4, OneMoreCall
<1>2. ASSUME NEW p \in LinePhase
      PROVE  /\ CallsIn[dirTime'[p]] <= n + 1
             /\ p \notin dirOut'.trip
  <2>1. p \in Phase /\ dirTime[p] \in Time /\ CallsIn[dirTime[p]] <= n
    BY <1>0 DEF TimersOK, Timers, AtMost
  <2>2. dirTime'[p] = Dir!NextTimer(Dir!Started(frame), p)
    BY <2>1, TimersAfter
  <2>3. dirOut'.trip = Dir!TimedTrip(Dir!Started(frame))
    BY DEF DispatchAll, Dir!Step, Dir!Run
  <2>4. Dir!NextTimer(Dir!Started(frame), p) \in {AddDt[dirTime[p]], 0}
    BY SomeDelay DEF Dir!NextTimer
  <2>5. p \in dirOut'.trip => Dir!NextTimer(Dir!Started(frame), p) >= OperateDelay
    BY <2>3, SomeDelay DEF Dir!TimedTrip
  <2>6. QED
    BY <2>1, <2>2, <2>4, <2>5, OneMoreCall
<1>3. ASSUME NEW p \in LinePhase
      PROVE  /\ CallsIn[distTime'[p]] <= n + 1
             /\ p \notin distOut'.trip
  <2>1. p \in Phase /\ distTime[p] \in Time /\ CallsIn[distTime[p]] <= n
    BY <1>0 DEF TimersOK, Timers, AtMost
  <2>2. distTime'[p] = Dist!NextTimer(Dist!Started(frame), p)
    BY <2>1, TimersAfter
  <2>3. distOut'.trip = Dist!TimedTrip(Dist!Started(frame))
    BY DEF DispatchAll, Dist!Step, Dist!Run
  <2>4. Dist!NextTimer(Dist!Started(frame), p) \in {AddDt[distTime[p]], 0}
    BY SomeDelay DEF Dist!NextTimer
  <2>5. p \in distOut'.trip => Dist!NextTimer(Dist!Started(frame), p) >= OperateDelay
    BY <2>3, SomeDelay DEF Dist!TimedTrip
  <2>6. QED
    BY <2>1, <2>2, <2>4, <2>5, OneMoreCall
<1>4. ASSUME NEW p \in Phase
      PROVE  /\ idmtProgress'[p] \in Progress
             /\ idmtProgress'[p] <= Slowest[n + 1]
             /\ p \notin idmtOut'.trip
  <2>1. /\ Slowest[n] \in Progress /\ Slowest[n] \in Nat
        /\ Slowest[n + 1] \in Progress /\ Slowest[n + 1] \in Nat
        /\ Slowest[n] <= Slowest[n + 1] /\ Slowest[n + 1] < One
        /\ Slowest[n + 1] = AddShare[Slowest[n]][MaxTime]
    <3>1. Progress \subseteq Nat
      BY ShareAssumption
    <3>2. QED
      BY <3>1, SlowestInWindow
  <2>2. 0 \in Progress
    BY ShareAssumption
  <2>3. /\ idmtProgress[p] \in Progress /\ idmtProgress[p] \in Nat
        /\ idmtProgress[p] <= Slowest[n]
    <3>1. idmtProgress[p] \in Progress /\ idmtProgress[p] <= Slowest[n]
      BY DEF AtMost
    <3>2. \A x \in Progress : x \in Nat
      BY ShareAssumption
    <3>3. QED
      BY <3>1, <3>2
  <2>4. idmtProgress'[p] = IF p \in Idmt!Advancing(frame)
                           THEN Idmt!Latched(Idmt!Advanced(frame, p))
                           ELSE IF p \in Phase \ Idmt!Started(frame) THEN 0 ELSE idmtProgress[p]
    BY DEF DispatchAll, Idmt!Step
  <2>5. idmtOut'.trip = {q \in Idmt!Advancing(frame) : Idmt!Advanced(frame, q) >= One}
    BY DEF DispatchAll, Idmt!Step
  <2>6. CASE p \in Idmt!Advancing(frame)
    <3>1. /\ CurveTime[OvercurrentPickup[p]][frame.current_magnitude[p]] # 0
          /\ CurveTime[OvercurrentPickup[p]][frame.current_magnitude[p]] \in Nat
          /\ CurveTime[OvercurrentPickup[p]][frame.current_magnitude[p]] >= MaxTime
      <4>1. CurveTime[OvercurrentPickup[p]][frame.current_magnitude[p]] # 0
        BY <2>6 DEF Idmt!Advancing, Idmt!Degenerate
      <4>2. frame.current_magnitude[p] \in SenderSamples(Current(p))
        OBVIOUS
      <4>3. QED
        BY <4>1, <4>2, SenderAssumption
    <3>2. Idmt!OperateTime(frame, p) = MaxTime
      BY <1>0, <3>1, CurveAssumption DEF Idmt!OperateTime, Idmt!Clamped
    <3>3. Idmt!Advanced(frame, p) = AddShare[idmtProgress[p]][MaxTime]
      BY <3>2 DEF Idmt!Advanced
    <3>4. /\ AddShare[idmtProgress[p]][MaxTime] \in Nat
          /\ AddShare[idmtProgress[p]][MaxTime] <= AddShare[Slowest[n]][MaxTime]
          /\ AddShare[idmtProgress[p]][MaxTime] < One =>
               AddShare[idmtProgress[p]][MaxTime] \in Progress
      BY <1>0, <2>1, <2>3, ShareAssumption
    <3>5. Idmt!Advanced(frame, p) \in Progress /\ ~(Idmt!Advanced(frame, p) >= One)
      BY <1>0, <2>1, <3>3, <3>4
    <3>6. idmtProgress'[p] = Idmt!Advanced(frame, p)
      BY <2>4, <2>6, <3>5 DEF Idmt!Latched
    <3>7. QED
      BY <2>1, <2>5, <3>3, <3>4, <3>5, <3>6
  <2>7. CASE p \notin Idmt!Advancing(frame)
    <3>1. idmtProgress'[p] \in {0, idmtProgress[p]}
      BY <2>4, <2>7
    <3>2. QED
      BY <2>1, <2>2, <2>3, <2>5, <2>7, <3>1
  <2>8. QED
    BY <2>6, <2>7
<1>5. /\ dtlOut'.trip \subseteq Phase /\ idmtOut'.trip \subseteq Phase
      /\ dirOut'.trip \subseteq LinePhase /\ distOut'.trip \subseteq LinePhase
  BY DEF DispatchAll, Dtl!Step, Dtl!Started, Idmt!Step, Idmt!Advancing, Idmt!Started,
         Dir!Step, Dir!Run, Dir!TimedTrip, Dir!Started,
         Dist!Step, Dist!Run, Dist!TimedTrip, Dist!Started
<1>6. NoDelayedTrip'
  BY <1>1, <1>2, <1>3, <1>4, <1>5 DEF NoDelayedTrip
<1>7. AtMost(n + 1)'
  BY <1>1, <1>2, <1>3, <1>4 DEF AtMost
<1>8. idmtProgress' \in [Phase -> Progress]
  <2>1. \E f : idmtProgress' = [p \in Phase |-> f[p]]
    BY DEF DispatchAll, Idmt!Step
  <2>2. QED
    BY <1>4, <2>1
<1>9. QED
  BY <1>6, <1>7, <1>8

-----------------------------------------------------------------------------
(* The sender's payloads: the rings *)

\* Whatever a ring has been given is a sample of the sender.
QuietSamples(c, buf) ==
  \A s \in 0 .. N - 1 : buf.count = N \/ s < buf.count => buf.samples[s] \in SenderSamples(c)
QuietRing(c) == QuietSamples(c, buffers[c])

\* The sender repeats its ramp.
LEMMA SenderRepeats ==
  ASSUME NEW t \in Nat, NEW c \in Sv!Channel
  PROVE  SenderPayload(t).local[c] \in SenderSamples(c)
<1>1. Ramp \in Nat \ {0}
  BY PipelineAssumption
<1>2. t % Ramp \in 0 .. Ramp - 1 /\ (t % Ramp) % Ramp = t % Ramp
  BY <1>1
<1>3. Delta(t % Ramp) = Delta(t)
  BY <1>2 DEF Delta
<1>4. SenderPayload(t % Ramp).local[c] = SenderPayload(t).local[c]
  BY <1>3 DEF SenderPayload
<1>5. QED
  BY <1>2, <1>4 DEF SenderSamples

\* A sample of the sender goes into the ring.
LEMMA QuietPush ==
  ASSUME RingsShape, NEW x, Sv!ProcessSample(x), NEW c \in Sv!Channel,
         QuietRing(c), x[c] \in SenderSamples(c)
  PROVE  QuietRing(c)'
<1>1. RingShape(buffers[c]) /\ buffers'[c] = Sv!PushSample(buffers[c], x[c])
  BY ChannelStep DEF RingsShape
<1>2. /\ \A s \in 0 .. N - 1 :
           buffers'[c].samples[s] = IF s = buffers[c].index THEN x[c] ELSE buffers[c].samples[s]
      /\ buffers'[c].count = IF buffers[c].count < N THEN buffers[c].count + 1 ELSE N
  BY <1>1, Push
<1>3. /\ buffers[c].count \in 0 .. N /\ buffers[c].index \in 0 .. N - 1
      /\ (buffers[c].count < N => buffers[c].index = buffers[c].count)
  BY <1>1 DEF RingShape
<1>4. ASSUME NEW s \in 0 .. N - 1, buffers'[c].count = N \/ s < buffers'[c].count,
             s # buffers[c].index
      PROVE  buffers[c].samples[s] \in SenderSamples(c)
  <2>1. buffers[c].count = N \/ s < buffers[c].count
    BY <1>2, <1>3, <1>4, SomeDelay
  <2>2. QED
    BY <2>1 DEF QuietRing, QuietSamples
<1>5. QED
  BY <1>2, <1>4 DEF QuietRing, QuietSamples

\* A full ring of them is estimated below every pickup.
LEMMA QuietEstimate ==
  ASSUME NEW c \in Sv!Channel, NEW buf, RingShape(buf), QuietSamples(c, buf), buf.count = N,
         NEW residue \in Residue
  PROVE  MagnitudeOf(Sv!PhasorFrom(buf), residue)
           \in 0 .. (IF c[1] = "voltage" THEN 10 ELSE OvercurrentPickup[c[2]]) - 1
<1> DEFINE window == Sv!PhasorFrom(buf)
<1>0. N \in Nat \ {0}
  BY SomeDelay
<1>1. buf.index \in 0 .. N - 1
  BY DEF RingShape
<1>2. ASSUME NEW k \in 1 .. N
      PROVE  window[k] \in SenderSamples(c)
  <2>1. (buf.index + (k - 1)) % N \in 0 .. N - 1
    BY <1>0, <1>1
  <2>2. QED
    BY <2>1 DEF QuietSamples, Sv!PhasorFrom
<1>3. window \in [1 .. N -> SenderSamples(c)] /\ Len(window) = N
  BY <1>0, <1>2 DEF Sv!PhasorFrom
<1> HIDE DEF window
<1>4. MagnitudeOf(window, residue) = Magnitude[Phasor(window, residue)]
  BY <1>3 DEF MagnitudeOf, Full
<1>5. QED
  BY <1>3, <1>4, SenderAssumption DEF window

\* The calls the timers may have run, given the number of frames in the rings.
QuietInv ==
  /\ now \in Nat /\ TimersOK /\ RingsShape
  /\ source = "sender" =>
       /\ idmtProgress \in [Phase -> Progress]
       /\ \A c \in Sv!Channel :
            /\ QuietRing(c)
            /\ AtMost(IF buffers[c].count < N THEN buffers[c].count ELSE 0)
       /\ SenderTrafficIsQuiet

\* One more frame of the sender.
LEMMA QuietDelivery ==
  ASSUME QuietInv, source = "sender", Deliver
  PROVE  /\ idmtProgress' \in [Phase -> Progress]
         /\ \A c \in Sv!Channel :
              /\ QuietRing(c)'
              /\ AtMost(IF buffers[c].count < N THEN buffers[c].count ELSE 0)'
         /\ SenderTrafficIsQuiet'
<1> DEFINE x == SenderPayload(now).local
<1>0. N \in Nat \ {0}
  BY SomeDelay
<1>1. PICK residue \in Residue :
        DispatchAll(FrameOf(out_frame', PayloadAt(now, grid').remote, residue))
  BY DeliverDispatches
<1> DEFINE frame == FrameOf(out_frame', PayloadAt(now, grid').remote, residue)
<1>2. Sv!ProcessSample(x) /\ RingsShape /\ TimersOK /\ idmtProgress \in [Phase -> Progress]
  BY DEF Deliver, ProcessPacket, PayloadAt, QuietInv
<1>3. RingsShape'
  BY <1>2, RingsStep
<1>4. \A c \in Sv!Channel : x[c] \in SenderSamples(c) /\ QuietRing(c)'
  BY <1>2, SenderRepeats, QuietPush DEF QuietInv
<1>5. \A p \in Phase : Current(p) \in Sv!Channel /\ Voltage(p) \in Sv!Channel
  BY DEF Current, Voltage, Sv!Channel
<1>6. \A p \in Phase :
        /\ frame.current_magnitude[p] = MagnitudeOf(out_frame'[Current(p)], residue)
        /\ frame.voltage_magnitude[p] = MagnitudeOf(out_frame'[Voltage(p)], residue)
  BY DEF FrameOf
<1>7. DispatchAll(frame)
  BY <1>1
<1> HIDE DEF frame, x
<1>8. SUFFICES /\ idmtProgress' \in [Phase -> Progress] /\ NoDelayedTrip'
               /\ (\A p \in Phase : Full(out_frame'[Current(p)])) => NoStart'
               /\ \A c \in Sv!Channel :
                    AtMost(IF buffers[c].count < N THEN buffers[c].count ELSE 0)'
  BY <1>4 DEF SenderTrafficIsQuiet, NoDelayedTrip, NoStart
<1>9. CASE Phase = {}
  <2>1. Sv!Channel = {} /\ Below(frame)
    BY <1>9 DEF Sv!Channel, Below
  <2>2. QED
    BY <1>2, <1>7, <2>1, BelowResets
<1>10. CASE Phase # {}
  <2>1. PICK q \in Phase : TRUE
    BY <1>10
  <2>2. PICK n \in 0 .. N : n = buffers[Current(q)].count
    BY <1>2, <1>5 DEF RingsShape, RingShape
  <2>3. ASSUME NEW c \in Sv!Channel
        PROVE  /\ buffers[c].count = n
               /\ buffers'[c].count = IF n < N THEN n + 1 ELSE N
               /\ out_frame'[c] = IF buffers'[c].count = N THEN Sv!PhasorFrom(buffers'[c])
                                  ELSE <<x[c]>>
    <3>1. buffers[c].count = n /\ RingShape(buffers[c])
      BY <1>2, <1>5, <2>2 DEF RingsShape
    <3>2. buffers'[c] = Sv!PushSample(buffers[c], x[c])
      BY <1>2, ChannelStep
    <3>3. buffers'[c].count = IF n < N THEN n + 1 ELSE N
      BY <3>1, <3>2, Push
    <3>4. QED
      BY <1>2, <3>1, <3>3, ChannelStep
  <2>4. CASE n + 1 < N
    <3>1. ASSUME NEW c \in Sv!Channel
          PROVE  /\ out_frame'[c] = <<x[c]>> /\ ~Full(out_frame'[c])
                 /\ MagnitudeOf(out_frame'[c], residue) = x[c]
                 /\ buffers'[c].count = n + 1
      <4>1. buffers'[c].count = n + 1 /\ out_frame'[c] = <<x[c]>>
        <5>1. buffers'[c].count = IF n < N THEN n + 1 ELSE N
          BY <2>3
        <5>2. buffers'[c].count = n + 1 /\ n + 1 # N
          BY <1>0, <2>4, <5>1
        <5>3. QED
          BY <2>3, <5>2
      <4>2. Len(<<x[c]>>) = 1 /\ 1 # N
        BY <1>0, <2>4
      <4>3. QED
        BY <4>1, <4>2 DEF Full, MagnitudeOf
    <3>2. \A p \in Phase : frame.current_magnitude[p] \in SenderSamples(Current(p))
      BY <1>4, <1>5, <1>6, <3>1
    <3>3. AtMost(n)
      <4>1. buffers[Current(q)].count < N
        BY <1>0, <2>2, <2>4
      <4>2. QED
        BY <1>5, <2>2, <4>1 DEF QuietInv
    <3>4. NoDelayedTrip' /\ AtMost(n + 1)' /\ idmtProgress' \in [Phase -> Progress]
      BY <1>2, <1>7, <2>4, <3>2, <3>3, FillingRuns
    <3>5. \A c \in Sv!Channel :
            AtMost(IF buffers[c].count < N THEN buffers[c].count ELSE 0)'
      BY <2>4, <3>1, <3>4 DEF AtMost
    <3>6. ~Full(out_frame'[Current(q)])
      BY <1>5, <3>1
    <3>7. QED
      BY <3>4, <3>5, <3>6
  <2>5. CASE ~(n + 1 < N)
    <3>1. ASSUME NEW c \in Sv!Channel
          PROVE  buffers'[c].count = N /\ out_frame'[c] = Sv!PhasorFrom(buffers'[c])
      <4>1. buffers'[c].count = IF n < N THEN n + 1 ELSE N
        BY <2>3
      <4>2. buffers'[c].count = N
        BY <1>0, <2>5, <4>1
      <4>3. QED
        BY <2>3, <4>2
    <3>2. ASSUME NEW c \in Sv!Channel
          PROVE  MagnitudeOf(out_frame'[c], residue)
                   \in 0 .. (IF c[1] = "voltage" THEN 10 ELSE OvercurrentPickup[c[2]]) - 1
      <4>1. RingShape(buffers'[c])
        BY <1>3 DEF RingsShape, RingShape
      <4>2. QuietSamples(c, buffers'[c])
        BY <1>4 DEF QuietRing, QuietSamples
      <4>3. QED
        BY <3>1, <4>1, <4>2, QuietEstimate
    <3>3. Below(frame)
      <4>1. ASSUME NEW p \in Phase
            PROVE  /\ Current(p)[1] = "current" /\ Current(p)[2] = p
                   /\ Voltage(p)[1] = "voltage"
        BY DEF Current, Voltage
      <4>2. QED
        BY <1>5, <1>6, <3>2, <4>1 DEF Below
    <3>4. NoDelayedTrip' /\ NoStart' /\ AtMost(0)' /\ idmtProgress' \in [Phase -> Progress]
      BY <1>2, <1>7, <3>3, BelowResets
    <3>5. \A c \in Sv!Channel :
            AtMost(IF buffers[c].count < N THEN buffers[c].count ELSE 0)'
      BY <1>0, <3>1, <3>4 DEF AtMost
    <3>6. QED
      BY <3>4, <3>5
  <2>6. QED
    BY <2>4, <2>5
<1>11. QED
  BY <1>9, <1>10

\* The state after the init functions.
LEMMA PipelineStart ==
  ASSUME PipelineInit
  PROVE  /\ TimersOK /\ RingsShape /\ now = 0 /\ steady = 0
         /\ \A c \in Sv!Channel : buffers[c].count = 0
         /\ dtlTime = [p \in Phase |-> 0] /\ dirTime = [p \in Phase |-> 0]
         /\ distTime = [p \in Phase |-> 0] /\ idmtProgress = [p \in Phase |-> 0]
         /\ NoDelayedTrip /\ NoStart
<1>1. Init /\ Sv!Init /\ now = 0 /\ steady = 0
  BY DEF PipelineInit
<1>2. TimersOK
  BY <1>1, InitialState, TimerAssumption DEF TimersOK, Timers
<1>3. \A c \in Sv!Channel : buffers[c] = [samples |-> [s \in 0 .. N - 1 |-> 0], index |-> 0, count |-> 0]
  BY <1>1 DEF Sv!Init, Sv!EmptyRing, Sv!Slot
<1>4. RingsShape
  BY <1>3, SomeDelay DEF RingsShape, RingShape
<1>5. QED
  BY <1>1, <1>2, <1>3, <1>4, InitialState DEF NoDelayedTrip, NoStart, NoOutput

\* A step keeps the rings and the timers in shape.
LEMMA ShapeStep ==
  ASSUME TimersOK, RingsShape, now \in Nat, PipelineNext
  PROVE  TimersOK' /\ RingsShape' /\ now' \in Nat /\ now' = now + 1 /\ source' = source
<1>1. CASE Lose
  BY <1>1 DEF Lose, vars, elementVars, TimersOK, RingsShape, RingShape
<1>2. CASE Deliver
  <2>1. /\ \E frame : DispatchAll(frame)
        /\ Sv!ProcessSample(PayloadAt(now, grid').local)
    BY <1>2, DeliverDispatches DEF Deliver, ProcessPacket
  <2>2. TimersOK' /\ RingsShape'
    BY <2>1, TimersStep, RingsStep
  <2>3. QED
    BY <1>2, <2>2 DEF Deliver
<1>3. QED
  BY <1>1, <1>2 DEF PipelineNext

\* On hot_sender's payloads no delayed element of those that look at the local
\* samples ever trips, whatever is lost: the rings fill before a delay or the
\* upper clamp has passed, and then the DFT removes the constant.
THEOREM SenderTrafficStaysQuiet == PipelineSpec => []SenderTrafficIsQuiet
<1>1. PipelineInit => QuietInv
  <2>1. ASSUME PipelineInit PROVE QuietInv
    <3>1. /\ TimersOK /\ RingsShape /\ now = 0
          /\ \A c \in Sv!Channel : buffers[c].count = 0
          /\ dtlTime = [p \in Phase |-> 0] /\ dirTime = [p \in Phase |-> 0]
          /\ distTime = [p \in Phase |-> 0] /\ idmtProgress = [p \in Phase |-> 0]
          /\ NoDelayedTrip /\ NoStart
      BY <2>1, PipelineStart
    <3>2. Slowest[0] = 0 /\ 0 \in Progress
      BY SlowestAssumption, ShareAssumption DEF SteadyRun
    <3>3. AtMost(0)
      BY <3>1, <3>2, SomeDelay DEF AtMost, LinePhase
    <3>4. \A c \in Sv!Channel : QuietRing(c)
      BY <3>1, SomeDelay DEF QuietRing, QuietSamples
    <3>5. QED
      BY <3>1, <3>2, <3>3, <3>4, SomeDelay
         DEF QuietInv, SenderTrafficIsQuiet, NoDelayedTrip, NoStart
  <2>2. QED
    BY <2>1
<1>2. QuietInv /\ [PipelineNext]_pipelineVars => QuietInv'
  <2>1. ASSUME QuietInv, PipelineNext PROVE QuietInv'
    <3>1. TimersOK' /\ RingsShape' /\ now' \in Nat /\ source' = source
      BY <2>1, ShapeStep DEF QuietInv
    <3>2. CASE Deliver
      BY <2>1, <3>1, <3>2, QuietDelivery DEF QuietInv
    <3>3. CASE Lose
      BY <2>1, <3>1, <3>3
         DEF Lose, QuietInv, QuietRing, QuietSamples, AtMost, SenderTrafficIsQuiet,
             vars, elementVars
    <3>4. QED
      BY <2>1, <3>2, <3>3 DEF PipelineNext
  <2>2. ASSUME QuietInv, UNCHANGED pipelineVars PROVE QuietInv'
    BY <2>2 DEF QuietInv, QuietRing, QuietSamples, AtMost, SenderTrafficIsQuiet, TimersOK,
                RingsShape, RingShape, pipelineVars, vars, elementVars, streamVars, historyVars
  <2>3. QED
    BY <2>1, <2>2
<1>3. QuietInv => SenderTrafficIsQuiet
  BY DEF QuietInv, SenderTrafficIsQuiet
<1>4. QED
  BY <1>1, <1>2, <1>3, PTL DEF PipelineSpec

-----------------------------------------------------------------------------
(* A steady fault *)

\* Products are monotone.
LEMMA Product ==
  ASSUME NEW a \in Nat, NEW b \in Nat, NEW c \in Nat, NEW d \in Nat,
         a <= b, c <= d
  PROVE  a * c <= b * d
<1>1. a * c <= b * c
  <2>1. PICK e \in Nat : b = a + e
    <3>1. b - a \in Nat /\ b = a + (b - a)
      OBVIOUS
    <3>2. QED
      BY <3>1
  <2>2. b * c = a * c + e * c /\ e * c \in Nat
    BY <2>1
  <2>3. QED
    BY <2>2
<1>2. b * c <= b * d
  <2>1. PICK e \in Nat : d = c + e
    <3>1. d - c \in Nat /\ d = c + (d - c)
      OBVIOUS
    <3>2. QED
      BY <3>1
  <2>2. b * d = b * c + b * e /\ b * e \in Nat
    BY <2>1
  <2>3. QED
    BY <2>2
<1>3. QED
  BY <1>1, <1>2

\* A remainder is the only one.
LEMMA OneRemainder ==
  ASSUME NEW q \in Nat, NEW m \in Nat \ {0}, NEW r \in 0 .. m - 1
  PROVE  (q * m + r) % m = r
<1>1. PICK x \in Nat : x = q * m + r
  <2>1. q * m \in Nat
    OBVIOUS
  <2>2. QED
    BY <2>1
<1>2. PICK d \in Nat, e \in 0 .. m - 1 : x = d * m + e /\ e = x % m
  <2>1. x % m \in 0 .. m - 1 /\ x \div m \in Nat /\ x = (x \div m) * m + (x % m)
    BY <1>1
  <2>2. QED
    BY <2>1
<1>3. CASE q = d
  <2>1. PICK p \in Nat : p = q * m
    OBVIOUS
  <2>2. x = p + r /\ x = p + e
    BY <1>1, <1>2, <1>3, <2>1
  <2>3. r = e
    BY <2>2
  <2>4. QED
    BY <1>1, <1>2, <2>3
<1>4. CASE q < d
  <2>1. (q + 1) * m <= d * m
    BY <1>4, Product
  <2>2. (q + 1) * m = q * m + m /\ q * m \in Nat /\ d * m \in Nat
    OBVIOUS
  <2>3. QED
    BY <1>1, <1>2, <2>1, <2>2
<1>5. CASE q > d
  <2>1. (d + 1) * m <= q * m
    BY <1>5, Product
  <2>2. (d + 1) * m = d * m + m /\ q * m \in Nat /\ d * m \in Nat
    OBVIOUS
  <2>3. QED
    BY <1>1, <1>2, <2>1, <2>2
<1>6. QED
  BY <1>3, <1>4, <1>5

\* Where in the cycle a sample is depends on where its window starts.
LEMMA SameOffset ==
  ASSUME NEW m \in Nat \ {0}, NEW a \in Nat, NEW j \in Nat
  PROVE  (a + j) % m = ((a % m) + j) % m
<1>1. PICK d \in Nat, e \in 0 .. m - 1 : a = d * m + e /\ e = a % m
  <2>1. a % m \in 0 .. m - 1 /\ a \div m \in Nat /\ a = (a \div m) * m + (a % m)
    OBVIOUS
  <2>2. QED
    BY <2>1
<1>2. PICK y \in Nat : y = e + j
  BY <1>1
<1>3. PICK f \in Nat, g \in 0 .. m - 1 : y = f * m + g /\ g = y % m
  <2>1. y % m \in 0 .. m - 1 /\ y \div m \in Nat /\ y = (y \div m) * m + (y % m)
    BY <1>2
  <2>2. QED
    BY <2>1
<1>4. a + j = (d + f) * m + g
  <2>1. (d + f) * m = d * m + f * m /\ d * m \in Nat /\ f * m \in Nat
    BY <1>1, <1>3
  <2>2. QED
    BY <1>1, <1>2, <1>3, <2>1
<1>5. (a + j) % m = g
  <2>1. PICK both \in Nat : both = d + f
    OBVIOUS
  <2>2. (both * m + g) % m = g
    BY OneRemainder
  <2>3. QED
    BY <1>4, <2>1, <2>2
<1>6. QED
  BY <1>1, <1>2, <1>3, <1>5

\* A window slides: the newest sample comes last, the others move up.
LEMMA WindowSlides ==
  ASSUME NEW buf, RingShape(buf), NEW x
  PROVE  /\ Sv!PhasorFrom(Sv!PushSample(buf, x))[N] = x
         /\ \A k \in 1 .. N - 1 :
              Sv!PhasorFrom(Sv!PushSample(buf, x))[k] = Sv!PhasorFrom(buf)[k + 1]
<1> DEFINE new == Sv!PushSample(buf, x)
<1>0. N \in Nat \ {0} /\ buf.index \in 0 .. N - 1
  BY SomeDelay DEF RingShape
<1>1. /\ \A s \in 0 .. N - 1 : new.samples[s] = IF s = buf.index THEN x ELSE buf.samples[s]
      /\ new.index = IF buf.index + 1 < N THEN buf.index + 1 ELSE 0
  BY Push
<1> HIDE DEF new
<1>2. ASSUME NEW k \in 1 .. N
      PROVE  /\ Sv!PhasorFrom(buf)[k] = buf.samples[(buf.index + (k - 1)) % N]
             /\ Sv!PhasorFrom(new)[k] = new.samples[(new.index + (k - 1)) % N]
  BY DEF Sv!PhasorFrom
<1>3. ASSUME NEW k \in 1 .. N, NEW index \in 0 .. N - 1
      PROVE  (index + (k - 1)) % N = IF index + (k - 1) < N THEN index + (k - 1)
                                     ELSE index + (k - 1) - N
  <2>1. PICK a \in Int : a = index + (k - 1)
    OBVIOUS
  <2>2. a \in 0 .. 2 * N - 1
    BY <1>0, <2>1
  <2>3. a % N = IF a < N THEN a ELSE a - N
    BY <2>2, WrapOnce
  <2>4. QED
    BY <1>0, <2>1, <2>3
<1>4. new.index \in 0 .. N - 1
  BY <1>0, <1>1
<1>5. Sv!PhasorFrom(new)[N] = x
  <2>1. N \in 1 .. N
    BY <1>0
  <2>2. (new.index + (N - 1)) % N = buf.index
    BY <1>0, <1>1, <1>3, <1>4, <2>1
  <2>3. QED
    BY <1>0, <1>1, <1>2, <2>1, <2>2
<1>6. ASSUME NEW k \in 1 .. N - 1
      PROVE  Sv!PhasorFrom(new)[k] = Sv!PhasorFrom(buf)[k + 1]
  <2>1. k \in 1 .. N /\ k + 1 \in 1 .. N /\ (k + 1) - 1 = k
    BY <1>0
  <2>2. (new.index + (k - 1)) % N = IF new.index + (k - 1) < N THEN new.index + (k - 1)
                                    ELSE new.index + (k - 1) - N
    BY <1>3, <1>4, <2>1
  <2>3. (buf.index + k) % N = IF buf.index + k < N THEN buf.index + k
                              ELSE buf.index + k - N
    BY <1>0, <1>3, <2>1
  <2>4. /\ (new.index + (k - 1)) % N = (buf.index + k) % N
        /\ (buf.index + k) % N \in 0 .. N - 1 /\ (buf.index + k) % N # buf.index
    BY <1>0, <1>1, <2>2, <2>3
  <2>5. QED
    BY <1>1, <1>2, <2>1, <2>4
<1>7. QED
  BY <1>5, <1>6 DEF new

\* The last n samples of a ring are those of a fault in the periods before `time'.
FaultSamples(c, buf, time, n) ==
  \A k \in 1 .. N : k > N - n =>
    Sv!PhasorFrom(buf)[k] = GridPayload(time + k - 1 - N, "fault").local[c]

\* One more sample of the fault.
LEMMA OneMoreSample ==
  ASSUME NEW buf, RingShape(buf), NEW c \in Sv!Channel, NEW time \in Nat, NEW n \in Nat,
         FaultSamples(c, buf, time, n)
  PROVE  FaultSamples(c, Sv!PushSample(buf, GridPayload(time, "fault").local[c]), time + 1, n + 1)
<1> DEFINE x == GridPayload(time, "fault").local[c]
<1>0. N \in Nat \ {0}
  BY SomeDelay
<1>1. SUFFICES ASSUME NEW k \in 1 .. N, k > N - (n + 1)
               PROVE  Sv!PhasorFrom(Sv!PushSample(buf, x))[k] =
                        GridPayload(time + 1 + k - 1 - N, "fault").local[c]
  BY DEF FaultSamples
<1>2. CASE k = N
  <2>1. time + 1 + k - 1 - N = time
    BY <1>0, <1>2
  <2>2. QED
    BY <1>2, <2>1, WindowSlides
<1>3. CASE k # N
  <2>1. k \in 1 .. N - 1 /\ k + 1 \in 1 .. N /\ k + 1 > N - n
    BY <1>0, <1>1, <1>3
  <2>2. time + 1 + k - 1 - N = time + (k + 1) - 1 - N
    BY <1>0
  <2>3. Sv!PhasorFrom(buf)[k + 1] = GridPayload(time + (k + 1) - 1 - N, "fault").local[c]
    BY <2>1 DEF FaultSamples
  <2>4. QED
    BY <2>1, <2>2, <2>3, WindowSlides
<1>4. QED
  BY <1>2, <1>3

\* A fault that fills the ring, wherever in the cycle that is.
LEMMA FilledByFault ==
  ASSUME NEW buf, NEW c \in Sv!Channel, NEW time \in Nat, NEW n \in Nat, n >= N, time >= N,
         FaultSamples(c, buf, time, n)
  PROVE  Sv!PhasorFrom(buf) = FaultWindow(c, (time - N) % N)
<1>0. N \in Nat \ {0} /\ time - N \in Nat
  BY SomeDelay
<1>1. ASSUME NEW k \in 1 .. N
      PROVE  Sv!PhasorFrom(buf)[k] = GridPayload(((time - N) % N) + (k - 1), "fault").local[c]
  <2>1. PICK j \in Nat : j = k - 1
    BY <1>0
  <2>2. (((time - N) % N) + j) % N = ((time - N) + j) % N
    BY <1>0, SameOffset
  <2>3. GridPayload(((time - N) % N) + j, "fault").local[c] =
          GridPayload((time - N) + j, "fault").local[c]
    BY <2>2 DEF GridPayload
  <2>4. time + k - 1 - N = (time - N) + j /\ k > N - n
    BY <1>0, <2>1
  <2>5. QED
    BY <2>1, <2>3, <2>4 DEF FaultSamples
<1>2. QED
  BY <1>1 DEF Sv!PhasorFrom, FaultWindow

\* Such a window starts the three elements.
LEMMA FaultStarts ==
  ASSUME NEW t \in 0 .. N - 1, NEW residue \in Residue, NEW samples, NEW remote,
         NEW p \in LinePhase,
         samples[Current(p)] = FaultWindow(Current(p), t),
         samples[Voltage(p)] = FaultWindow(Voltage(p), t)
  PROVE  LET frame == FrameOf(samples, remote, residue) IN
         p \in Dtl!Started(frame) /\ p \in Dir!Started(frame) /\ p \in Dist!Started(frame)
<1> DEFINE frame == FrameOf(samples, remote, residue)
           current == Phasor(FaultWindow(Current(p), t), residue)
           voltage == Phasor(FaultWindow(Voltage(p), t), residue)
<1>0. p \in Phase /\ p # "N"
  BY DEF LinePhase
<1>1. \A c \in Sv!Channel : Len(FaultWindow(c, t)) = N
  BY SomeDelay DEF FaultWindow
<1>2. Current(p) \in Sv!Channel /\ Voltage(p) \in Sv!Channel
  BY <1>0 DEF Current, Voltage, Sv!Channel
<1>3. Full(samples[Current(p)]) /\ Full(samples[Voltage(p)])
  BY <1>1, <1>2 DEF Full
<1>4. /\ frame.current_magnitude[p] = Magnitude[current]
      /\ frame.current_angle[p] = Angle[current]
      /\ frame.voltage_magnitude[p] = Magnitude[voltage]
      /\ frame.voltage_angle[p] = Angle[voltage]
  BY <1>0, <1>3 DEF FrameOf, MagnitudeOf, AngleOf
<1>5. /\ Magnitude[current] \in Nat /\ Magnitude[voltage] \in Nat
      /\ Magnitude[current] >= 100
      /\ Magnitude[voltage] >= 10 /\ Magnitude[voltage] <= 10 * Magnitude[current]
      /\ AngleBetween(NormalizeAngle(Angle[current] - Angle[voltage]), 0) <= 20
      /\ AngleBetween(NormalizeAngle(Angle[voltage] - Angle[current]), 0) <= 20
  BY FaultAssumption
<1> HIDE DEF frame, current, voltage
<1>6. /\ \A a, b : Dir!AngleBetween(a, b) = AngleBetween(a, b)
      /\ \A a : Dir!NormalizeAngle(a) = NormalizeAngle(a)
      /\ \A a, b : Dist!AngleBetween(a, b) = AngleBetween(a, b)
      /\ \A a : Dist!NormalizeAngle(a) = NormalizeAngle(a)
      /\ NormalizeAngle(0) = 0
  BY DEF NormalizeAngle, AngleBetween, Dir!NormalizeAngle, Dir!AngleBetween,
         Dist!NormalizeAngle, Dist!AngleBetween
<1>7. /\ OvercurrentPickup[p] = 100 /\ LineOnly(100)[p] = 100 /\ LineOnly(10)[p] = 10
  BY <1>0 DEF OvercurrentPickup, LineOnly
<1>8. p \in Dtl!Started(frame)
  BY <1>0, <1>4, <1>5, <1>7 DEF Dtl!Started
<1>9. p \in Dir!Started(frame)
  <2>1. Dir!DirectionIsValid(frame, p)
    BY <1>4, <1>5, <1>6 DEF Dir!DirectionIsValid
  <2>2. QED
    BY <1>4, <1>5, <1>7, <2>1 DEF Dir!Started
<1>10. p \in Dist!Started(frame)
  <2>1. Dist!InReach(frame, p)
    BY <1>4, <1>5, <1>7 DEF Dist!InReach
  <2>2. Dist!DirectionIsValid(Dist!NormalizeAngle(frame.voltage_angle[p] - frame.current_angle[p]))
    BY <1>4, <1>5, <1>6 DEF Dist!DirectionIsValid
  <2>3. QED
    BY <2>1, <2>2 DEF Dist!Started
<1>11. QED
  BY <1>8, <1>9, <1>10 DEF frame

\* A timer that has run for every call since the fault first filled the window.
Ran(t) == CallsIn[t] = OperateCalls \/ CallsIn[t] >= steady - (N - 1)

\* The fault in the rings and in the timers.
FaultInv ==
  /\ now \in Nat /\ TimersOK /\ RingsShape /\ steady \in Nat /\ steady <= now
  /\ \A c \in Sv!Channel :
       /\ buffers[c].count = N \/ buffers[c].count >= steady
       /\ FaultSamples(c, buffers[c], now, steady)
  /\ steady >= N => \A p \in LinePhase : Ran(dtlTime[p]) /\ Ran(dirTime[p]) /\ Ran(distTime[p])
  /\ SteadyFaultTrips

\* A frame of the fault that arrives after another, or after the first.
LEMMA FaultDelivery ==
  ASSUME FaultInv, Deliver, steady' = steady + 1, source = "grid", grid' = "fault"
  PROVE  FaultInv'
<1>0. /\ N \in Nat \ {0} /\ OperateCalls \in Nat
      /\ now \in Nat /\ steady \in Nat /\ steady <= now /\ now' = now + 1
      /\ LinePhase \subseteq Phase
  BY SomeDelay DEF FaultInv, Deliver, LinePhase
<1>1. PICK residue \in Residue :
        DispatchAll(FrameOf(out_frame', PayloadAt(now, grid').remote, residue))
  BY DeliverDispatches
<1> DEFINE remote == PayloadAt(now, grid').remote
           frame == FrameOf(out_frame', remote, residue)
           x == GridPayload(now, "fault").local
<1>2. DispatchAll(frame) /\ Sv!ProcessSample(x) /\ RingsShape /\ TimersOK
  BY <1>1 DEF Deliver, ProcessPacket, PayloadAt, FaultInv
<1>3. TimersOK' /\ RingsShape'
  BY <1>2, TimersStep, RingsStep
<1> HIDE DEF remote, x
<1>4. ASSUME NEW c \in Sv!Channel
      PROVE  /\ RingShape(buffers'[c])
             /\ buffers'[c].count = N \/ buffers'[c].count >= steady'
             /\ FaultSamples(c, buffers'[c], now', steady')
  <2>1. RingShape(buffers[c]) /\ buffers'[c] = Sv!PushSample(buffers[c], x[c])
    BY <1>2, ChannelStep DEF RingsShape
  <2>2. /\ RingShape(buffers'[c])
        /\ buffers'[c].count = IF buffers[c].count < N THEN buffers[c].count + 1 ELSE N
    BY <2>1, Push
  <2>3. buffers[c].count \in 0 .. N /\ (buffers[c].count = N \/ buffers[c].count >= steady)
    BY <2>1 DEF FaultInv, RingShape
  <2>4. FaultSamples(c, buffers[c], now, steady)
    BY DEF FaultInv
  <2>5. FaultSamples(c, buffers'[c], now + 1, steady + 1)
    BY <1>0, <2>1, <2>4, OneMoreSample DEF x
  <2>6. QED
    BY <1>0, <2>2, <2>3, <2>5
<1>5. SUFFICES ASSUME steady' >= N
               PROVE  /\ \A p \in LinePhase : /\ Ran(dtlTime[p])' /\ Ran(dirTime[p])'
                                              /\ Ran(distTime[p])'
                      /\ SteadyFaultTrips'
  <2>1. \A c \in Sv!Channel : FaultSamples(c, buffers[c], now, steady)'
    BY <1>4 DEF FaultSamples
  <2>2. ~(steady' >= N) => SteadyFaultTrips'
    BY <1>0, SomeDelay DEF SteadyFaultTrips
  <2>3. QED
    BY <1>0, <1>3, <1>4, <1>5, <2>1, <2>2 DEF FaultInv
<1>6. PICK t \in 0 .. N - 1 : t = (now' - N) % N
  <2>1. now' - N \in Nat
    BY <1>0, <1>5
  <2>2. QED
    BY <1>0, <2>1
<1>7. ASSUME NEW c \in Sv!Channel
      PROVE  out_frame'[c] = FaultWindow(c, t)
  <2>1. buffers'[c].count = N
    BY <1>0, <1>4, <1>5 DEF RingShape
  <2>2. out_frame'[c] = Sv!PhasorFrom(buffers'[c])
    BY <1>2, <2>1, ChannelStep
  <2>3. now' \in Nat /\ steady' \in Nat /\ now' >= N
    BY <1>0, <1>5
  <2>4. QED
    BY <1>4, <1>5, <1>6, <2>2, <2>3, FilledByFault
<1>8. ASSUME NEW p \in LinePhase
      PROVE  p \in Dtl!Started(frame) /\ p \in Dir!Started(frame) /\ p \in Dist!Started(frame)
  <2>1. Current(p) \in Sv!Channel /\ Voltage(p) \in Sv!Channel
    BY <1>0 DEF Current, Voltage, Sv!Channel
  <2>2. QED
    BY <1>7, <2>1, FaultStarts
<1> HIDE DEF frame
<1>9. ASSUME NEW p \in LinePhase
      PROVE  /\ dtlTime[p] \in Time /\ dirTime[p] \in Time /\ distTime[p] \in Time
             /\ dtlTime'[p] = AddDt[dtlTime[p]] /\ dirTime'[p] = AddDt[dirTime[p]]
             /\ distTime'[p] = AddDt[distTime[p]]
             /\ steady >= N => Ran(dtlTime[p]) /\ Ran(dirTime[p]) /\ Ran(distTime[p])
  <2>1. dtlTime[p] \in Time /\ dirTime[p] \in Time /\ distTime[p] \in Time /\ p \in Phase
    BY <1>0, <1>2 DEF TimersOK, Timers
  <2>2. QED
    BY <1>2, <1>8, <2>1, TimersAfter, SomeDelay
       DEF Dtl!NextTimer, Dir!NextTimer, Dist!NextTimer, FaultInv
<1>10. ASSUME NEW u \in Time, steady >= N => Ran(u)
       PROVE  /\ CallsIn[AddDt[u]] = OperateCalls \/ CallsIn[AddDt[u]] >= steady' - (N - 1)
              /\ steady' >= N + OperateCalls - 1 => AddDt[u] >= OperateDelay
  <2>1. /\ CallsIn[AddDt[u]] = IF CallsIn[u] = OperateCalls THEN OperateCalls ELSE CallsIn[u] + 1
        /\ CallsIn[u] \in 0 .. OperateCalls /\ CallsIn[AddDt[u]] \in 0 .. OperateCalls
        /\ AddDt[u] >= OperateDelay <=> CallsIn[AddDt[u]] = OperateCalls
    BY DelayAssumption, TimerAssumption
  <2>2. CASE steady >= N
    <3>1. CallsIn[u] = OperateCalls \/ CallsIn[u] >= steady - (N - 1)
      BY <1>10, <2>2 DEF Ran
    <3>2. QED
      BY <1>0, <2>1, <3>1
  <2>3. CASE steady < N
    BY <1>0, <1>5, <2>1, <2>3
  <2>4. QED
    BY <1>0, <2>2, <2>3
<1>11. \A p \in LinePhase : Ran(dtlTime[p])' /\ Ran(dirTime[p])' /\ Ran(distTime[p])'
  BY <1>9, <1>10 DEF Ran
<1>12. SteadyFaultTrips'
  <2>1. SUFFICES ASSUME steady' >= N + OperateCalls - 1, NEW p \in LinePhase
                 PROVE  p \in dtlOut'.trip /\ p \in dirOut'.trip /\ p \in distOut'.trip
    BY DEF SteadyFaultTrips
  <2>2. /\ dtlTime'[p] >= OperateDelay /\ dirTime'[p] >= OperateDelay
        /\ distTime'[p] >= OperateDelay
    BY <1>9, <1>10, <2>1
  <2>3. /\ dtlTime'[p] = Dtl!NextTimer(frame, p)
        /\ dirTime'[p] = Dir!NextTimer(Dir!Started(frame), p)
        /\ distTime'[p] = Dist!NextTimer(Dist!Started(frame), p)
    BY <1>0, <1>2, TimersAfter
  <2>4. QED
    BY <1>2, <1>8, <2>2, <2>3
       DEF DispatchAll, Dtl!Step, Dir!Step, Dir!Run, Dir!TimedTrip, Dist!Step, Dist!Run,
           Dist!TimedTrip
<1>13. QED
  BY <1>11, <1>12

\* A frame that is lost, or not of the fault, starts the count again.
LEMMA FaultInterrupted ==
  ASSUME FaultInv, PipelineNext, steady' = 0
  PROVE  FaultInv'
<1>1. TimersOK' /\ RingsShape' /\ now' \in Nat
  BY ShapeStep DEF FaultInv
<1>2. \A c \in Sv!Channel : buffers'[c].count >= 0
  BY <1>1, SomeDelay DEF RingsShape, RingShape
<1>3. \A c \in Sv!Channel : FaultSamples(c, buffers[c], now, steady)'
  BY SomeDelay DEF FaultSamples
<1>4. ~(steady' >= N) /\ SteadyFaultTrips'
  BY SomeDelay DEF SteadyFaultTrips
<1>5. QED
  BY <1>1, <1>2, <1>3, <1>4 DEF FaultInv

\* The state before the first frame.
LEMMA FaultInit == PipelineInit => FaultInv
<1>1. ASSUME PipelineInit PROVE FaultInv
  <2>1. /\ TimersOK /\ RingsShape /\ now = 0 /\ steady = 0
        /\ \A c \in Sv!Channel : buffers[c].count = 0
    BY <1>1, PipelineStart
  <2>2. \A c \in Sv!Channel : FaultSamples(c, buffers[c], now, steady)
    BY <2>1, SomeDelay DEF FaultSamples
  <2>3. QED
    BY <2>1, <2>2, SomeDelay DEF FaultInv, SteadyFaultTrips
<1>2. QED
  BY <1>1

\* Every period keeps the invariant of the fault.
LEMMA FaultStep == FaultInv /\ [PipelineNext]_pipelineVars => FaultInv'
<1>1. ASSUME FaultInv, PipelineNext PROVE FaultInv'
  <2>1. \/ steady' = 0
        \/ Deliver /\ steady' = steady + 1 /\ source = "grid" /\ grid' = "fault"
    BY <1>1 DEF PipelineNext, Deliver, Lose
  <2>2. QED
    BY <1>1, <2>1, FaultDelivery, FaultInterrupted
<1>2. ASSUME FaultInv, UNCHANGED pipelineVars PROVE FaultInv'
  BY <1>2 DEF FaultInv, FaultSamples, Ran, SteadyFaultTrips, TimersOK, RingsShape, RingShape,
              pipelineVars, vars, elementVars, streamVars, historyVars
<1>3. QED
  BY <1>1, <1>2

\* A fault that fills the window and then lasts the delay, with no frame lost,
\* trips 51 DTL, 67 and 21 on every line phase, wherever in the cycle it began
\* and whatever the elements had seen before.
THEOREM SteadyFaultAlwaysTrips == PipelineSpec => []SteadyFaultTrips
<1>1. FaultInv => SteadyFaultTrips
  BY DEF FaultInv
<1>2. QED
  BY <1>1, FaultInit, FaultStep, PTL DEF PipelineSpec

-----------------------------------------------------------------------------
(* 87 in a fault *)

\* Where in the cycle a sample of the fault is, from where its first one was.
LEMMA PlaceOfSample ==
  ASSUME NEW a \in Nat, NEW j \in Nat, NEW c
  PROVE  GridPayload((a % N) + j, "fault").local[c] = GridPayload(a + j, "fault").local[c]
<1>1. (a + j) % N = ((a % N) + j) % N
  BY SameOffset, SomeDelay
<1>2. QED
  BY <1>1 DEF GridPayload

\* In any N calls of a fault, however long it lasts, 87 is restrained once: the
\* windows of a fault that fills them repeat.
LEMMA OnceInNCalls ==
  ASSUME NEW p \in LinePhase, NEW t \in 0 .. N - 1, NEW m \in 0 .. N, NEW n \in Nat, n >= N,
         NEW before \in [2 .. N -> GridSamples(Current(p))]
  PROVE  \E s \in (n - N) + 1 .. n : Restrains(p, t, s, m, before)
<1>0. N \in Nat \ {0}
  BY SomeDelay
<1>1. CASE n <= 2 * N - 1
  <2>1. n \in N .. 2 * N - 1
    BY <1>0, <1>1
  <2>2. QED
    BY <2>1, DifferentialAssumption, Zenon
<1>2. CASE n > 2 * N - 1
  <2>1. PICK d \in Nat : n = 2 * N - 1 + d
    <3>1. n - (2 * N - 1) \in Nat
      BY <1>0, <1>2
    <3>2. n = 2 * N - 1 + (n - (2 * N - 1))
      BY <1>0
    <3>3. QED
      BY <3>1, <3>2
  <2>2. PICK a \in Nat : a = t + d
    BY <1>0
  <2>3. PICK u \in 0 .. N - 1 : u = a % N
    BY <1>0
  <2>4. PICK s \in N .. 2 * N - 1 : Restrains(p, u, s, m, before)
    <3>1. 2 * N - 1 \in N .. 2 * N - 1 /\ (2 * N - 1 - N) + 1 = N
      BY <1>0
    <3>2. QED
      BY <3>1, DifferentialAssumption
  <2>5. PICK r \in Nat : r = s + d
    BY <1>0
  <2>6. r \in (n - N) + 1 .. n /\ m + s >= N /\ m + r >= N
    BY <1>0, <2>1, <2>5
  <2>7. ArrivalWindow(Current(p), t, r, before) = ArrivalWindow(Current(p), u, s, before)
    <3>1. ASSUME NEW k \in 1 .. N
          PROVE  GridPayload(t + (r + k - 1 - N), "fault").local[Current(p)] =
                   GridPayload(u + (s + k - 1 - N), "fault").local[Current(p)]
      <4>1. PICK j \in Nat : j = s + k - 1 - N
        BY <1>0
      <4>2. t + (r + k - 1 - N) = a + j
        BY <1>0, <2>2, <2>5, <4>1
      <4>3. QED
        BY <2>3, <4>1, <4>2, PlaceOfSample
    <3>2. \A k \in 1 .. N : k > N - r /\ k > N - s
      BY <1>0, <2>5
    <3>3. QED
      BY <3>1, <3>2 DEF ArrivalWindow
  <2>8. Restrains(p, t, r, m, before)
    BY <2>4, <2>6, <2>7 DEF Restrains
  <2>9. QED
    BY <2>6, <2>8
<1>3. QED
  BY <1>0, <1>1, <1>2

\* The cycle's place in which the present fault began.
FaultStart == (now - steady) % N

\* The fault has come into the ring of phase p, which then held m samples, in
\* order those of `before'.
Entering(p, m, before) ==
  /\ buffers[Current(p)].count = IF m + steady >= N THEN N ELSE m + steady
  /\ \A i \in 2 .. N : i > steady =>
       Sv!PhasorFrom(buffers[Current(p)])[i - steady] = before[i]

\* The timer of 87 counts calls of the fault in which it was not restrained, and
\* maybe earlier ones.
Unrestrained(p, m, before) ==
  \A s \in 1 .. steady :
    s > steady - CallsIn[diffTime[p]] => ~Restrains(p, FaultStart, s, m, before)

\* The rings of a grid hold samples of it, or none yet.
GridRing(c, buf) == \A k \in 1 .. N : Sv!PhasorFrom(buf)[k] \in GridSamples(c)

ArrivalInv ==
  /\ FaultInv /\ grid \in GridState
  /\ source = "grid" => \A c \in Sv!Channel : GridRing(c, buffers[c])
  /\ steady > 0 =>
       \A p \in LinePhase : \E m \in 0 .. N, before \in [2 .. N -> GridSamples(Current(p))] :
         Entering(p, m, before) /\ Unrestrained(p, m, before)
  /\ DifferentialNeverSettles

\* The timers of 87 after a call.
LEMMA DiffAfter ==
  ASSUME TimersOK, NEW frame, DispatchAll(frame), NEW p \in LinePhase
  PROVE  /\ diffTime'[p] = IF p \in Diff!Started(frame) THEN AddDt[diffTime[p]] ELSE 0
         /\ diffTime[p] \in Time /\ diffTime'[p] \in Time
         /\ p \in diffOut'.trip => diffTime'[p] >= OperateDelay
<1>1. p \in Phase /\ OperateDelay > 0
  BY SomeDelay DEF LinePhase
<1>2. TimersOK'
  BY TimersStep
<1>3. diffTime'[p] = Diff!NextTimer(Diff!Started(frame), p)
  BY <1>1 DEF DispatchAll, Diff!Step, Diff!Run
<1>4. p \in diffOut'.trip => Diff!NextTimer(Diff!Started(frame), p) >= OperateDelay
  BY <1>1 DEF DispatchAll, Diff!Step, Diff!Run, Diff!TimedTrip
<1>5. QED
  BY <1>1, <1>2, <1>3, <1>4 DEF TimersOK, Timers, Diff!NextTimer

\* A sample of the grid keeps a ring one of the grid.
LEMMA GridPush ==
  ASSUME NEW buf, RingShape(buf), NEW c \in Sv!Channel, GridRing(c, buf),
         NEW time \in Nat, NEW state \in GridState
  PROVE  GridRing(c, Sv!PushSample(buf, GridPayload(time, state).local[c]))
<1> DEFINE x == GridPayload(time, state).local[c]
<1>0. N \in Nat \ {0}
  BY SomeDelay
<1>1. x \in GridSamples(c)
  <2>1. PICK t \in 0 .. N - 1 : t = time % N
    BY <1>0
  <2>2. t % N = time % N
    <3>1. 0 * N + t = t
      BY <1>0
    <3>2. (0 * N + t) % N = t
      BY <1>0, OneRemainder
    <3>3. QED
      BY <2>1, <3>1, <3>2
  <2>3. GridPayload(t, state) = GridPayload(time, state)
    BY <2>2 DEF GridPayload
  <2>4. QED
    BY <2>3 DEF GridSamples
<1> HIDE DEF x
<1>2. SUFFICES ASSUME NEW k \in 1 .. N
               PROVE  Sv!PhasorFrom(Sv!PushSample(buf, x))[k] \in GridSamples(c)
  BY DEF GridRing, x
<1>3. CASE k = N
  BY <1>1, <1>3, WindowSlides
<1>4. CASE k # N
  <2>1. k \in 1 .. N - 1 /\ k + 1 \in 1 .. N
    BY <1>0, <1>4
  <2>2. QED
    BY <2>1, WindowSlides DEF GridRing
<1>5. QED
  BY <1>3, <1>4

\* What a frame of the fault does to the ring of a phase, and what 87 sees of it.
LEMMA FaultEnters ==
  ASSUME FaultInv, FaultInv', Deliver, source = "grid", grid' = "fault", steady' = steady + 1,
         NEW p \in LinePhase, NEW m \in 0 .. N, NEW before, Entering(p, m, before)
  PROVE  /\ Entering(p, m, before)' /\ FaultStart' = FaultStart /\ FaultStart \in 0 .. N - 1
         /\ \A residue :
              LET frame == FrameOf(out_frame', GridPayload(now, "fault").remote, residue) IN
              /\ frame.local_current[p] =
                   IF m + steady' >= N
                   THEN Phasor(ArrivalWindow(Current(p), FaultStart, steady', before), residue)
                   ELSE [real |-> GridPayload(FaultStart + (steady' - 1), "fault").local[Current(p)],
                         imag |-> 0]
              /\ frame.remote_current[p] = [real |-> 0, imag |-> 0]
<1> DEFINE c == Current(p)
           x == GridPayload(now, "fault").local
<1>0. /\ N \in Nat \ {0} /\ now \in Nat /\ steady \in Nat /\ steady <= now /\ now' = now + 1
      /\ p \in Phase /\ c \in Sv!Channel
  BY SomeDelay DEF FaultInv, Deliver, LinePhase, Current, Sv!Channel
<1>1. Sv!ProcessSample(x) /\ RingsShape /\ RingShape(buffers[c])
  BY <1>0 DEF Deliver, ProcessPacket, PayloadAt, FaultInv, RingsShape
<1> HIDE DEF c, x
<1>2. /\ buffers'[c] = Sv!PushSample(buffers[c], x[c])
      /\ out_frame'[c] = IF buffers'[c].count = N THEN Sv!PhasorFrom(buffers'[c]) ELSE <<x[c]>>
  BY <1>0, <1>1, ChannelStep
<1>3. PICK first \in Nat : first = now - steady /\ first = now' - steady'
  <2>1. now - steady \in Nat /\ now - steady = now' - steady'
    BY <1>0
  <2>2. QED
    BY <2>1
<1>4. FaultStart = first % N /\ FaultStart' = first % N /\ first % N \in 0 .. N - 1
  BY <1>0, <1>3 DEF FaultStart
<1>5. buffers'[c].count = IF m + steady' >= N THEN N ELSE m + steady'
  <2>1. buffers[c].count = IF m + steady >= N THEN N ELSE m + steady
    BY DEF Entering, c
  <2>2. buffers'[c].count = IF buffers[c].count < N THEN buffers[c].count + 1 ELSE N
    BY <1>1, <1>2, Push
  <2>3. QED
    BY <1>0, <2>1, <2>2
<1>6. ASSUME NEW i \in 2 .. N, i > steady'
      PROVE  Sv!PhasorFrom(buffers'[c])[i - steady'] = before[i]
  <2>1. PICK k \in 1 .. N - 1 : k = i - steady' /\ k + 1 = i - steady
    <3>1. i - steady' \in 1 .. N - 1 /\ (i - steady') + 1 = i - steady
      BY <1>0, <1>6
    <3>2. QED
      BY <3>1
  <2>2. Sv!PhasorFrom(buffers'[c])[k] = Sv!PhasorFrom(buffers[c])[k + 1]
    BY <1>1, <1>2, WindowSlides
  <2>3. i > steady
    BY <1>0, <1>6
  <2>4. Sv!PhasorFrom(buffers[c])[i - steady] = before[i]
    BY <2>3 DEF Entering, c
  <2>5. QED
    BY <2>1, <2>2, <2>4
<1>7. Entering(p, m, before)'
  BY <1>5, <1>6 DEF Entering, c
<1>8. ASSUME NEW k \in 1 .. N
      PROVE  Sv!PhasorFrom(buffers'[c])[k] = ArrivalWindow(c, FaultStart, steady', before)[k]
  <2>1. CASE k > N - steady'
    <3>1. PICK j \in Nat : j = steady' + k - 1 - N
      BY <1>0, <2>1
    <3>2. now' + k - 1 - N = first + j
      BY <1>0, <1>3, <3>1
    <3>3. Sv!PhasorFrom(buffers'[c])[k] = GridPayload(now' + k - 1 - N, "fault").local[c]
      BY <1>0, <2>1 DEF FaultInv, FaultSamples
    <3>4. QED
      BY <1>4, <2>1, <3>1, <3>2, <3>3, PlaceOfSample DEF ArrivalWindow
  <2>2. CASE ~(k > N - steady')
    <3>1. PICK i \in 2 .. N : i = k + steady' /\ i > steady' /\ i - steady' = k
      <4>1. k + steady' \in 2 .. N /\ k + steady' > steady' /\ (k + steady') - steady' = k
        BY <1>0, <2>2
      <4>2. QED
        BY <4>1
    <3>2. QED
      BY <1>6, <2>2, <3>1 DEF ArrivalWindow
  <2>3. QED
    BY <2>1, <2>2
<1>9. ASSUME NEW residue
      PROVE  LET frame == FrameOf(out_frame', GridPayload(now, "fault").remote, residue) IN
             /\ frame.local_current[p] =
                  IF m + steady' >= N
                  THEN Phasor(ArrivalWindow(c, FaultStart, steady', before), residue)
                  ELSE [real |-> GridPayload(FaultStart + (steady' - 1), "fault").local[c],
                        imag |-> 0]
             /\ frame.remote_current[p] = [real |-> 0, imag |-> 0]
  <2> DEFINE frame == FrameOf(out_frame', GridPayload(now, "fault").remote, residue)
  <2>1. /\ frame.local_current[p] = IF Full(out_frame'[c]) THEN Phasor(out_frame'[c], residue)
                                    ELSE [real |-> out_frame'[c][1], imag |-> 0]
        /\ frame.remote_current[p] = [real |-> 0, imag |-> 0]
    BY <1>0 DEF FrameOf, GridPayload, c
  <2> HIDE DEF frame
  <2>2. CASE m + steady' >= N
    <3>1. out_frame'[c] = Sv!PhasorFrom(buffers'[c])
      BY <1>2, <1>5, <2>2
    <3>2. /\ out_frame'[c] = ArrivalWindow(c, FaultStart, steady', before)
          /\ Len(out_frame'[c]) = N
      BY <1>0, <1>8, <3>1 DEF Sv!PhasorFrom, ArrivalWindow
    <3>3. QED
      BY <2>1, <2>2, <3>2 DEF Full, frame
  <2>3. CASE ~(m + steady' >= N)
    <3>1. out_frame'[c] = <<x[c]>> /\ N # 1
      BY <1>0, <1>2, <1>5, <2>3
    <3>2. Len(out_frame'[c]) = 1 /\ out_frame'[c][1] = x[c]
      BY <3>1
    <3>3. PICK j \in Nat : j = steady' - 1 /\ first + j = now
      BY <1>0, <1>3
    <3>4. x[c] = GridPayload(FaultStart + (steady' - 1), "fault").local[c]
      BY <1>4, <3>3, PlaceOfSample DEF x
    <3>5. QED
      BY <2>1, <2>3, <3>1, <3>2, <3>4 DEF Full, frame
  <2>4. QED
    BY <2>2, <2>3 DEF frame
<1>10. QED
  BY <1>4, <1>7, <1>9 DEF c

\* A frame of the fault finds 87 restrained, or running for one call more.
LEMMA ArrivalDelivery ==
  ASSUME ArrivalInv, FaultInv', Deliver, source = "grid", grid' = "fault", steady' = steady + 1
  PROVE  /\ \A p \in LinePhase : \E m \in 0 .. N, before \in [2 .. N -> GridSamples(Current(p))] :
              Entering(p, m, before)' /\ Unrestrained(p, m, before)'
         /\ DifferentialNeverSettles'
<1>0. /\ N \in Nat \ {0} /\ OperateCalls \in Nat /\ OperateCalls >= N /\ CallsIn[0] = 0
      /\ now \in Nat /\ steady \in Nat /\ TimersOK /\ FaultInv
  BY SomeDelay DEF ArrivalInv, FaultInv
<1>1. PICK residue \in Residue :
        DispatchAll(FrameOf(out_frame', GridPayload(now, "fault").remote, residue))
  BY DeliverDispatches DEF PayloadAt
<1>2. PICK frame : frame = FrameOf(out_frame', GridPayload(now, "fault").remote, residue)
  OBVIOUS
<1>3. ASSUME NEW p \in LinePhase
      PROVE  /\ \E m \in 0 .. N, before \in [2 .. N -> GridSamples(Current(p))] :
                  Entering(p, m, before)' /\ Unrestrained(p, m, before)'
             /\ steady' >= N => p \notin diffOut'.trip
  <2>1. PICK m \in 0 .. N, before \in [2 .. N -> GridSamples(Current(p))] :
          Entering(p, m, before) /\ (steady > 0 => Unrestrained(p, m, before))
    <3>1. CASE steady > 0
      BY <3>1 DEF ArrivalInv
    <3>2. CASE steady = 0
      <4> DEFINE buf == buffers[Current(p)]
                 then == [i \in 2 .. N |-> Sv!PhasorFrom(buf)[i]]
      <4>1. Current(p) \in Sv!Channel
        BY DEF LinePhase, Current, Sv!Channel
      <4>2. buf.count \in 0 .. N
        BY <4>1 DEF ArrivalInv, FaultInv, RingsShape, RingShape
      <4>3. then \in [2 .. N -> GridSamples(Current(p))]
        <5>1. \A i \in 2 .. N : i \in 1 .. N
          BY <1>0
        <5>2. QED
          BY <4>1, <5>1 DEF ArrivalInv, GridRing
      <4>4. Entering(p, buf.count, then)
        BY <1>0, <3>2, <4>2 DEF Entering
      <4>5. QED
        BY <3>2, <4>2, <4>3, <4>4
    <3>3. QED
      BY <1>0, <3>1, <3>2
  <2>2. /\ Entering(p, m, before)' /\ FaultStart' = FaultStart /\ FaultStart \in 0 .. N - 1
        /\ frame.local_current[p] =
             IF m + steady' >= N
             THEN Phasor(ArrivalWindow(Current(p), FaultStart, steady', before), residue)
             ELSE [real |-> GridPayload(FaultStart + (steady' - 1), "fault").local[Current(p)],
                   imag |-> 0]
        /\ frame.remote_current[p] = [real |-> 0, imag |-> 0]
    BY <1>0, <1>2, <2>1, FaultEnters
  <2>3. p \in Diff!Started(frame) => ~Restrains(p, FaultStart, steady', m, before)
    BY <2>2 DEF Restrains, Diff!Started
  <2>4. /\ diffTime'[p] = IF p \in Diff!Started(frame) THEN AddDt[diffTime[p]] ELSE 0
        /\ diffTime[p] \in Time /\ diffTime'[p] \in Time
        /\ p \in diffOut'.trip => diffTime'[p] >= OperateDelay
    BY <1>0, <1>1, <1>2, DiffAfter
  <2>5. /\ CallsIn[AddDt[diffTime[p]]] = IF CallsIn[diffTime[p]] = OperateCalls
                                         THEN OperateCalls ELSE CallsIn[diffTime[p]] + 1
        /\ CallsIn[diffTime[p]] \in 0 .. OperateCalls
        /\ diffTime'[p] >= OperateDelay <=> CallsIn[diffTime'[p]] = OperateCalls
    BY <2>4, DelayAssumption
  <2>6. ASSUME NEW s \in 1 .. steady', s > steady' - CallsIn[diffTime'[p]]
        PROVE  ~Restrains(p, FaultStart, s, m, before)
    <3>1. p \in Diff!Started(frame)
      BY <1>0, <2>4, <2>6
    <3>2. CASE s = steady'
      BY <2>3, <3>1, <3>2
    <3>3. CASE s # steady'
      <4>1. s \in 1 .. steady /\ steady > 0 /\ s > steady - CallsIn[diffTime[p]]
        BY <1>0, <2>4, <2>5, <2>6, <3>1, <3>3
      <4>2. QED
        BY <2>1, <4>1 DEF Unrestrained
    <3>4. QED
      BY <3>2, <3>3
  <2>7. Unrestrained(p, m, before)'
    BY <2>2, <2>6 DEF Unrestrained
  <2>8. ASSUME steady' >= N, p \in diffOut'.trip PROVE FALSE
    <3>1. CallsIn[diffTime'[p]] = OperateCalls
      BY <2>4, <2>5, <2>8
    <3>2. PICK n \in Nat : n = steady' /\ n >= N
      BY <1>0, <2>8
    <3>3. PICK s \in (n - N) + 1 .. n : Restrains(p, FaultStart, s, m, before)
      BY <2>2, <3>2, OnceInNCalls
    <3>4. s \in 1 .. steady' /\ s > steady' - CallsIn[diffTime'[p]]
      BY <1>0, <3>1, <3>2
    <3>5. QED
      BY <2>6, <3>3, <3>4
  <2>9. QED
    BY <2>1, <2>2, <2>7, <2>8
<1>4. DifferentialNeverSettles'
  <2>1. diffOut'.trip \subseteq LinePhase
    BY <1>1 DEF DispatchAll, Diff!Step, Diff!Run, Diff!TimedTrip, Diff!Started
  <2>2. QED
    BY <1>3, <2>1 DEF DifferentialNeverSettles
<1>5. QED
  BY <1>3, <1>4

\* Every period keeps the samples of the grid in its rings.
LEMMA GridStep ==
  ASSUME ArrivalInv, PipelineNext
  PROVE  /\ grid' \in GridState
         /\ source' = "grid" => \A c \in Sv!Channel : GridRing(c, buffers'[c])
<1>1. grid' \in GridState /\ source' = source /\ now \in Nat /\ RingsShape
  BY DEF PipelineNext, Deliver, Lose, GridMoves, ArrivalInv, FaultInv
<1>2. SUFFICES ASSUME source = "grid", NEW c \in Sv!Channel
               PROVE  GridRing(c, buffers'[c])
  BY <1>1
<1>3. CASE Deliver
  <2>1. Sv!ProcessSample(GridPayload(now, grid').local)
    BY <1>2, <1>3 DEF Deliver, ProcessPacket, PayloadAt
  <2>2. buffers'[c] = Sv!PushSample(buffers[c], GridPayload(now, grid').local[c])
    BY <1>1, <2>1, ChannelStep
  <2>3. RingShape(buffers[c]) /\ GridRing(c, buffers[c])
    BY <1>1, <1>2 DEF RingsShape, ArrivalInv
  <2>4. QED
    BY <1>1, <2>2, <2>3, GridPush
<1>4. CASE Lose
  BY <1>2, <1>4 DEF Lose, ArrivalInv, GridRing
<1>5. QED
  BY <1>3, <1>4 DEF PipelineNext

\* 87 does not trip on a fault that fills the window: its timer starts over in
\* every N calls, as the window turns the local phasor out of line with a remote
\* one at angle 0, and its delay is no shorter than that.
THEOREM DifferentialStaysRestrained == PipelineSpec => []DifferentialNeverSettles
<1>1. PipelineInit => ArrivalInv
  <2>1. ASSUME PipelineInit PROVE ArrivalInv
    <3>1. FaultInv /\ steady = 0
      BY <2>1, FaultInit, PipelineStart
    <3>2. grid \in GridState
      BY <2>1, PipelineAssumption DEF PipelineInit
    <3>3. ASSUME NEW c \in Sv!Channel PROVE GridRing(c, buffers[c])
      <4>1. buffers[c] = Sv!EmptyRing
        BY <2>1 DEF PipelineInit, Sv!Init
      <4>2. ASSUME NEW k \in 1 .. N PROVE Sv!PhasorFrom(buffers[c])[k] = 0
        <5>1. PICK j \in Nat : j = 0 + (k - 1) /\ j \in 0 .. N - 1
          BY SomeDelay
        <5>2. j % N \in 0 .. N - 1
          BY <5>1, SomeDelay
        <5>3. QED
          BY <4>1, <5>1, <5>2 DEF Sv!PhasorFrom, Sv!EmptyRing, Sv!Slot
      <4>3. QED
        BY <4>2 DEF GridRing, GridSamples
    <3>4. DifferentialNeverSettles
      BY <3>1, SomeDelay DEF DifferentialNeverSettles
    <3>5. QED
      BY <3>1, <3>2, <3>3, <3>4 DEF ArrivalInv
  <2>2. QED
    BY <2>1
<1>2. ArrivalInv /\ [PipelineNext]_pipelineVars => ArrivalInv'
  <2>1. ASSUME ArrivalInv, PipelineNext PROVE ArrivalInv'
    <3>1. FaultInv'
      BY <2>1, FaultStep DEF ArrivalInv
    <3>2. \/ steady' = 0
          \/ Deliver /\ steady' = steady + 1 /\ source = "grid" /\ grid' = "fault"
      BY <2>1 DEF PipelineNext, Deliver, Lose
    <3>3. CASE steady' = 0
      <4>1. DifferentialNeverSettles'
        BY <3>3, SomeDelay DEF DifferentialNeverSettles
      <4>2. QED
        BY <2>1, <3>1, <3>3, <4>1, GridStep DEF ArrivalInv
    <3>4. CASE Deliver /\ steady' = steady + 1 /\ source = "grid" /\ grid' = "fault"
      BY <2>1, <3>1, <3>4, GridStep, ArrivalDelivery DEF ArrivalInv
    <3>5. QED
      BY <3>2, <3>3, <3>4
  <2>2. ASSUME ArrivalInv, UNCHANGED pipelineVars PROVE ArrivalInv'
    <3>1. FaultInv'
      BY <2>2, FaultStep DEF ArrivalInv
    <3>2. UNCHANGED <<grid, source, buffers, steady, now, diffTime, diffOut>>
      BY <2>2 DEF pipelineVars, streamVars, historyVars, vars, elementVars
    <3>3. QED
      BY <2>2, <3>1, <3>2
         DEF ArrivalInv, GridRing, Entering, Unrestrained, FaultStart, DifferentialNeverSettles
  <2>3. QED
    BY <2>1, <2>2
<1>3. ArrivalInv => DifferentialNeverSettles
  BY DEF ArrivalInv
<1>4. QED
  BY <1>1, <1>2, <1>3, PTL DEF PipelineSpec
=============================================================================

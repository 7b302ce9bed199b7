# A verification development of the vPAC hot path

The repository is the testbed of a thesis on virtualised protection, automation
and control: a tester sends sampled values (SV) over raw Ethernet, virtual
machines run the ANSI protection functions on each frame and echo it, and the
tester records the round-trip time. This directory holds TLA+ modules of those
programs, TLC configurations that check them on small instances, and TLAPS
proofs for all instances. Source paths below are relative to the repository's
`src/` directory.

## 1. Inventory

| Component | Source | State | Operations |
|---|---|---|---|
| hot_sender | `net/sv_hot_sender.c` | loop counter, payload template, socket | stamp and send a frame, busy-wait 250 us, leave the loop on an error |
| hot_replier | `net/sv_hot_replier.c` | socket, own MAC, measurement context, the elements' globals | `process_packet`: receive, check, measure, protect, swap the MACs, echo |
| hot_receiver | `net/sv_hot_receiver.c` | `send_ts_ns`, `recv_ts_ns`, `is_missing`, a counter | one turn of the select loop, the report |
| link and sockets | kernel, virtual switch (external) | queues | deliver, lose, flood, copy back, fail |
| measurement | `measurement/meas_sv.c` | two rings of 80 samples per phase | `meas_sv_process_sample` |
| ANSI 50, 51 DTL, 51 IDMT, 67, 21, 87 | `protection/*.c` | per phase: nothing, a float timer, or a progress | one `*_step` each |
| prot_common | `protection/include/prot_common.h` | none | `normalize_angle`, masks |
| prot_dispatch | `protection/prot_dispatch.c` | the settings and states of the six elements | `prot_dispatch_init`, `prot_dispatch_all` |
| perf_timer | `timing.c` | a buffer of durations, three blocks of memory | create, measure, save, free, statistics |
| benchmark drivers | `protection/prot_benchmarking.c`, `measurement/meas_benchmarking.c` | perf_timers, one static frame, the states of the elements or the rings | set up a case, warm up, measure, report |
| memory_lock | `net/memory_lock.h` | none | one `mlockall` |
| host, VM and guest configuration | `host_nix_config`, `vm_libvirt_xml`, `vm_cloud_init` | none | declarative |

**How they interact.** hot_sender and hot_receiver are two processes on one
interface of the tester; they share nothing but that interface, the clock
`CLOCK_MONOTONIC_RAW` and the numbers on their command lines. Each hot_replier is
a process of its own in a virtual machine. A frame carries its id and the time it
was stamped; a replier returns the same bytes. Inside a replier, one call chain
per frame runs `meas_sv_process_sample`, `prot_dispatch_all` and the six steps.
All programs print READY and nothing else synchronises them. The benchmark drivers
call the elements or the measurement layer directly, through a perf_timer per
case; they share no process with the others.

**What is hard.** Several repliers answer one broadcast; frames are lost,
flooded, copied back by the kernel, late and out of order; programs start and
stop in any order; the receiver waits without a timeout; system calls fail
between two steps; the stamps and the pacing use different clocks; unsigned
subtractions; float timers that add a rounded dt; reset paths spread over early
exits; a progress whose shares are divided and added in floats; a ring that wraps in the call in which it becomes full; programs that are
started again while old frames are still queued; loops on floats that need not
end; benchmark cases that share a frame and may fail one by one. The list, with
lines, is under `hazards` in PROJECT.json.

**What makes each component correct.** The receiver's table must be a
write-once log of real round trips, its report must agree with the table, and it
must end. A replier must handle each frame once. A delayed element must trip in
exactly the calls that end a long enough run of its criterion; an inverse-time
element must keep within its clamps. The measurement must see exactly the last
cycle, and the elements must see a fault through it as they are set to, whatever
part of the cycle the window starts in. An angle must keep its direction when it is
wrapped. A benchmark must time the same path in every sample and lose neither a
case nor memory when a call fails. A session must not be spoilt by the one before.

## 2. Modules

| Module | What it is |
|---|---|
| `HotPath` | sender, repliers, receiver and network, composed |
| `HotRestart` | `HotPath` over several sessions, each program restarted at will; the CSV file |
| `LatencyLog` | abstract: a write-once latency table closed by one report; a series of them |
| `ProtCommon`, `DefiniteTime` | frames, outputs, angles, the timer; a delay counted in calls |
| `InverseTime` | the inverse curve, its clamps, and a progress of rounded shares |
| `Oc50`, `Oc51Dtl`, `Oc51Idmt`, `Dir67`, `Dist21`, `Diff87` | one element each |
| `SupervisedTimer` | the tail that 67, 21 and 87 have in common |
| `DelayedTrip` | abstract: a channel starts when its criterion holds and trips after a run of `OperateCalls` calls, never otherwise |
| `Protection` | `prot_dispatch`: the six elements as instances, with their settings |
| `MeasSv`, `SlidingWindow` | the rings; abstract: the last N samples |
| `ReplierPipeline` | `MeasSv` feeding `Protection`, on hot_sender's payloads or a sampled grid, with lost frames |
| `Rounding`, `Float32` | round to nearest, ties to even; the floats a timer visits |
| `FloatProgress` | float32 division and addition, for the floats a progress visits |
| `AngleWrap` | the loops of `normalize_angle`, every operation rounded |
| `PerfTimer`, `Benchmark` | the sample buffer; both benchmark programs, with the elements and the rings as instances |
| `MC*` | constants for TLC |
| `*Proofs` | theorems and proofs |

### Correspondence

*HotPath.* A station is a MAC address. `inbox[s]` is the queue of the AF_PACKET
socket of `s`, a set, since nothing in the programs depends on the order of
arrival and the model allows all of them; two identical frames in one queue are
one, which the programs could tell apart only by counting, and every frame a
station sends differs in source or id from the others. `outgoing` is
`sll_pkttype == PACKET_OUTGOING`. Each action is one turn of a program's loop:
`SendOnePacket` is stamping and sending, up to the start of the busy wait;
`ReplierEchoes`, `ReplierIgnores`, `ReplierSendFails` and `ReplierRecvFails` are the
return codes of `process_packet`; `ReceiverSkips` and `ReceiverRecords` are the
`continue`s and the fall-through of `receive_packets`; `WriteResults` is the whole
of `write_results_and_print_stats`. Atomicity is justified by the programs: they
are single-threaded and share no memory, so a turn of a loop is observable to
the others only through the frame it sends. The clock may advance between any
two turns. `stamped` and `steps` are history: no program reads them. The check of
the EtherType in both loops is implied by the sockets' protocol and is left out.

*Elements.* Masks are sets of phases, angles are degrees, magnitudes whole
numbers. A timer takes the values of `Time`, and `AddDt` is one `+= dt_seconds` with
its rounding, so the same module is instantiated with whole ticks
(`MCProtection`) and with exact float32 values (`MCFloatTimer`). Comparisons stay
comparisons, with both sides multiplied where the code divides: |V|/|I| <= reach
becomes |V| <= reach * |I|; the threshold of 87 is taken twenty times.
`CurveTime` stands for the inverse curve, `One` for progress 1.0. The progress of 51
IDMT is a float too: `AddShare[x][t]` is `x + dt_seconds / t`, with the division and
the addition rounded, and `Slowest` and `Fastest` follow it through calls in a row at
the upper and at the lower clamp, until the sum first reaches 1.0
(`SteadyRun`). How many calls that takes is a result of the rounding and not the
quotient of two times. `MCProtection` rounds to three significant bits, where it may be
that or one more: the lower clamp of 2 calls takes 2, the upper one of 6 takes 7. Its assumption
`Float32Clamps` computes the float32 values themselves (`FloatProgress`): of the
dispatcher's clamps, 0.010 s takes 41 calls of 250 us and 1.000 s takes 4001. All early
exits of 67, 21 and 87 do the same to a phase, a reset of its timer and neither start
nor trip, so `SupervisedTimer` has one reset for them.

*Measurement.* The DFT of a window is represented by the window itself, in the
order the DFT takes it: two measurements agree if their windows do.

*Pipeline.* `ReplierPipeline` composes what one `process_packet` does with a
payload: `Sv!ProcessSample` pushes the samples, `FrameOf` makes the measurement
frame as parts 2 to 5 of `meas_sv_process_sample` do (phasors of full rings,
instantaneous samples at angle 0 before, remote currents always at angle 0), and
`DispatchAll` of `Protection` steps the six elements on it with the same dt. The
DFT is computed on a basis of whole numbers (`dft_cos`, `dft_sin` at 4 samples per
cycle are exact). Where its sums cancel exactly, 80 rounded terms do not: the
phasor is then any member of `Residue`, next to nothing in magnitude and of any
angle. `GridPayload` is not code of this repository; it is the input the layer is
written for, a voltage and a current in phase, with the fault current fed from this
end only.

*Restarts.* `HotRestart` extends `HotPath`: every step of it is a step of a series,
with the CSV file as an extra variable, and a program that has ended, or a replier
at any time, may be started again. A new process has its own socket and fresh
tables; other sockets keep what they hold, and ids start at 0 again. `sessions`,
`everStamped`, `readyAt` and `drained` are history.

*Angles.* `AngleWrap` runs `normalize_angle` one operation at a time in a binary
format with a given number of significant bits; angles are whole numbers of a
unit. `turns` and `rounded` are history and leave out a turn that rounding undoes,
which otherwise would count for ever.

*Benchmarks.* One module for both programs, since their `main`s are the same:
`program` says which. An action is one call that changes state: `mlockall`, an
`init_fn`, one sample of the warm-up of the rings, `perf_timer_create`, one step
of an element inside the 20000 of a call, one round of the reporting loop.
The sample of a timer is the set of outcomes of the steps it timed, which is what
could make two durations incomparable. `heap` holds the blocks `malloc` and `strdup`
gave out; `Create(c, got)` covers every combination that `perf_timer_create` can be
left with.

## 3. Runs

| Run | Instance | Question |
|---|---|---|
| `hot_broadcast` | 2 repliers, broadcast, 2 frames, flooding, copies | is the table a write-once log of real round trips, with several answers per frame and echoes everywhere, and is no frame forgotten? |
| `hot_session` | 1 replier, unicast, 2 frames, early start, loss, failures, Enter, a foreign frame, clocks that differ by 1 in 2 | is what is reported true, and does Enter end the session? |
| `hot_completes` | 2 repliers, 3 frames sent, 2 expected, nothing goes wrong | does the receiver end by itself? |
| `prot_elements` | 2 phases, 24 frames, delay of 3 calls, clamps of 2 and 6 calls, progress of 3 significant bits | delays, clamps, reset paths and how elements relate |
| `dtl_float` | 2 phases, exact float32 timer, real settings | which call trips, and does every pickup lead to a trip? |
| `meas_ring` | 2 channels, cycle of 3 samples, 3 values | is the ring a sliding window? |
| `hot_restart` | 1 replier, 1 frame per session, 2 expected, 2 restarts, loss, copies, failures, Enter | what can a session inherit from an earlier one, and is every table still a write-once log? |
| `replier_pipeline` | 1 phase, cycle of 4 samples, delay of 5 calls, 18 periods, 3 losses, 2 changes of the grid | when do measurement and elements together trip, and when not? |
| `normalize` | every angle of a 6-bit format up to 256 rad; 36 float differences | range, direction and termination of `normalize_angle` |
| `benchmark` | 2 phases, cycle of 4, 2 warm-ups, 3 samples, every failure | are the samples comparable, do failures stay contained, and does `main` end? |
| `dtl_nominal` (violation) | as `dtl_float` | is 20 ms 20 ms? |
| `idmt_full` (violation) | as `prot_elements` | does full progress trip? |

**Bounds and why they are enough.** Two frames are the least for which echoes can
be out of order, two repliers the least for duplicates and for an echo that
another replier could answer; a third replier is symmetric to the second, and the
theorems below cover any number. `hot_completes` sends more frames than the
receiver expects, so that the id check matters. The clock has 9 readings (4 in
`hot_broadcast`, where the sender's deadline keeps it below); `Lateness` bounds
how far it may run ahead of the sender, in `Tick`. `Wrap` stands for 2^64 and
need only exceed the largest reading. The protection frames put a phase below,
exactly at and above each pickup, in and out of the reach, in the forward and
the reverse direction, across the angle wrap, and without polarizing voltage; a
delay of 3 calls leaves room for a reset at each point and one call past it. The
float instance follows the timer for 83 calls from a reset and then holds it
there; 81 are needed. The progress of 51 IDMT visits too many floats for a
run of its own; its instance keeps what matters, one clamp that takes its calls and one
that takes a call more. The ring of 3 wraps, and every sequence of samples is
explored. Deadlock is not checked in the `hot_*`, `benchmark` and `normalize` runs,
where the programs end, nor in `replier_pipeline`, which ends at its horizon; in the
others every call can be followed by another.

`hot_restart` sends one frame per session and expects two, so that a slot stays
missing or is filled by an echo of another session; four readings of the clock and
two restarts let a receiver meet echoes of the session before, a sender run twice
against one receiver, and a report follow a report. In `replier_pipeline` the window
is 4 samples and the delay 5 calls, one more than a cycle, as the real 81 calls are
one more than 80; 18 periods hold a full window of load, a fault of a whole window
and delay, and three losses in any places. In `normalize` the 6-bit format reaches
the angles whose turns are lost, as float would at 2^27 rad; the float angles are 0,
the smallest units, a right angle and both ends of the range of `atan2f`, and their
differences. In `benchmark` the calls are few, but `WarmUps * RunsPerCall` reaches
the calls of the longest operate time as it does in the code (`BenchmarkAssumption`), and a
capacity of 3 is reached exactly, so that the branch of `perf_timer_measure` that
declines is evaluated in every call but never taken: both programs call it as often
as it has room. The real warm-up is 1000 times 20 000 steps, where the upper clamp
of 1 s takes 4001.

**Symmetry.** `hot_broadcast` treats repliers as interchangeable: no constant and
no property names one. The liveness runs use no symmetry.

**Fairness.** `hot_session` assumes only that the receiver's loop goes round when
`select` would return for Enter, or when it is about to print: a blocked `select`
is woken by its descriptors. `hot_completes` assumes in addition that the clock
advances, and that sender, repliers and receiver keep being scheduled and drain
their sockets: they are loops of their own on dedicated virtual CPUs, and the
queues of a quiet network do not overflow. Nothing is assumed of frames that the
instance allows to be lost. `dtl_float` assumes that the element keeps being
called. `benchmark` and `normalize` assume that a program, or a function, that
waits for nothing is given the processor until it ends.

### What the runs show

The properties hold, on these instances, with two exceptions that the two
violation runs exhibit. (a) With dt = `(float)250/1e6f` and a delay of `0.020f`, the sum after 80
calls is rounded to just below the delay: the element trips in call 81, after
20.25 ms, where `prot_dispatch.c:58` says 20 ms. The same arithmetic serves 67, 21
and 87. (b) `oc51_idmt.c:74` leaves the loop body before the trip test when the
current is within 0.01 % of the pickup: a phase whose progress is full shows
start without trip, where `oc51_idmt.h:40` says that full progress trips.

The clamps of 51 IDMT have the same fault as the delay in (a): the sum of 4000 shares
`(float)250/1e6f / 1.000f` is below `1.0f`, and a current held at the upper clamp trips
in call 4001, at 1000.25 ms, where `prot_dispatch.c:80` says 1.000 s; the lower one takes
41 calls (`Float32Clamps`). `IdmtWithinClamps` is therefore stated in calls as the
rounded additions count them: no trip before the calls that the lower clamp alone would
take, and full progress after those of the upper one, whatever the current did in between.

Two properties are about the settings more than the code: `OvercurrentShadowed`
says that with the pickups of `prot_dispatch_init` the delayed overcurrent
elements never decide the combined trip, and `DirectionalNeverAhead` that 67 never
trips without 51 DTL.

*The round trip.* Whatever the receiver and the repliers drop, as not addressed to
them, as no reply or as recorded before, in an undisturbed experiment they never
drop the last chance of a frame to be recorded: until its slot is filled, its answer is
queued at the tester, or the frame itself is at a replier that will answer it
(`NoneForgotten`). A receiver that expected replies in order would break it.

*The pipeline.* A delay is counted in frames received: 51 DTL trips when the periods
since it started, less the frames lost, reach its delay, so every lost frame makes
it a period late and none makes it early (`TripTimeAccountsForLoss`). A steady fault
trips 51 DTL, 67 and 21 wherever in the cycle the window starts, because direction and
impedance are differences of two phasors that turn together (`SteadyFaultTrips`); 87,
whose remote phasor is given angle 0 (`meas_sv.c:173`), never keeps the same fault
in line for as long as its delay (`DifferentialNeverSettles`). On the payloads
of hot_sender the elements start only until the rings are full, in the first 79
frames of the real system, and no delayed element of 51, 67 and 21 ever trips: the
payloads are constant but for a ramp whose period divides the cycle, and the DFT
removes both (`SenderTrafficIsQuiet`). The latencies measured after these frames are
those of elements that have not picked up. 87 is left out of that statement: what it
sees is the angle of a rounding residue, and it starts on and off with it. Whether
87 may trip when frames are lost in the middle of a fault is not claimed either way.

*Sessions.* With ids and no session number, an echo of an earlier session can
be recorded as one of this session. `hot_restart` shows what remains true: the
entry is a real stamp and a later reception, `RecordedWasStamped`; and a receiver that
starts when nothing is under way records nothing old, `FreshWhenDrained`. And the
tables of successive receivers are write-once logs that begin empty, with nothing of
an earlier session's table or report in them, `ImplementsLogSeries`. A CSV file
whose session received nothing has no row for the missing frames, unlike one
that received some (`CsvOfLastReport`).

*Angles.* The result is in [-pi, pi] for every angle for which the loops end
(`IntoHalfTurns`), although the comment at `prot_common.h:101`, "into [0, 2*pi)", is not
quite true: a small negative angle plus 2 pi rounds to 2 pi, which the last `if`
turns into 0. A direction is kept to half a spacing per operation, and an angle within
a turn of 0 needs two operations at most (`KeepsDirection`): this is what lets
`ProtCommon` use the exact result. The loops end for every angle whose neighbours
are less than two turns away (`LoopsEnd`), and the model stalls on larger ones; such
an angle could only come from a setting.

*Benchmarks.* Every sample of a case times steps that return the same masks, or an
estimate of a full window (`SamplesComparable`): the settings without delay and
the warm-up leave no step on another path. A case that cannot have a timer or a file
is left out and all others are complete.

Next to a definition there may be a second one marked as a slip: what a
plausible mistake would make of it. PROJECT.json pairs each property with one,
and the property fails when the slip takes the definition's place.

## 4. Proofs

All theorems are for every value of the constants that satisfies the named
assumptions: any finite number of repliers, any numbers of frames, any set of
clock readings, any combination of disturbances, any number of sessions; any set of
frames and phases, any monotone timer; any ring size; any number of warm-ups, calls
and samples; any binary format. TLC evaluates each assumption in a run.

*HotPathProofs.* `TypeCorrect` needs one strengthening, `SenderInv`: while the
sender can send, its counter is below `<iterations>`. `LoopControl` adds
`CountInv`: the counter equals the number of filled slots, and a loop that Enter
did not end left with the counter at its maximum; the step that matters is
`ReceiverRecords`, where the `is_missing` check makes the slot new. `EchoesStop` and
`LatenciesAreReal` rest on `TrafficInv`, which says of every frame in every socket
that it is either an original, whose holder has not yet run protection on it, or
the reply of a replier that has; that it carries the time of its stamp; and that
ids are stamped once, in order. The invariant is needed because neither
property mentions the sockets: a second protection step is excluded by there
being at most one original per id and socket (`OriginalIsUnique`) and by replies
being addressed to the tester.

- *Nothing forgotten.* `FramesAreNotForgotten` needs, besides `TrafficInv`, only
  `ListenInv`: in an orderly experiment everyone listens before the first frame is
  sent. `TransmitReaches` is the step in which a frame arrives where it is addressed
  when nothing is lost. An echo reaches the tester since the frame a replier answers
  is an original, whose source is the tester; and a reply the receiver drops is one
  whose slot is filled (`ForgetReceiver`).
- *The report.* `SessionInv` adds `ReportInv` to all of these: nothing is reported
  before the end, and the report is the one the final table gives. From it follow
  `ReportIsFaithful`, where `LatencyIsReal` and the width of the clock exclude a
  wrapped subtraction, and `ReceiverImplementsLog`: `StepOfLog` maps
  `ReceiverRecords` to an entry whose send time is not after its receive time
  (which needs `TrafficInv`), `WriteResults` to the report, `ReceiverFails` to the
  abort and every other step of anyone to a stutter.
- *The pace.* `Paced` speaks of the table, but the pace is kept by the sender, so
  `PaceInv` speaks of the stamps: while the loop can send, the clock is as many gaps
  past every stamp as there are frames since, a gap being `SendPeriod - Slew`, and
  while it waits, its target is a period past that. `PaceWaits` is the step that
  trades the period for the gap, since the waiting clock may be ahead by `Slew`.
  `TableInv` carries the result from the stamps to the table.
- *Series of sessions.* `TrafficInv` is false once programs start again: an id is then
  stamped once per session, and a queued frame need not carry the stamp its id has
  now. `WireInv` is what remains of it: a queued frame was stamped in some session,
  not after the present, and not before the receiver was ready if nothing was under
  way then. With `SlotInv` it gives `SlotsAcrossSessions`. `StepsPerSession` is a count:
  in `StepInv`, the protection steps a replier has run for an id, the originals of
  it in its socket and the one the sender may still send are together no more
  than the sessions begun. `OrderInv` is needed for the last summand, and the
  library's facts on cardinality for the second: a transmission adds one frame at
  most, a step takes one away. `OutputOfEachSession` adds the CSV file
  (`OutputInv`): a report that opened it left the rows of its own table.
  `SessionsImplementLog` is the refinement for a series: the steps of a session map as in
  `StepOfLog`, which asks only that no queued frame is stamped in the future
  (`NoneFromFuture`, from `WireInv`), and `ReceiverRestarts` maps to a new, empty log.

*Oc51DtlProofs, SupervisedTimerProofs.* Refinement of `DelayedTrip`: the abstract
run length is `CallsIn` of the timer, and `DelayAssumption` says what is required of
the arithmetic; a delay that is not positive is allowed, and then the tail of 67, 21
and 87 trips at once, as `DelayedTrip` does with a run of no calls. TLC evaluates that
assumption for the whole ticks, for the exact float32 timer and, without delay, for
the benchmark settings.

*ProtectionProofs.* `DirectionalNeverAhead` is inductive together with the types of
the timers, from the monotonicity of `AddDt`; `OvercurrentShadowed` holds of each
call's outputs, from the inclusion of the criteria (`SamePickup`). For
`IdmtWithinClamps`, `ClampInv` keeps the progress after n calls that moved it between
`Slowest[n]` and `Fastest[n]`, what n calls at the upper and at the lower clamp alone
have made of it (`TimeWithinClamps`, `OneMore`); the property alone is not
inductive, as it says nothing of the progress between no call and `SlowCalls` calls.
`IdmtWithinClampsHolds` assumes no arithmetic but that of `ShareAssumption`: a share no
smaller, added to a progress no smaller, gives no less, and no addition takes the
progress back, which rounding to nearest ensures; how many calls either clamp takes
is left to `SlowestAssumption` and `FastestAssumption`, which TLC evaluates. Last, each delayed element behind the dispatcher implements
`DelayedTrip`: `DispatchAll` implies a call of the element, and the theorems of
`Oc51DtlProofs` and `SupervisedTimerProofs` are instantiated for the state the
dispatcher keeps. `DtlDelaysTrip`, which no run checks in this composition, is proved
with the other three.

*MeasSvProofs.* The invariant is that the rings are well formed and that a ring
that is filling has its index at its count; `PushSlides` shows that a push drops
the oldest sample and appends the newest, and `RingsImplementWindow` that every
call of the rings is a call of the sliding window.

*ReplierPipelineProofs.* Four theorems on measurement and elements together, for
any cycle, any input within the payloads of the model, and any frames lost.
`TripTimeIsFramesHeard` needs `HeardInv`, in which the timer of 51 DTL holds exactly
the frames heard since its start, up to its delay. The other three follow what a
window can contain, and end in a sum over the window that only induction over its
length could evaluate; what that sum comes to is therefore an assumption on the
DFT's table and the inputs, named, and evaluated by TLC on the run's instance.

- `SenderTrafficStaysQuiet`: a full window of hot_sender's payloads consists of
  `SenderSamples`, and of such a window the DFT leaves less than a pickup
  (`SenderAssumption`). `QuietInv` bounds every timer by the frames in the rings while
  these fill, and by 0 after: the elements may have started but not have run
  for as long as their delay, which is no shorter than a cycle.
- `SteadyFaultAlwaysTrips`: after a whole window of fault, the window is
  `FaultWindow` at one of N places (`FilledByFault`), and at each a fault is beyond the
  pickup, forward and in reach (`FaultAssumption`). `FaultInv` keeps the place and the
  calls the three timers have run since, whatever they held before.
- `DifferentialStaysRestrained`, for `DifferentialNeverSettles`: in any N calls of a
  fault 87 is restrained once, both while the fault enters the window and after, and
  its delay is no shorter than N. The window of a fault that is entering still holds
  earlier samples, in any order and from any changes of the grid; `ArrivalInv`
  names them `before`, and keeps that the window is the `ArrivalWindow` of the fault's
  first calls and what `before` leaves, and that the timer holds no more calls
  than there were since the last one that restrained 87. `DifferentialAssumption`
  says that there is one in any N calls of the first 2N - 1, for every place of the
  cycle, every fill of the ring and every `before` made of samples of the grid; TLC
  evaluates it for all of these. From the second cycle on the windows repeat
  (`OnceInNCalls`), so nothing is assumed of longer faults.

*BenchmarkProofs.* One inductive invariant, `BenchmarkInv`, in five parts that need
each other: the counters of the loops (`LoopInv`); the frame, the timers, the rings
and the progress of 51 IDMT where every measured step takes one path (`PathInv`); the
samples stored (`SampleInv`); what has become of the cases before the present one,
and nothing yet of those after (`CaseInv`); and the memory in use (`HeapInv`). The part
that is hard is the one element whose path depends on its past: `WarmedUp` says
that after n steps the progress is no less than n steps at the upper clamp would have
made it (`Floor`), so that the warm-up, which is no shorter than the calls which that
clamp takes (`BenchmarkAssumption`), ends with full progress, however shares are rounded.
`CaseAssumption` says what the numbers in the cases need: phasors on the real axis
have their length and no angle, and the curve is defined at one and a half pickups.
`MainNearsExit` orders the places of
`main` by its part, the case, the stage of the case, the call and the step: `LoopInv`
bounds each of them and every action goes on in that order, so there are finitely
many steps to the end.

*AngleWrapProofs.* For every format in range and every angle of it, `WrapInv` bounds
the angle on the way (`RangeInv`), counts the operations for an angle within a turn
(`NearInv`), and bounds what rounding has taken off by half a spacing of the larger of
the angle and a whole turn per operation. It rests on lemmas about
`Rounded`: it is within half a spacing (`RoundsWithin`), leaves no value of the format
between (`NoneBetween`), and so keeps an operation between any two values it was
between (`RoundsBetween`), which is how a negative angle plus a turn cannot pass a
turn. `TurnsAreNotLost` adds that an operation is off by less than a whole turn
(`OffByLessThanATurn`), which is the point of the bound of two turns on the spacing:
half of that is what rounding may undo. `FormatAssumption` keeps numbers below 2^30
units, as TLC's integers need, and `PowersOfTwo` states that exponents up to 30 add up:
the provers know nothing of `2^n`, and TLC evaluates all of these.

Every invariant and every refinement that a passing run checks is stated by a theorem.
Of the five liveness properties, which are beyond the prover and stay with TLC, four
have a theorem on the part that does not rest on fairness: `NoneForgotten` for
`UndisturbedRunCompletes`, `NoTurnIsLost` for `LoopsEnd`, `NearsExit` for `Exits`, and
`DelaysTrip`, by which a pickup that lasts `OperateCalls` calls trips, for
`StartedTripsOrDropsOut`. The fifth, `EnterEndsSession`, is a matter of fairness alone.
`NoTurnIsLost` and `NearsExit` are stated in the proof modules; no run repeats them, nor
the type invariant of `Benchmark`. What the theorems assume of the instance, and only
TLC evaluates: the sums of the DFT over a window in the assumptions of
`ReplierPipeline`, since only induction over the window could, and that the float32
additions reach the delay in 81 calls and the progress at the upper clamp 1.0 in 4001,
facts about so many roundings. The two violations are TLC's as well.

## 5. What is not modelled

- The numerical content of `powf`, `sqrtf`, `hypotf` and `atan2f`: tables stand for
  them. The DFT is exact on whole numbers, with a residue where it cancels; its
  80-sample float sums are not followed. NaN and infinities are outside the frames
  and angles enumerated.
- Minimum, maximum and average in the statistics of the receiver and of
  perf_timer; short writes to a CSV file; durations.
- A crash inside one `process_packet` or one turn of the receiver's loop: the
  process's memory is gone with it, and its socket, so that only what it sent
  is left, which restarts between two turns show as well.
- A failing `mlockall` in the three network programs: they end before anything
  starts (`memory_lock.h`), as a program that is never READY.
- Which of its calls `init_receiver` fails in: every error exit ends the program
  before it listens, as a receiver that is never READY.
- A CSV file that an earlier execution of a benchmark left: a case that cannot open
  its file leaves the old one, and the model begins without files.
- The stall of a timer: a float stops growing under `+= dt` at 8192 s. The proofs ask
  of a timer only that no addition takes it back, so they cover a stalled one; the
  runs end soon after the delay.
- The two angle normalisations of 67 apart: with the dispatcher's torque angle of 0
  and frame angles in [-180, 180] one of them suffices, and no run has other settings.
- Argument parsing, and the configuration of host, hypervisor and guests, which
  has no program logic.

## 6. Plan

1. *Done:* `HotPath` with `LatencyLog`; the elements, `Protection` and
   `DelayedTrip`; `MeasSv` with `SlidingWindow`; the proofs of section 4.
2. *Done:* `ReplierPipeline`, `HotRestart`, `AngleWrap`, `PerfTimer` and `Benchmark`.
3. *Done:* proofs of `Paced`, of `IdmtWithinClamps` and of the delays of the elements
   behind the dispatcher; of the safety properties of `HotRestart`, `Benchmark`,
   `AngleWrap` and `ReplierPipeline`; of the series of sessions as a refinement; and
   of what the liveness properties rest on besides fairness.
4. Left: nothing among the safety properties. Liveness, the sums of the DFT and the
   roundings of the timer and of the progress are out of the prover's reach and stay with TLC.

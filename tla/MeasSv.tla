------------------------------- MODULE MeasSv -------------------------------
(***************************************************************************)
(* The sampled-value measurement layer: a ring buffer per current and per  *)
(* voltage channel, pushed once per payload, and a one-cycle DFT over the  *)
(* ring once it is full.  The estimate of a channel is represented by the  *)
(* N samples it is computed from, in the order the DFT takes them; before  *)
(* the ring is full it is the one instantaneous sample.                    *)
(***************************************************************************)
EXTENDS Integers, Sequences

CONSTANTS
  N,         \* MEAS_SAMPLES_PER_CYCLE
  Phase,     \* the index of a channel: A, B, C, N
  Sample,    \* the sample values a payload may carry
  Zero       \* 0.0f

ASSUME RingAssumption == N \in Nat \ {0}
ASSUME SampleAssumption == Zero \in Sample

Channel == {"current", "voltage"} \X Phase
Slot == 0 .. N - 1

VARIABLES
  buffers,    \* current_buffers and voltage_buffers: a ring per channel
  out_frame   \* what the last call wrote: channel -> the samples it is from

vars == <<buffers, out_frame>>

Ring == [samples : [Slot -> Sample], index : Slot, count : 0 .. N]

\* meas_sv_context_init
EmptyRing == [samples |-> [i \in Slot |-> Zero], index |-> 0, count |-> 0]
Init ==
  /\ buffers = [c \in Channel |-> EmptyRing]
  /\ out_frame = [c \in Channel |-> <<>>]

\* A slip: the index starts to move when the ring is full.
PushStuck(buf, sample) ==
  [samples |-> [buf.samples EXCEPT ![buf.index] = sample],
   index   |-> IF buf.count < N THEN buf.index ELSE (buf.index + 1) % N,
   count   |-> IF buf.count < N THEN buf.count + 1 ELSE buf.count]

\* push_sample
PushSample(buf, sample) ==
  [samples |-> [buf.samples EXCEPT ![buf.index] = sample],
   index   |-> (buf.index + 1) % N,
   count   |-> IF buf.count < N THEN buf.count + 1 ELSE buf.count]

\* A slip: the slots in storage order.
PhasorFromZero(buf) == [k \in 1 .. N |-> buf.samples[k - 1]]

\* compute_phasor_from_buffer: from the next write position once around.
PhasorFrom(buf) == [k \in 1 .. N |-> buf.samples[(buf.index + (k - 1)) % N]]

\* meas_sv_process_sample, for a payload with the local sample x[c] of channel
\* c: all rings are pushed first, then every channel is measured.
ProcessSample(x) ==
  /\ buffers' = [c \in Channel |-> PushSample(buffers[c], x[c])]
  /\ out_frame' = [c \in Channel |->
                     IF buffers'[c].count >= N THEN PhasorFrom(buffers'[c])
                     ELSE <<x[c]>>]

Payload == [Channel -> Sample]
Next == \E x \in Payload : ProcessSample(x)

Spec == Init /\ [][Next]_vars
-----------------------------------------------------------------------------
\* The type invariant of the rings: a ring that is filling holds its samples in
\* the slots below its index.
TypeOK ==
  /\ buffers \in [Channel -> Ring]
  /\ \A c \in Channel : buffers[c].count < N => buffers[c].index = buffers[c].count

\* The samples a ring holds, oldest first.
Held(buf) ==
  [k \in 1 .. buf.count |->
     buf.samples[IF buf.count < N THEN k - 1 ELSE (buf.index + (k - 1)) % N]]

\* The rings implement a sliding window of the last N samples: a wrapped ring
\* hands the DFT exactly the last cycle, oldest sample first.
Window == INSTANCE SlidingWindow WITH
  window   <- [c \in Channel |-> Held(buffers[c])],
  measured <- out_frame
SlidesWindow == Window!Spec
=============================================================================

---------------------------- MODULE MeasSvProofs ----------------------------
(***************************************************************************)
(* Proofs about the measurement rings, for every cycle length, every set   *)
(* of channels and every sample.                                           *)
(***************************************************************************)
EXTENDS MeasSv, SequenceTheorems, TLAPS

\* Within two turns of the ring, wrapping is one subtraction.
LEMMA WrapOnce ==
  ASSUME NEW a \in 0 .. 2 * N - 1
  PROVE  a % N = IF a < N THEN a ELSE a - N
<1>1. CASE a < N
  BY <1>1, RingAssumption
<1>2. CASE a >= N
  <2>1. a = 1 * N + (a - N) /\ a - N \in 0 .. N - 1
    BY <1>2, RingAssumption
  <2>2. QED
    BY <1>2, <2>1, RingAssumption
<1>3. QED
  BY <1>1, <1>2, RingAssumption

\* A push keeps a ring well formed.
LEMMA PushKeepsRing ==
  ASSUME NEW buf \in Ring, NEW x \in Sample,
         buf.count < N => buf.index = buf.count
  PROVE  LET new == PushSample(buf, x) IN
         /\ new \in Ring
         /\ new.index = IF buf.index + 1 < N THEN buf.index + 1 ELSE 0
         /\ new.count = IF buf.count < N THEN buf.count + 1 ELSE N
         /\ new.count < N => new.index = new.count
<1> DEFINE new == PushSample(buf, x)
<1>1. /\ buf.samples \in [Slot -> Sample]
      /\ buf.index \in 0 .. N - 1 /\ buf.count \in 0 .. N
  BY DEF Ring, Slot
<1>2. (buf.index + 1) % N = IF buf.index + 1 < N THEN buf.index + 1 ELSE 0
  BY <1>1, WrapOnce, RingAssumption
<1>3. /\ new.samples = [buf.samples EXCEPT ![buf.index] = x]
      /\ new.index = (buf.index + 1) % N
      /\ new.count = IF buf.count < N THEN buf.count + 1 ELSE buf.count
  BY DEF PushSample
<1>4. new.samples \in [Slot -> Sample]
  BY <1>1, <1>3 DEF Slot
<1>5. new.index \in Slot /\ new.count \in 0 .. N
  BY <1>1, <1>2, <1>3, RingAssumption DEF Slot
<1>6. new \in Ring
  BY <1>4, <1>5 DEF Ring, PushSample
<1>7. QED
  BY <1>1, <1>2, <1>3, <1>6, RingAssumption

\* What the DFT reads of a full ring is what the ring holds.
LEMMA FullRingHeld ==
  ASSUME NEW buf \in Ring, buf.count = N
  PROVE  PhasorFrom(buf) = Held(buf)
  BY RingAssumption DEF PhasorFrom, Held

\* The contents of a ring are a sequence of as many samples as it counts.
LEMMA HeldIsSeq ==
  ASSUME NEW buf \in Ring, buf.count < N => buf.index = buf.count
  PROVE  Held(buf) \in Seq(Sample) /\ Len(Held(buf)) = buf.count
<1>1. /\ buf.samples \in [Slot -> Sample]
      /\ buf.index \in 0 .. N - 1 /\ buf.count \in 0 .. N
  BY DEF Ring, Slot
<1>2. ASSUME NEW k \in 1 .. buf.count
      PROVE  (IF buf.count < N THEN k - 1 ELSE (buf.index + (k - 1)) % N) \in Slot
  <2>1. buf.index + (k - 1) \in 0 .. 2 * N - 1
    BY <1>1, <1>2, RingAssumption
  <2>2. ASSUME NEW a \in 0 .. 2 * N - 1
        PROVE  a % N \in 0 .. N - 1
    BY RingAssumption
  <2> DEFINE wrapped == (buf.index + (k - 1)) % N
  <2>3. wrapped \in Slot
    BY <2>1, <2>2 DEF Slot
  <2>4. buf.count < N => k - 1 \in Slot
    BY <1>1, <1>2, RingAssumption DEF Slot
  <2> HIDE DEF wrapped
  <2>5. (IF buf.count < N THEN k - 1 ELSE wrapped) \in Slot
    BY <2>3, <2>4
  <2>6. QED
    BY <2>5 DEF wrapped
<1>3. Held(buf) \in [1 .. buf.count -> Sample]
  BY <1>1, <1>2 DEF Held
<1>4. QED
  BY <1>1, <1>3, RingAssumption

\* A push slides the window: the oldest sample leaves a full ring, and the new
\* one comes last.
LEMMA PushSlides ==
  ASSUME NEW buf \in Ring, NEW x \in Sample,
         buf.count < N => buf.index = buf.count
  PROVE  Held(PushSample(buf, x)) = Window!Slide(Held(buf), x)
<1> DEFINE new == PushSample(buf, x)
           old == Held(buf)
           kept == IF Len(old) = N THEN Tail(old) ELSE old
           slid == Append(kept, x)
<1>1. /\ buf.samples \in [Slot -> Sample]
      /\ buf.index \in 0 .. N - 1 /\ buf.count \in 0 .. N
  BY DEF Ring, Slot
<1>2. /\ new \in Ring
      /\ new.index = IF buf.index + 1 < N THEN buf.index + 1 ELSE 0
      /\ new.count = IF buf.count < N THEN buf.count + 1 ELSE N
      /\ new.count < N => new.index = new.count
      /\ new.samples = [buf.samples EXCEPT ![buf.index] = x]
  <2>1. new.samples = [buf.samples EXCEPT ![buf.index] = x]
    BY DEF PushSample
  <2>2. QED
    BY <2>1, PushKeepsRing
<1>3. old \in Seq(Sample) /\ Len(old) = buf.count
  BY HeldIsSeq
<1>4. Held(new) \in Seq(Sample) /\ Len(Held(new)) = new.count
  BY <1>2, HeldIsSeq
<1>5. /\ kept \in Seq(Sample)
      /\ Len(kept) = IF buf.count = N THEN N - 1 ELSE buf.count
  BY <1>1, <1>3, RingAssumption
<1>6. slid \in Seq(Sample) /\ Len(slid) = Len(kept) + 1
  BY <1>5
<1>7. Len(slid) = new.count
  BY <1>1, <1>2, <1>5, <1>6, RingAssumption
<1>8. ASSUME NEW k \in 1 .. new.count
      PROVE  Held(new)[k] = slid[k]
  <2>1. Held(new)[k] = new.samples[IF new.count < N THEN k - 1
                                   ELSE (new.index + (k - 1)) % N]
    BY <1>8 DEF Held
  <2>2. CASE buf.count < N
    <3>1. new.count < N => Held(new)[k] = new.samples[k - 1]
      BY <2>1
    <3>2. new.count = N => new.index = 0
      BY <1>1, <1>2, <2>2, RingAssumption
    <3>3. new.count = N => (new.index + (k - 1)) % N = k - 1
      BY <1>8, <3>2, WrapOnce, RingAssumption
    <3>4. Held(new)[k] = new.samples[k - 1]
      BY <1>1, <1>2, <2>1, <3>1, <3>3, RingAssumption
    <3>5. CASE k = buf.count + 1
      <4>1. k - 1 = buf.index
        BY <2>2, <3>5, <1>1
      <4>2. Held(new)[k] = x
        BY <1>1, <1>2, <3>4, <4>1 DEF Slot
      <4>3. slid[k] = x
        BY <1>1, <1>3, <1>5, <2>2, <3>5, RingAssumption
      <4>4. QED
        BY <4>2, <4>3
    <3>6. CASE k # buf.count + 1
      <4>1. k \in 1 .. buf.count /\ k - 1 \in Slot /\ k - 1 # buf.index
        BY <1>1, <1>2, <1>8, <2>2, <3>6, RingAssumption DEF Slot
      <4>2. Held(new)[k] = buf.samples[k - 1]
        BY <1>1, <1>2, <3>4, <4>1
      <4>3. old[k] = buf.samples[k - 1]
        BY <2>2, <4>1 DEF Held
      <4>4. slid[k] = old[k]
        BY <1>1, <1>3, <1>5, <2>2, <4>1, RingAssumption
      <4>5. QED
        BY <4>2, <4>3, <4>4
    <3>7. QED
      BY <3>5, <3>6
  <2>3. CASE buf.count = N
    <3>1. new.count = N /\ k \in 1 .. N
      BY <1>1, <1>2, <1>8, <2>3, RingAssumption
    <3>2. Held(new)[k] = new.samples[(new.index + (k - 1)) % N]
      BY <2>1, <3>1, RingAssumption
    <3>3. new.index \in 0 .. N - 1
      BY <1>2 DEF Ring, Slot
    <3>4. (new.index + (k - 1)) % N =
            IF new.index + (k - 1) < N THEN new.index + (k - 1)
            ELSE new.index + (k - 1) - N
      BY <3>1, <3>3, WrapOnce, RingAssumption
    <3>5. CASE k = N
      <4>1. (new.index + (k - 1)) % N = buf.index
        BY <1>1, <1>2, <3>4, <3>5, RingAssumption
      <4>2. Held(new)[k] = x
        BY <1>1, <1>2, <3>2, <4>1 DEF Slot
      <4>3. slid[k] = x
        BY <1>3, <1>5, <2>3, <3>5, RingAssumption
      <4>4. QED
        BY <4>2, <4>3
    <3>6. CASE k # N
      <4>1. k \in 1 .. N - 1 /\ k + 1 \in 1 .. N
        BY <3>1, <3>6, RingAssumption
      <4>2. (buf.index + k) % N = IF buf.index + k < N THEN buf.index + k
                                  ELSE buf.index + k - N
        BY <1>1, <4>1, WrapOnce, RingAssumption
      <4>3. (new.index + (k - 1)) % N = (buf.index + k) % N
        BY <1>1, <1>2, <3>4, <4>1, <4>2, RingAssumption
      <4>4. (buf.index + k) % N \in Slot /\ (buf.index + k) % N # buf.index
        <5>1. ASSUME NEW pos,
                     pos = IF buf.index + k < N THEN buf.index + k
                           ELSE buf.index + k - N
              PROVE  pos \in Slot /\ pos # buf.index
          BY <1>1, <4>1, <5>1, RingAssumption DEF Slot
        <5>2. QED
          BY <4>2, <5>1
      <4>5. Held(new)[k] = buf.samples[(buf.index + k) % N]
        BY <1>1, <1>2, <3>2, <4>3, <4>4
      <4>6. old[k + 1] = buf.samples[(buf.index + ((k + 1) - 1)) % N]
        BY <2>3, <4>1, RingAssumption DEF Held
      <4>7. (k + 1) - 1 = k
        BY <4>1
      <4>8. slid[k] = old[k + 1]
        BY <1>3, <1>5, <2>3, <4>1, RingAssumption
      <4>9. QED
        BY <4>5, <4>6, <4>7, <4>8
    <3>7. QED
      BY <3>5, <3>6
  <2>4. buf.count < N \/ buf.count = N
    BY <1>1, RingAssumption
  <2>5. QED
    BY <2>2, <2>3, <2>4
<1>9. Held(new) = slid
  BY <1>4, <1>6, <1>7, <1>8, SeqEqual
<1>10. QED
  BY <1>9 DEF Window!Slide

\* A processed payload keeps every ring well formed.
LEMMA RingStep ==
  ASSUME TypeOK, NEW x \in Payload, ProcessSample(x)
  PROVE  TypeOK'
<1>1. ASSUME NEW c \in Channel
      PROVE  /\ buffers'[c] \in Ring
             /\ buffers'[c].count < N => buffers'[c].index = buffers'[c].count
  <2>1. /\ buffers[c] \in Ring /\ x[c] \in Sample
        /\ buffers[c].count < N => buffers[c].index = buffers[c].count
    BY <1>1 DEF TypeOK, Payload
  <2>2. buffers'[c] = PushSample(buffers[c], x[c])
    BY <1>1 DEF ProcessSample
  <2>3. QED
    BY <2>1, <2>2, PushKeepsRing
<1>2. buffers' \in [Channel -> Ring]
  BY <1>1 DEF ProcessSample
<1>3. QED
  BY <1>1, <1>2 DEF TypeOK

\* The rings stay well formed, and one that is still filling holds its samples
\* in the slots below its index.
THEOREM TypeCorrect == Spec => []TypeOK
<1>1. Init => TypeOK
  BY RingAssumption, SampleAssumption
     DEF Init, TypeOK, EmptyRing, Ring, Slot
<1>2. TypeOK /\ [Next]_vars => TypeOK'
  <2> SUFFICES ASSUME TypeOK, [Next]_vars
               PROVE  TypeOK'
    OBVIOUS
  <2>1. ASSUME NEW x \in Payload, ProcessSample(x)
        PROVE  TypeOK'
    BY <2>1, RingStep
  <2>2. CASE UNCHANGED vars
    BY <2>2 DEF vars, TypeOK
  <2>3. QED
    BY <2>1, <2>2 DEF Next
<1>3. QED
  BY <1>1, <1>2, PTL DEF Spec

\* One payload is one call of the sliding window.
LEMMA ProcessSampleIsCall ==
  ASSUME TypeOK, NEW x \in Payload, ProcessSample(x)
  PROVE  Window!Call(x)
<1>1. ASSUME NEW c \in Channel
      PROVE  /\ Held(buffers'[c]) = Window!Slide(Held(buffers[c]), x[c])
             /\ Len(Held(buffers'[c])) = buffers'[c].count
             /\ out_frame'[c] = IF Len(Held(buffers'[c])) = N
                                THEN Held(buffers'[c]) ELSE <<x[c]>>
  <2>1. /\ buffers[c] \in Ring /\ x[c] \in Sample
        /\ buffers[c].count < N => buffers[c].index = buffers[c].count
    BY <1>1 DEF TypeOK, Payload
  <2>2. buffers'[c] = PushSample(buffers[c], x[c])
    BY <1>1 DEF ProcessSample
  <2>3. Held(buffers'[c]) = Window!Slide(Held(buffers[c]), x[c])
    BY <2>1, <2>2, PushSlides
  <2>4. /\ buffers'[c] \in Ring /\ buffers'[c].count \in 0 .. N
        /\ buffers'[c].count < N => buffers'[c].index = buffers'[c].count
    BY <1>1, RingStep DEF TypeOK, Ring
  <2>5. Len(Held(buffers'[c])) = buffers'[c].count
    BY <2>4, HeldIsSeq
  <2>6. out_frame'[c] = IF buffers'[c].count >= N THEN PhasorFrom(buffers'[c])
                        ELSE <<x[c]>>
    BY <1>1 DEF ProcessSample
  <2>7. buffers'[c].count >= N <=> buffers'[c].count = N
    BY <2>4, RingAssumption
  <2>8. buffers'[c].count = N => PhasorFrom(buffers'[c]) = Held(buffers'[c])
    BY <2>4, FullRingHeld
  <2>9. QED
    BY <2>3, <2>5, <2>6, <2>7, <2>8
<1>2. out_frame' = [c \in Channel |-> out_frame'[c]]
  BY DEF ProcessSample
<1>3. QED
  BY <1>1, <1>2 DEF Window!Call

\* The measurement layer implements the sliding window: after any number of
\* payloads the DFT of every channel is fed the last N samples, oldest first.
THEOREM RingsImplementWindow == Spec => SlidesWindow
<1>1. Init => Window!Init
  <2> SUFFICES ASSUME Init
               PROVE  Window!Init
    OBVIOUS
  <2>1. ASSUME NEW c \in Channel
        PROVE  Held(buffers[c]) = <<>>
    BY <2>1, RingAssumption DEF Init, EmptyRing, Held
  <2>2. QED
    BY <2>1 DEF Init, Window!Init
<1>2. TypeOK /\ [Next]_vars
        => [Window!Next]_<<[c \in Channel |-> Held(buffers[c])], out_frame>>
  <2> SUFFICES ASSUME TypeOK, [Next]_vars
               PROVE  [Window!Next]_<<[c \in Channel |-> Held(buffers[c])], out_frame>>
    OBVIOUS
  <2>1. ASSUME NEW x \in Payload, ProcessSample(x)
        PROVE  Window!Next
    BY <2>1, ProcessSampleIsCall DEF Window!Next, Payload
  <2>2. CASE UNCHANGED vars
    BY <2>2 DEF vars
  <2>3. QED
    BY <2>1, <2>2 DEF Next
<1>3. QED
  BY <1>1, <1>2, TypeCorrect, PTL DEF Spec, SlidesWindow, Window!Spec
=============================================================================

--------------------------- MODULE HotPathProofs ---------------------------
(***************************************************************************)
(* Proofs about the round trip, for every set of repliers, every number of *)
(* frames, every clock and every combination of disturbances; and, in the  *)
(* second half, about a series of sessions, for any number of restarts of  *)
(* any program in any order, with frames of earlier sessions still queued. *)
(***************************************************************************)
EXTENDS HotRestart, FiniteSetTheorems, TLAPS

-----------------------------------------------------------------------------
(* Type correctness *)

\* hot_sender's loop variable while it can still send.
SenderInv == /\ sPc = "ready" => iteration = 0
             /\ sPc = "send" => iteration \in Sent

\* The inductive type invariant.
TypeInv == TypeOK /\ SenderInv

\* A frame that passed a length check came from one of the programs.
LEMMA LongFrame ==
  ASSUME NEW m \in Message, ~m.frame.short
  PROVE  /\ m.frame \in Frame
         /\ m.frame.frame_id \in Sent /\ m.frame.timestamp \in Time
         /\ m.frame.src \in Station
  BY NoiseAssumption DEF Message, Frame

\* A transmission leaves messages in the sockets.
LEMMA TransmitType ==
  ASSUME NEW box \in [Station -> SUBSET Message], NEW from \in Station,
         NEW f \in Frame, Transmit(box, from, f)
  PROVE  inbox' \in [Station -> SUBSET Message]
<1>1. PICK reached \in SUBSET (Open \ {from}),
           copied \in SUBSET {s \in {from} : SeesOutgoing(s)} :
             inbox' = Delivered(box, f, reached, copied)
  BY DEF Transmit
<1>2. /\ [frame |-> f, outgoing |-> FALSE] \in Message
      /\ [frame |-> f, outgoing |-> TRUE] \in Message
  BY DEF Message
<1>3. QED
  BY <1>1, <1>2 DEF Delivered

\* Taking a frame out of a socket leaves messages in it.
LEMMA TakenType ==
  ASSUME inbox \in [Station -> SUBSET Message], NEW s \in Station, NEW m
  PROVE  Taken(s, m) \in [Station -> SUBSET Message]
  BY DEF Taken

\* The table is finite, and no larger than it was made.
LEMMA ValidIsFinite ==
  /\ IsFiniteSet(FrameId) /\ Cardinality(FrameId) = Expected
  /\ IsFiniteSet(Valid) /\ Cardinality(Valid) \in Nat
  /\ Cardinality(Valid) <= Expected
  /\ Cardinality(Valid) = Expected => Valid = FrameId
<1>1. IsFiniteSet(FrameId) /\ Cardinality(FrameId) = Expected
  BY FS_Interval, SizeAssumption DEF FrameId
<1>2. Valid \subseteq FrameId
  BY DEF Valid
<1>3. /\ IsFiniteSet(Valid) /\ Cardinality(Valid) <= Cardinality(FrameId)
      /\ Cardinality(Valid) = Cardinality(FrameId) => Valid = FrameId
  BY <1>1, <1>2, FS_Subset
<1>4. QED
  BY <1>1, <1>3, FS_CardinalityType

\* Nothing has been sent, taken or recorded.
LEMMA TypeInit ==
  ASSUME Init
  PROVE  TypeInv
  BY SizeAssumption, ClockAssumption
     DEF Init, TypeInv, TypeOK, SenderInv, NoResults

\* hot_sender's actions: the loop counter stays below <iterations> in the loop.
LEMMA TypeSender ==
  ASSUME TypeInv, SenderNext
  PROVE  TypeInv'
<1> USE SizeAssumption, ClockAssumption
    DEF TypeInv, TypeOK, SenderInv, replierVars, receiverVars, logVars
<1>1. ASSUME SenderStart PROVE TypeInv'
  BY <1>1 DEF SenderStart, Sent
<1>2. ASSUME SendOnePacket PROVE TypeInv'
  <2>1. CurrentFrame \in Frame
    BY <1>2, StationAssumption DEF SendOnePacket, CurrentFrame, SvFrame, Frame, Station
  <2>2. inbox' \in [Station -> SUBSET Message]
    BY <1>2, <2>1, TransmitType DEF SendOnePacket, Station
  <2>3. waitUntil' \in Nat
    BY <1>2 DEF SendOnePacket
  <2>4. stamped' \in [Sent -> Time \cup {-1}]
    BY <1>2 DEF SendOnePacket
  <2>5. QED
    BY <1>2, <2>2, <2>3, <2>4 DEF SendOnePacket
<1>3. ASSUME SendFails PROVE TypeInv'
  BY <1>3 DEF SendFails
<1>4. ASSUME BusyWaitEnds PROVE TypeInv'
  BY <1>4 DEF BusyWaitEnds, Sent
<1>5. QED
  BY <1>1, <1>2, <1>3, <1>4 DEF SenderNext

\* A replier's actions: what it puts on the wire is a frame of a station.
LEMMA TypeReplier ==
  ASSUME TypeInv, NEW r \in Replier, ReplierNext(r)
  PROVE  TypeInv'
<1> USE DEF TypeInv, TypeOK, SenderInv, senderVars, receiverVars, logVars
<1>1. r \in Station
  BY DEF Station
<1>2. ASSUME ReplierReady(r) PROVE TypeInv'
  BY <1>2 DEF ReplierReady
<1>3. ASSUME ReplierRecvFails(r) PROVE TypeInv'
  BY <1>3 DEF ReplierRecvFails
<1>4. ASSUME NEW m \in inbox[r], ReplierIgnores(r, m) PROVE TypeInv'
  BY <1>4, <1>1, TakenType DEF ReplierIgnores, replierVars
<1>5. ASSUME NEW m \in inbox[r], ForUs(r, m.frame) PROVE
        /\ m.frame \in Frame /\ Echo(r, m.frame) \in Frame
        /\ m.frame.frame_id \in Sent
        /\ Taken(r, m) \in [Station -> SUBSET Message]
  <2>1. m \in Message
    BY <1>1
  <2>2. m.frame \in Frame
    BY <2>1, <1>5, LongFrame DEF ForUs
  <2>3. Echo(r, m.frame) \in Frame
    BY <2>2, <1>1 DEF Echo, Frame
  <2>4. m.frame.frame_id \in Sent
    BY <2>2 DEF Frame
  <2>5. QED
    BY <2>2, <2>3, <2>4, <1>1, TakenType
<1>6. ASSUME NEW m \in inbox[r], ReplierEchoes(r, m) PROVE TypeInv'
  <2>1. inbox' \in [Station -> SUBSET Message]
    BY <1>1, <1>5, <1>6, TransmitType DEF ReplierEchoes
  <2>2. steps' \in [Replier -> [Sent -> Nat]]
    BY <1>5, <1>6 DEF ReplierEchoes, StepProtection
  <2>3. QED
    BY <1>6, <2>1, <2>2 DEF ReplierEchoes
<1>7. ASSUME NEW m \in inbox[r], ReplierSendFails(r, m) PROVE TypeInv'
  <2>1. steps' \in [Replier -> [Sent -> Nat]]
    BY <1>5, <1>7 DEF ReplierSendFails, StepProtection
  <2>2. QED
    BY <1>5, <1>7, <2>1 DEF ReplierSendFails
<1>8. QED
  BY <1>2, <1>3, <1>4, <1>6, <1>7 DEF ReplierNext

\* hot_receiver's actions: it writes one slot of its table, or its report.
LEMMA TypeReceiver ==
  ASSUME TypeInv, ReceiverNext
  PROVE  TypeInv'
<1> USE DEF TypeInv, TypeOK, SenderInv, senderVars, replierVars, logVars
<1>1. Tester \in Station
  BY DEF Station
<1>2. ASSUME ReceiverReady PROVE TypeInv'
  BY <1>2 DEF ReceiverReady
<1>3. ASSUME PressEnter PROVE TypeInv'
  BY <1>3 DEF PressEnter
<1>4. ASSUME ReceiverLoopEnds PROVE TypeInv'
  BY <1>4 DEF ReceiverLoopEnds
<1>5. ASSUME ReceiverFails PROVE TypeInv'
  BY <1>5, <1>1 DEF ReceiverFails
<1>6. ASSUME WriteResults PROVE TypeInv'
  <2>1. results'.received \in Nat /\ results'.missing \in Nat
    BY <1>6, ValidIsFinite, SizeAssumption DEF WriteResults, NoResults
  <2>2. QED
    BY <1>6, <1>1, <2>1 DEF WriteResults
<1>7. ASSUME NEW m \in inbox[Tester], ReceiverSkips(m) PROVE TypeInv'
  BY <1>7, <1>1, TakenType DEF ReceiverSkips, receiverVars
<1>8. ASSUME NEW m \in inbox[Tester], ReceiverRecords(m) PROVE TypeInv'
  <2>1. m.frame.frame_id \in FrameId /\ m.frame.timestamp \in Time
    BY <1>8, <1>1, LongFrame, SizeAssumption
       DEF ReceiverRecords, Wanted, FrameId, Sent
  <2>2. /\ send_ts_ns' \in [FrameId -> Time]
        /\ recv_ts_ns' \in [FrameId -> Time]
        /\ is_missing' \in [FrameId -> {0, 1}]
    BY <1>8, <2>1 DEF ReceiverRecords
  <2>3. QED
    BY <1>8, <1>1, <2>2, TakenType DEF ReceiverRecords
<1>9. QED
  BY <1>2, <1>3, <1>4, <1>5, <1>6, <1>7, <1>8 DEF ReceiverNext

\* Time passes, or a short frame arrives.
LEMMA TypeEnvironment ==
  ASSUME TypeInv, Tick \/ ForeignFrame
  PROVE  TypeInv'
<1> USE DEF TypeInv, TypeOK, SenderInv, senderVars, replierVars,
            receiverVars, logVars
<1>1. ASSUME Tick PROVE TypeInv'
  BY <1>1 DEF Tick
<1>2. ASSUME ForeignFrame PROVE TypeInv'
  <2>1. PICK f \in Noise, s \in Open :
          inbox' = [inbox EXCEPT ![s] = @ \cup {[frame |-> f, outgoing |-> FALSE]}]
    BY <1>2 DEF ForeignFrame
  <2>2. [frame |-> f, outgoing |-> FALSE] \in Message
    BY DEF Message
  <2>3. inbox' \in [Station -> SUBSET Message]
    BY <2>1, <2>2
  <2>4. QED
    BY <1>2, <2>3 DEF ForeignFrame
<1>3. QED
  BY <1>1, <1>2

\* The type invariant is inductive.
LEMMA TypeInductive ==
  ASSUME TypeInv, [Next]_vars
  PROVE  TypeInv'
<1>1. CASE UNCHANGED vars
  BY <1>1 DEF vars, senderVars, replierVars, receiverVars, logVars,
              TypeInv, TypeOK, SenderInv
<1>2. CASE Next
  BY <1>2, TypeSender, TypeReplier, TypeReceiver, TypeEnvironment DEF Next
<1>3. QED
  BY <1>1, <1>2

\* The type invariant, for every network and every session: the receiver only
\* ever writes slots its tables have, and the replier steps frames that exist.
THEOREM TypeCorrect == Spec => []TypeOK
<1>1. Init => TypeInv
  BY TypeInit
<1>2. TypeInv /\ [Next]_vars => TypeInv'
  BY TypeInductive
<1>3. TypeInv => TypeOK
  BY DEF TypeInv
<1>4. QED
  BY <1>1, <1>2, <1>3, PTL DEF Spec

-----------------------------------------------------------------------------
(* Loop control of the receiver *)

\* The counter counts filled slots, and a loop that Enter did not end ran
\* until the counter reached the table's size.
CountInv == /\ CountMatchesLog
            /\ xPc \in {"write", "done"} /\ ~stdinReady =>
                 packet_count = Expected

\* The receiver counts a slot exactly when it fills one.
LEMMA ReceiverCounts ==
  ASSUME TypeInv, CountInv, ReceiverNext
  PROVE  CountInv'
<1> USE DEF CountInv, CountMatchesLog
<1>1. CASE ReceiverReady
  BY <1>1 DEF ReceiverReady, Valid, logVars
<1>2. CASE PressEnter
  BY <1>2 DEF PressEnter, Valid, logVars
<1>3. CASE ReceiverLoopEnds
  BY <1>3 DEF ReceiverLoopEnds, LoopOver, Valid, logVars
<1>4. CASE ReceiverFails
  BY <1>4 DEF ReceiverFails, Valid, logVars
<1>5. CASE WriteResults
  BY <1>5 DEF WriteResults, Valid, logVars
<1>6. ASSUME NEW m \in inbox[Tester], ReceiverSkips(m) PROVE CountInv'
  BY <1>6 DEF ReceiverSkips, receiverVars, Valid, logVars
<1>7. ASSUME NEW m \in inbox[Tester], ReceiverRecords(m) PROVE CountInv'
  <2> DEFINE i == m.frame.frame_id
  <2>1. i \in FrameId /\ i \notin Valid
    BY <1>7, LongFrame, SizeAssumption
       DEF ReceiverRecords, Wanted, FrameId, Sent, TypeInv, TypeOK, Station, Valid
  <2>2. Valid' = Valid \cup {i}
    BY <1>7, <2>1 DEF ReceiverRecords, Valid, TypeInv, TypeOK
  <2>3. Cardinality(Valid') = Cardinality(Valid) + 1
    BY <2>1, <2>2, ValidIsFinite, FS_AddElement
  <2>4. QED
    BY <1>7, <2>3 DEF ReceiverRecords, Receiving
<1>8. QED
  BY <1>1, <1>2, <1>3, <1>4, <1>5, <1>6, <1>7 DEF ReceiverNext

\* Only hot_receiver's own actions touch its state.
LEMMA OthersLeaveReceiver ==
  ASSUME Tick \/ ForeignFrame \/ SenderNext \/ \E r \in Replier : ReplierNext(r)
  PROVE  UNCHANGED receiverVars
  BY DEF Tick, ForeignFrame, SenderNext, SenderStart, SendOnePacket, SendFails,
         BusyWaitEnds, ReplierNext, ReplierReady, ReplierRecvFails,
         ReplierIgnores, ReplierEchoes, ReplierSendFails

\* No step of anyone disturbs the receiver's count.
LEMMA CountInductive ==
  ASSUME TypeInv, CountInv, [Next]_vars
  PROVE  CountInv'
<1>1. CASE UNCHANGED receiverVars
  BY <1>1 DEF CountInv, CountMatchesLog, Valid, receiverVars, logVars
<1>2. CASE ReceiverNext
  BY <1>2, ReceiverCounts
<1>3. QED
  BY <1>1, <1>2, OthersLeaveReceiver DEF Next, vars

\* packet_count is the number of filled slots, in every session with any
\* number of repliers; so the loop's bound never cuts a session short.
THEOREM LoopControl == Spec => [](CountMatchesLog /\ NeverStopsShort)
<1> DEFINE Inv == TypeInv /\ CountInv
<1>1. Init => Inv
  <2> SUFFICES ASSUME Init PROVE CountInv
    BY TypeInit
  <2>1. Valid = {}
    BY DEF Init, Valid
  <2>2. QED
    BY <2>1, FS_EmptySet DEF Init, CountInv, CountMatchesLog
<1>2. Inv /\ [Next]_vars => Inv'
  BY CountInductive, TypeInductive
<1>3. Inv => CountMatchesLog /\ NeverStopsShort
  BY ValidIsFinite DEF CountInv, CountMatchesLog, NeverStopsShort
<1>4. QED
  BY <1>1, <1>2, <1>3, PTL DEF Spec

-----------------------------------------------------------------------------
(* Where frames can be, and what they say *)

\* A frame hot_sender sent: a replier that still holds it has not stepped its
\* protection on it, and on the tester's socket it is marked outgoing.
Original(s, m) ==
  /\ m.frame.src = Tester /\ m.frame.dst = DestMac
  /\ m.outgoing = (s = Tester)
  /\ s \in Replier => steps[s][m.frame.frame_id] = 0

\* The echo of a replier that has stepped its protection on the frame.
Reply(s, m) ==
  /\ m.frame.src \in Replier /\ m.frame.dst = Tester
  /\ s = Tester => ~m.outgoing
  /\ steps[m.frame.src][m.frame.frame_id] > 0

\* A frame that passes the length checks carries the time it was stamped.
MessageInv ==
  \A s \in Station : \A m \in inbox[s] :
    ~m.frame.short => /\ m.frame.timestamp = stamped[m.frame.frame_id]
                      /\ Original(s, m) \/ Reply(s, m)

\* Ids are stamped in order, once, at or before the present; protection runs
\* at most once on a stamped frame and never on another.
StampInv ==
  \A i \in Sent :
    /\ sPc \in {"ready", "send"} /\ i >= iteration => stamped[i] = -1
    /\ i > iteration => stamped[i] = -1
    /\ stamped[i] <= clock
    /\ \A r \in Replier : /\ steps[r][i] <= 1
                          /\ stamped[i] = -1 => steps[r][i] = 0

\* The inductive invariant about what is on the wire.
TrafficInv == MessageInv /\ StampInv

\* A socket holds at most one original of each id, so a replier that takes it
\* is left with none.
LEMMA OriginalIsUnique ==
  ASSUME TypeInv, TrafficInv, NEW s \in Station,
         NEW m \in inbox[s], NEW n \in inbox[s],
         ~m.frame.short, ~n.frame.short, Original(s, m), Original(s, n),
         m.frame.frame_id = n.frame.frame_id
  PROVE  m = n
<1>1. m \in Message /\ n \in Message
  BY DEF TypeInv, TypeOK
<1>2. m.frame \in Frame /\ n.frame \in Frame
  BY <1>1, LongFrame
<1>3. /\ m.frame.dst = n.frame.dst /\ m.frame.src = n.frame.src
      /\ m.frame.timestamp = n.frame.timestamp
  BY DEF Original, TrafficInv, MessageInv
<1>4. m.frame = n.frame
  <2> DEFINE Same(f) ==
        f = [dst |-> f.dst, src |-> f.src, frame_id |-> f.frame_id,
             timestamp |-> f.timestamp, short |-> f.short]
  <2>1. Same(m.frame) /\ Same(n.frame)
    BY <1>2 DEF Frame
  <2>2. m.frame.short = n.frame.short
    BY <1>2 DEF Frame
  <2>3. QED
    BY <1>3, <2>1, <2>2
<1>5. m.outgoing = n.outgoing
  BY DEF Original
<1>6. QED
  BY <1>1, <1>4, <1>5 DEF Message

\* What Transmit can put into a socket.
LEMMA TransmitHolds ==
  ASSUME NEW box \in [Station -> SUBSET Message], NEW from \in Station, NEW f,
         Transmit(box, from, f), NEW s \in Station, NEW m \in inbox'[s]
  PROVE  \/ m \in box[s]
         \/ m = [frame |-> f, outgoing |-> (s = from)]
<1>1. PICK reached \in SUBSET (Open \ {from}),
           copied \in SUBSET {t \in {from} : SeesOutgoing(t)} :
             inbox' = Delivered(box, f, reached, copied)
  BY DEF Transmit
<1>2. inbox'[s] = box[s]
        \cup (IF s \in reached THEN {[frame |-> f, outgoing |-> FALSE]} ELSE {})
        \cup (IF s \in copied THEN {[frame |-> f, outgoing |-> TRUE]} ELSE {})
  BY <1>1 DEF Delivered
<1>3. /\ s \in reached => (s = from) = FALSE
      /\ s \in copied => (s = from) = TRUE
  BY <1>1
<1>4. QED
  BY <1>2, <1>3

\* The sender adds originals with fresh ids, stamped now.
LEMMA TrafficSender ==
  ASSUME TypeInv, TrafficInv, SenderNext
  PROVE  TrafficInv'
<1> USE ClockAssumption DEF TypeInv, TypeOK, SenderInv, replierVars
<1>1. CASE SenderStart
  BY <1>1 DEF SenderStart, TrafficInv, MessageInv, StampInv, Original, Reply, Sent
<1>2. CASE SendFails
  BY <1>2 DEF SendFails, TrafficInv, MessageInv, StampInv, Original, Reply, Sent
<1>3. CASE BusyWaitEnds
  BY <1>3, SizeAssumption
     DEF BusyWaitEnds, TrafficInv, MessageInv, StampInv, Original, Reply, Sent
<1>4. CASE SendOnePacket
  <2>1. /\ iteration \in Sent /\ stamped[iteration] = -1
        /\ stamped' = [stamped EXCEPT ![iteration] = clock]
        /\ steps' = steps /\ clock' = clock /\ iteration' = iteration
        /\ sPc' = "busy_wait"
        /\ Transmit(inbox, Tester, CurrentFrame)
    BY <1>4 DEF SendOnePacket, TrafficInv, StampInv, Sent
  <2>2. StampInv'
    BY <2>1 DEF TrafficInv, StampInv, Sent
  <2>3. ASSUME NEW s \in Station, NEW m \in inbox[s], ~m.frame.short
        PROVE  m.frame.frame_id # iteration /\ m.frame.frame_id \in Sent
    <3>1. m \in Message
      OBVIOUS
    <3>2. m.frame.frame_id \in Sent /\ m.frame.timestamp \in Time
      BY <3>1, <2>3, LongFrame
    <3>3. m.frame.timestamp = stamped[m.frame.frame_id]
      BY <2>3 DEF TrafficInv, MessageInv
    <3>4. QED
      BY <3>2, <3>3, <2>1
  <2>4. ASSUME NEW s \in Station, NEW m \in inbox'[s], ~m.frame.short
        PROVE  /\ m.frame.timestamp = stamped'[m.frame.frame_id]
               /\ Original(s, m)' \/ Reply(s, m)'
    <3>1. CASE m \in inbox[s]
      <4>1. stamped'[m.frame.frame_id] = stamped[m.frame.frame_id]
        BY <3>1, <2>1, <2>3, <2>4
      <4>2. QED
        BY <3>1, <2>1, <2>4, <4>1
           DEF TrafficInv, MessageInv, Original, Reply
    <3>2. CASE m = [frame |-> CurrentFrame, outgoing |-> (s = Tester)]
      <4>1. \A r \in Replier : steps[r][iteration] = 0
        BY <2>1 DEF TrafficInv, StampInv
      <4>2. QED
        BY <3>2, <4>1, <2>1 DEF CurrentFrame, SvFrame, Original
    <3>3. QED
      BY <3>1, <3>2, <2>1, TransmitHolds DEF Station
  <2>5. MessageInv'
    BY <2>4 DEF MessageInv
  <2>6. QED
    BY <2>2, <2>5 DEF TrafficInv
<1>5. QED
  BY <1>1, <1>2, <1>3, <1>4 DEF SenderNext

\* Sockets that only lose frames keep the invariant.
LEMMA TrafficDrains ==
  ASSUME TrafficInv, UNCHANGED <<senderVars, steps, clock>>,
         \A s \in Station : inbox'[s] \subseteq inbox[s]
  PROVE  TrafficInv'
  BY DEF TrafficInv, MessageInv, StampInv, Original, Reply, senderVars

\* A replier that steps its protection takes the only original of that id:
\* what any socket still holds stays as the invariant says.
LEMMA TrafficStep ==
  ASSUME TypeInv, TrafficInv, NEW r \in Replier, NEW m \in inbox[r],
         ForUs(r, m.frame), StepProtection(r, m.frame),
         UNCHANGED <<senderVars, clock>>
  PROVE  /\ StampInv'
         /\ m.frame.timestamp = stamped[m.frame.frame_id]
         /\ m.frame.src = Tester
         /\ steps'[r][m.frame.frame_id] > 0
         /\ \A s \in Station : \A n \in Taken(r, m)[s] :
              ~n.frame.short => /\ n.frame.timestamp = stamped[n.frame.frame_id]
                                /\ Original(s, n)' \/ Reply(s, n)'
<1> DEFINE k == m.frame.frame_id
<1> USE DEF TypeInv, TypeOK
<1>1. r \in Station /\ r # Tester /\ m \in Message
  BY StationAssumption DEF Station
<1>2. ~m.frame.short /\ k \in Sent /\ m.frame.timestamp \in Time
  BY <1>1, LongFrame DEF ForUs
<1>3. Original(r, m) /\ m.frame.timestamp = stamped[k]
  BY <1>1, <1>2, StationAssumption DEF TrafficInv, MessageInv, Reply, ForUs
<1>4. steps[r][k] = 0 /\ stamped[k] # -1
  BY <1>2, <1>3, ClockAssumption DEF Original
<1>5. /\ steps' \in [Replier -> [Sent -> Nat]]
      /\ steps'[r][k] = 1
      /\ \A q \in Replier, i \in Sent :
           q # r \/ i # k => steps'[q][i] = steps[q][i]
  BY <1>2, <1>4 DEF StepProtection
<1>6. StampInv'
  BY <1>4, <1>5 DEF TrafficInv, StampInv, senderVars
<1>7. ASSUME NEW s \in Station, NEW n \in Taken(r, m)[s], ~n.frame.short
      PROVE  /\ n.frame.timestamp = stamped[n.frame.frame_id]
             /\ Original(s, n)' \/ Reply(s, n)'
  <2>1. n \in inbox[s] /\ (s = r => n # m)
    BY <1>1 DEF Taken
  <2>2. n.frame.frame_id \in Sent
    BY <2>1, <1>7, LongFrame
  <2>3. CASE Original(s, n)
    <3>1. ~(s = r /\ n.frame.frame_id = k)
      BY <2>1, <2>3, <1>2, <1>3, <1>7, OriginalIsUnique
    <3>2. s \in Replier => steps'[s][n.frame.frame_id] = 0
      BY <3>1, <2>2, <2>3, <1>5 DEF Original
    <3>3. QED
      BY <3>2, <2>1, <2>3, <1>7 DEF Original, TrafficInv, MessageInv
  <2>4. CASE Reply(s, n)
    <3>1. steps'[n.frame.src][n.frame.frame_id] > 0
      <4>1. CASE n.frame.src = r /\ n.frame.frame_id = k
        BY <4>1, <1>5
      <4>2. CASE ~(n.frame.src = r /\ n.frame.frame_id = k)
        BY <4>2, <2>2, <2>4, <1>5 DEF Reply
      <4>3. QED
        BY <4>1, <4>2
    <3>2. QED
      BY <3>1, <2>1, <2>4, <1>7 DEF Reply, TrafficInv, MessageInv
  <2>5. QED
    BY <2>1, <2>3, <2>4, <1>7 DEF TrafficInv, MessageInv
<1>8. QED
  BY <1>3, <1>5, <1>6, <1>7 DEF Original

\* A replier turns an original it holds into a reply, once.
LEMMA TrafficReplier ==
  ASSUME TypeInv, TrafficInv, NEW r \in Replier, ReplierNext(r)
  PROVE  TrafficInv'
<1> USE DEF TypeInv, TypeOK
<1>1. r \in Station
  BY DEF Station
<1>2. CASE ReplierReady(r)
  BY <1>2, TrafficDrains DEF ReplierReady
<1>3. CASE ReplierRecvFails(r)
  BY <1>1, <1>3, TrafficDrains DEF ReplierRecvFails
<1>4. ASSUME NEW m \in inbox[r], ReplierIgnores(r, m) PROVE TrafficInv'
  BY <1>1, <1>4, TrafficDrains DEF ReplierIgnores, Taken, replierVars
<1>5. ASSUME NEW m \in inbox[r], ReplierEchoes(r, m) PROVE TrafficInv'
  <2>1. /\ ForUs(r, m.frame) /\ StepProtection(r, m.frame)
        /\ UNCHANGED <<senderVars, clock>>
        /\ Transmit(Taken(r, m), r, Echo(r, m.frame))
    BY <1>5 DEF ReplierEchoes
  <2>2. /\ m.frame \in Frame /\ Taken(r, m) \in [Station -> SUBSET Message]
    BY <1>1, <2>1, LongFrame, TakenType DEF ForUs
  <2>3. ASSUME NEW s \in Station, NEW n \in inbox'[s], ~n.frame.short
        PROVE  /\ n.frame.timestamp = stamped'[n.frame.frame_id]
               /\ Original(s, n)' \/ Reply(s, n)'
    <3>1. CASE n \in Taken(r, m)[s]
      BY <3>1, <2>1, <2>3, TrafficStep DEF senderVars
    <3>2. CASE n = [frame |-> Echo(r, m.frame), outgoing |-> (s = r)]
      <4>1. /\ n.frame.src = r /\ n.frame.dst = Tester
            /\ n.frame.frame_id = m.frame.frame_id
            /\ n.frame.timestamp = m.frame.timestamp
        BY <3>2, <2>1, <2>2, TrafficStep DEF Echo, Frame
      <4>2. s = Tester => ~n.outgoing
        BY <3>2, StationAssumption
      <4>3. QED
        BY <4>1, <4>2, <2>1, TrafficStep DEF Reply, senderVars
    <3>3. QED
      BY <3>1, <3>2, <2>1, <2>2, <1>1, TransmitHolds
  <2>4. QED
    BY <2>1, <2>3, TrafficStep DEF TrafficInv, MessageInv
<1>6. ASSUME NEW m \in inbox[r], ReplierSendFails(r, m) PROVE TrafficInv'
  <2>1. /\ ForUs(r, m.frame) /\ StepProtection(r, m.frame)
        /\ UNCHANGED <<senderVars, clock>> /\ inbox' = Taken(r, m)
    BY <1>6 DEF ReplierSendFails
  <2>2. QED
    BY <2>1, TrafficStep DEF TrafficInv, MessageInv, senderVars
<1>7. QED
  BY <1>2, <1>3, <1>4, <1>5, <1>6 DEF ReplierNext

\* hot_receiver only takes frames away.
LEMMA TrafficReceiver ==
  ASSUME TypeInv, TrafficInv, ReceiverNext
  PROVE  TrafficInv'
<1>1. /\ UNCHANGED <<senderVars, steps, clock>>
      /\ \A s \in Station : inbox'[s] \subseteq inbox[s]
  BY DEF ReceiverNext, ReceiverReady, PressEnter, ReceiverLoopEnds,
         ReceiverFails, WriteResults, ReceiverSkips, ReceiverRecords,
         Taken, replierVars, Station, TypeInv, TypeOK
<1>2. QED
  BY <1>1, TrafficDrains

\* Time only grows, and what others transmit is too short to be taken for one
\* of the experiment's frames.
LEMMA TrafficEnvironment ==
  ASSUME TypeInv, TrafficInv, Tick \/ ForeignFrame
  PROVE  TrafficInv'
<1>1. CASE Tick
  <2>1. UNCHANGED <<inbox, stamped, steps, sPc, iteration>> /\ clock' = clock + 1
    BY <1>1 DEF Tick, senderVars, replierVars
  <2>2. StampInv'
    <3>1. ASSUME NEW i \in Sent PROVE stamped[i] <= clock + 1
      <4>1. stamped[i] \in Time \cup {-1} /\ clock \in Time
        BY DEF TypeInv, TypeOK
      <4>2. stamped[i] <= clock
        BY DEF TrafficInv, StampInv
      <4>3. Time \subseteq Int /\ -1 \in Int
        BY ClockAssumption
      <4>4. stamped[i] \in Int /\ clock \in Int
        BY <4>1, <4>3
      <4>5. QED
        BY <4>2, <4>4
    <3>2. QED
      BY <2>1, <3>1 DEF TrafficInv, StampInv
  <2>3. MessageInv'
    BY <2>1 DEF TrafficInv, MessageInv, Original, Reply
  <2>4. QED
    BY <2>2, <2>3 DEF TrafficInv
<1>2. CASE ForeignFrame
  <2>1. PICK f \in Noise, t \in Open :
          inbox' = [inbox EXCEPT ![t] = @ \cup {[frame |-> f, outgoing |-> FALSE]}]
    BY <1>2 DEF ForeignFrame
  <2>2. \A s \in Station : \A m \in inbox'[s] :
          ~m.frame.short => m \in inbox[s]
    BY <2>1, NoiseAssumption DEF TypeInv, TypeOK
  <2>3. QED
    BY <1>2, <2>2 DEF ForeignFrame, TrafficInv, MessageInv, StampInv,
         Original, Reply, senderVars, replierVars
<1>3. QED
  BY <1>1, <1>2

\* Every step keeps the sockets as TrafficInv describes them.
LEMMA TrafficInductive ==
  ASSUME TypeInv, TrafficInv, [Next]_vars
  PROVE  TrafficInv'
<1>1. CASE UNCHANGED vars
  BY <1>1, TrafficDrains DEF vars, replierVars
<1>2. CASE Next
  BY <1>2, TrafficSender, TrafficReplier, TrafficReceiver, TrafficEnvironment
     DEF Next
<1>3. QED
  BY <1>1, <1>2

\* With empty sockets and nothing stamped, TrafficInv holds.
LEMMA TrafficInit ==
  ASSUME Init
  PROVE  TrafficInv
  BY ClockAssumption DEF Init, TrafficInv, MessageInv, StampInv

\* No replier runs protection twice on a frame: with any number of repliers, a
\* switch that floods everything and kernels that copy frames back, an echo
\* never starts another.
THEOREM EchoesStop == Spec => []NoEchoLoop
<1> DEFINE Inv == TypeInv /\ TrafficInv
<1>1. Init => Inv
  BY TypeInit, TrafficInit
<1>2. Inv /\ [Next]_vars => Inv'
  BY TypeInductive, TrafficInductive
<1>3. Inv => NoEchoLoop
  BY DEF TrafficInv, StampInv, NoEchoLoop
<1>4. QED
  BY <1>1, <1>2, <1>3, PTL DEF Spec

-----------------------------------------------------------------------------
(* No frame is forgotten *)

\* In an orderly experiment everyone listens before the first frame is sent, and
\* as long as no call fails every replier goes on to.
ListenInv ==
  Undisturbed /\ sPc # "ready" =>
    xPc # "down" /\ \A r \in Replier : rPc[r] = "loop"

\* The inductive invariant.
ForgetInv == ListenInv /\ NoneForgotten

\* What stays in the sockets a frame is looked for in keeps it from being
\* forgotten.
LEMMA StaysUnderWay ==
  ASSUME ForgetInv, UNCHANGED <<sPc, stamped>>, UNCHANGED is_missing, xPc' = xPc,
         UNCHANGED rPc, \A s \in Station : inbox[s] \subseteq inbox'[s]
  PROVE  ForgetInv'
<1>1. ListenInv'
  BY DEF ForgetInv, ListenInv, Undisturbed
<1>2. ASSUME NEW i \in Sent \cap FrameId, Recorded(i) \/ Answered(i) \/ Heard(i)
      PROVE  (Recorded(i) \/ Answered(i) \/ Heard(i))'
  <2>1. Recorded(i) => Recorded(i)'
    BY DEF Recorded, Valid
  <2>2. Answered(i) => Answered(i)'
    BY DEF Answered, Station
  <2>3. Heard(i) => Heard(i)'
    BY DEF Heard, ForUs, Station
  <2>4. QED
    BY <1>2, <2>1, <2>2, <2>3
<1>3. NoneForgotten'
  BY <1>2 DEF ForgetInv, NoneForgotten, Undisturbed
<1>4. QED
  BY <1>1, <1>3 DEF ForgetInv

\* What a transmission leaves where it was, and where it is sure to arrive when
\* nothing is lost.
LEMMA TransmitReaches ==
  ASSUME NEW box \in [Station -> SUBSET Message], NEW from \in Station, NEW f,
         Transmit(box, from, f)
  PROVE  /\ \A s \in Station : box[s] \subseteq inbox'[s]
         /\ "loss" \notin Disturbance =>
              \A s \in (Addressed(f) \cap Open) \ {from} :
                [frame |-> f, outgoing |-> FALSE] \in inbox'[s]
<1>1. PICK reached \in SUBSET (Open \ {from}),
           copied \in SUBSET {s \in {from} : SeesOutgoing(s)} :
             /\ "loss" \notin Disturbance => (Addressed(f) \cap Open) \ {from} \subseteq reached
             /\ inbox' = Delivered(box, f, reached, copied)
  BY DEF Transmit
<1>2. \A s \in Station : inbox'[s] = box[s]
        \cup (IF s \in reached THEN {[frame |-> f, outgoing |-> FALSE]} ELSE {})
        \cup (IF s \in copied THEN {[frame |-> f, outgoing |-> TRUE]} ELSE {})
  BY <1>1 DEF Delivered
<1>3. Addressed(f) \subseteq Station
  BY DEF Addressed
<1>4. QED
  BY <1>1, <1>2, <1>3

\* A frame that is sent is heard by a replier that will answer it.
LEMMA ForgetSender ==
  ASSUME TypeInv, ForgetInv, SenderNext
  PROVE  ForgetInv'
<1> USE DEF TypeInv, TypeOK
<1>1. CASE SenderStart
  <2>1. UNCHANGED <<inbox, stamped, rPc, xPc, is_missing>> /\ sPc = "ready"
    BY <1>1 DEF SenderStart, replierVars, receiverVars, logVars
  <2>2. ListenInv'
    <3>1. SUFFICES ASSUME Undisturbed PROVE xPc # "down" /\ \A r \in Replier : rPc[r] = "loop"
      BY <2>1 DEF ListenInv, Undisturbed
    <3>2. Open = Station
      BY <1>1, <3>1 DEF SenderStart, Undisturbed
    <3>3. QED
      BY <3>2, StationAssumption DEF Open, Station
  <2>3. NoneForgotten'
    BY <2>1 DEF ForgetInv, NoneForgotten, Undisturbed, Recorded, Answered, Heard, ForUs, Valid
  <2>4. QED
    BY <2>2, <2>3 DEF ForgetInv
<1>2. CASE SendFails
  <2>1. UNCHANGED <<inbox, stamped, rPc, xPc, is_missing>> /\ sPc = "send" /\ sPc' = "done"
    BY <1>2 DEF SendFails, replierVars, receiverVars, logVars
  <2>2. QED
    BY <2>1 DEF ForgetInv, ListenInv, NoneForgotten, Undisturbed,
         Recorded, Answered, Heard, ForUs, Valid
<1>3. CASE BusyWaitEnds
  <2>1. UNCHANGED <<inbox, stamped, rPc, xPc, is_missing>> /\ sPc = "busy_wait"
    BY <1>3 DEF BusyWaitEnds, replierVars, receiverVars, logVars
  <2>2. QED
    BY <2>1 DEF ForgetInv, ListenInv, NoneForgotten, Undisturbed,
         Recorded, Answered, Heard, ForUs, Valid
<1>4. CASE SendOnePacket
  <2>1. /\ sPc = "send" /\ iteration \in Sent /\ UNCHANGED <<rPc, xPc, is_missing>>
        /\ stamped' = [stamped EXCEPT ![iteration] = clock]
        /\ Transmit(inbox, Tester, CurrentFrame) /\ Tester \in Station
    BY <1>4 DEF SendOnePacket, SenderInv, replierVars, receiverVars, logVars, Station
  <2>2. ListenInv'
    BY <2>1 DEF ForgetInv, ListenInv, Undisturbed
  <2>3. ASSUME Undisturbed, xPc = "loop", NEW i \in Sent \cap FrameId, stamped'[i] # -1
        PROVE  (Recorded(i) \/ Answered(i) \/ Heard(i))'
    <3>1. /\ \A s \in Station : inbox[s] \subseteq inbox'[s]
          /\ \A s \in (Addressed(CurrentFrame) \cap Open) \ {Tester} :
               [frame |-> CurrentFrame, outgoing |-> FALSE] \in inbox'[s]
      BY <2>1, <2>3, TransmitReaches DEF Undisturbed
    <3>2. CASE i = iteration
      <4>1. /\ CurrentFrame.dst = DestMac /\ CurrentFrame.frame_id = i
            /\ CurrentFrame.short = FALSE
        BY <3>2 DEF CurrentFrame, SvFrame
      <4>2. PICK r \in Replier : DestMac \in {r, Broadcast}
        BY <2>3, StationAssumption DEF Undisturbed
      <4>3. r \in (Addressed(CurrentFrame) \cap Open) \ {Tester}
        <5>1. r \in Open
          BY <2>1, <2>3 DEF ForgetInv, ListenInv, Open
        <5>2. r \in Addressed(CurrentFrame)
          BY <4>1, <4>2 DEF Addressed, Station
        <5>3. QED
          BY <5>1, <5>2, StationAssumption
      <4>4. [frame |-> CurrentFrame, outgoing |-> FALSE] \in inbox'[r]
        BY <3>1, <4>3
      <4>5. ForUs(r, CurrentFrame)
        BY <4>1, <4>2 DEF ForUs
      <4>6. PICK m : m = [frame |-> CurrentFrame, outgoing |-> FALSE]
        OBVIOUS
      <4>7. m \in inbox'[r] /\ ForUs(r, m.frame) /\ m.frame.frame_id = i
        BY <4>1, <4>4, <4>5, <4>6
      <4>8. Heard(i)'
        BY <4>7 DEF Heard, ForUs
      <4>9. QED
        BY <4>8
    <3>3. CASE i # iteration
      <4>1. Recorded(i) \/ Answered(i) \/ Heard(i)
        BY <2>1, <2>3, <3>3 DEF ForgetInv, NoneForgotten
      <4>2. Recorded(i) => Recorded(i)'
        BY <2>1 DEF Recorded, Valid
      <4>3. Answered(i) => Answered(i)'
        BY <3>1 DEF Answered, Station
      <4>4. Heard(i) => Heard(i)'
        BY <3>1 DEF Heard, ForUs, Station
      <4>5. QED
        BY <4>1, <4>2, <4>3, <4>4
    <3>4. QED
      BY <3>2, <3>3
  <2>4. NoneForgotten'
    BY <2>1, <2>3 DEF NoneForgotten, Undisturbed
  <2>5. QED
    BY <2>2, <2>4 DEF ForgetInv
<1>5. QED
  BY <1>1, <1>2, <1>3, <1>4 DEF SenderNext

\* A replier drops only what it does not answer, and an answer reaches a tester
\* that listens.
LEMMA ForgetReplier ==
  ASSUME TypeInv, TrafficInv, ForgetInv, NEW r \in Replier, ReplierNext(r)
  PROVE  ForgetInv'
<1> USE DEF TypeInv, TypeOK
<1>1. r \in Station /\ Tester \in Station /\ r # Tester
  BY StationAssumption DEF Station
<1>2. UNCHANGED <<sPc, stamped, xPc, is_missing>>
  BY DEF ReplierNext, ReplierReady, ReplierRecvFails, ReplierIgnores, ReplierEchoes,
         ReplierSendFails, senderVars, receiverVars, logVars
<1>3. CASE ReplierReady(r)
  <2>1. inbox' = inbox /\ rPc' = [rPc EXCEPT ![r] = "loop"]
    BY <1>3 DEF ReplierReady
  <2>2. ListenInv'
    BY <1>2, <2>1 DEF ForgetInv, ListenInv, Undisturbed
  <2>3. NoneForgotten'
    BY <1>2, <2>1 DEF ForgetInv, NoneForgotten, Undisturbed, Recorded, Answered, Heard, ForUs, Valid
  <2>4. QED
    BY <2>2, <2>3 DEF ForgetInv
<1>4. CASE ReplierRecvFails(r)
  BY <1>4 DEF ReplierRecvFails, ForgetInv, ListenInv, NoneForgotten, Undisturbed
<1>5. ASSUME NEW m \in inbox[r], ReplierSendFails(r, m) PROVE ForgetInv'
  BY <1>5 DEF ReplierSendFails, ForgetInv, ListenInv, NoneForgotten, Undisturbed
<1>6. ASSUME NEW m \in inbox[r], ReplierIgnores(r, m) PROVE ForgetInv'
  <2>1. /\ ~ForUs(r, m.frame) /\ inbox' = [inbox EXCEPT ![r] = @ \ {m}]
        /\ UNCHANGED rPc
    BY <1>6 DEF ReplierIgnores, Taken, replierVars
  <2>2. ListenInv'
    BY <1>2, <2>1 DEF ForgetInv, ListenInv, Undisturbed
  <2>3. ASSUME NEW i \in Sent \cap FrameId, Recorded(i) \/ Answered(i) \/ Heard(i)
        PROVE  (Recorded(i) \/ Answered(i) \/ Heard(i))'
    <3>1. Recorded(i) => Recorded(i)'
      BY <1>2 DEF Recorded, Valid
    <3>2. Answered(i) => Answered(i)'
      BY <1>1, <2>1 DEF Answered
    <3>3. ASSUME Heard(i) PROVE Heard(i)'
      <4>0. PICK q \in Replier : \E n \in inbox[q] :
                                   ForUs(q, n.frame) /\ n.frame.frame_id = i
        BY <3>3 DEF Heard
      <4>1. PICK n \in inbox[q] : ForUs(q, n.frame) /\ n.frame.frame_id = i
        BY <4>0
      <4>2. n \in inbox'[q]
        BY <2>1, <4>1 DEF Station
      <4>3. QED
        BY <4>1, <4>2 DEF Heard, ForUs
    <3>4. QED
      BY <2>3, <3>1, <3>2, <3>3
  <2>4. NoneForgotten'
    BY <1>2, <2>3 DEF ForgetInv, NoneForgotten, Undisturbed
  <2>5. QED
    BY <2>2, <2>4 DEF ForgetInv
<1>7. ASSUME NEW m \in inbox[r], ReplierEchoes(r, m) PROVE ForgetInv'
  <2>1. /\ ForUs(r, m.frame) /\ Transmit(Taken(r, m), r, Echo(r, m.frame))
        /\ StepProtection(r, m.frame) /\ UNCHANGED <<rPc, senderVars, clock>>
    BY <1>7 DEF ReplierEchoes
  <2>2. ListenInv'
    BY <1>2, <2>1 DEF ForgetInv, ListenInv, Undisturbed
  <2>3. m.frame.src = Tester /\ m.frame \in Frame
    BY <1>1, <2>1, TrafficStep, LongFrame DEF ForUs
  <2>4. PICK e : e = [frame |-> Echo(r, m.frame), outgoing |-> FALSE]
    OBVIOUS
  <2>5. /\ e.frame.dst = Tester /\ e.frame.frame_id = m.frame.frame_id
        /\ ~e.frame.short /\ ~e.outgoing
    BY <2>3, <2>4 DEF Echo, Frame
  <2>6. Taken(r, m) \in [Station -> SUBSET Message]
    BY <1>1, TakenType
  <2>7. \A s \in Station : Taken(r, m)[s] \subseteq inbox'[s]
    BY <1>1, <2>1, <2>6, TransmitReaches
  <2>8. ASSUME Undisturbed, xPc = "loop" PROVE e \in inbox'[Tester]
    <3>1. Tester \in (Addressed(Echo(r, m.frame)) \cap Open) \ {r}
      BY <1>1, <2>4, <2>5, <2>8 DEF Addressed, Open
    <3>2. "loss" \notin Disturbance
      BY <2>8 DEF Undisturbed
    <3>3. QED
      BY <1>1, <2>1, <2>4, <2>6, <3>1, <3>2, TransmitReaches
  <2>9. ASSUME Undisturbed, xPc = "loop", NEW i \in Sent \cap FrameId,
               Recorded(i) \/ Answered(i) \/ Heard(i)
        PROVE  (Recorded(i) \/ Answered(i) \/ Heard(i))'
    <3>1. Recorded(i) => Recorded(i)'
      BY <1>2 DEF Recorded, Valid
    <3>2. ASSUME Answered(i) PROVE Answered(i)'
      <4>1. PICK n \in inbox[Tester] : ~n.frame.short /\ ~n.outgoing /\ n.frame.frame_id = i
        BY <3>2 DEF Answered
      <4>2. n \in inbox'[Tester]
        BY <1>1, <2>7, <4>1 DEF Taken
      <4>3. QED
        BY <4>1, <4>2 DEF Answered
    <3>3. ASSUME Heard(i) PROVE Heard(i)' \/ Answered(i)'
      <4>0. PICK q \in Replier : \E n \in inbox[q] :
                                   ForUs(q, n.frame) /\ n.frame.frame_id = i
        BY <3>3 DEF Heard
      <4>1. PICK n \in inbox[q] : ForUs(q, n.frame) /\ n.frame.frame_id = i
        BY <4>0
      <4>2. CASE q = r /\ n = m
        <5>1. e.frame.frame_id = i
          BY <2>5, <4>1, <4>2
        <5>2. Answered(i)'
          BY <2>5, <2>8, <2>9, <5>1 DEF Answered
        <5>3. QED
          BY <5>2
      <4>3. CASE ~(q = r /\ n = m)
        <5>1. n \in Taken(r, m)[q] /\ q \in Station
          BY <4>1, <4>3 DEF Taken, Station
        <5>2. n \in inbox'[q]
          BY <2>7, <5>1
        <5>3. QED
          BY <4>1, <5>2 DEF Heard, ForUs
      <4>4. QED
        BY <4>2, <4>3
    <3>4. QED
      BY <2>9, <3>1, <3>2, <3>3
  <2>10. NoneForgotten'
    BY <1>2, <2>9 DEF ForgetInv, NoneForgotten, Undisturbed
  <2>11. QED
    BY <2>2, <2>10 DEF ForgetInv
<1>8. QED
  BY <1>3, <1>4, <1>5, <1>6, <1>7 DEF ReplierNext

\* The receiver records a reply, or drops what is no reply or recorded already.
LEMMA ForgetReceiver ==
  ASSUME TypeInv, TrafficInv, ForgetInv, ReceiverNext
  PROVE  ForgetInv'
<1> USE DEF TypeInv, TypeOK
<1>1. Tester \in Station /\ Tester \notin Replier
  BY StationAssumption DEF Station
<1>2. UNCHANGED <<sPc, iteration, stamped, rPc>>
  BY DEF ReceiverNext, ReceiverReady, PressEnter, ReceiverLoopEnds, ReceiverFails,
         WriteResults, ReceiverSkips, ReceiverRecords, senderVars, replierVars
<1>3. ListenInv'
  BY <1>2 DEF ForgetInv, ListenInv, Undisturbed, ReceiverNext, ReceiverReady, PressEnter,
       ReceiverLoopEnds, ReceiverFails, WriteResults, ReceiverSkips, ReceiverRecords,
       receiverVars
<1>4. CASE ReceiverReady
  <2>1. SUFFICES ASSUME Undisturbed PROVE \A i \in Sent : stamped[i] = -1
    BY <1>2, <1>3 DEF ForgetInv, NoneForgotten, Undisturbed
  <2>2. sPc = "ready"
    BY <1>4, <2>1 DEF ReceiverReady, ForgetInv, ListenInv
  <2>3. QED
    BY <2>2 DEF SenderInv, TrafficInv, StampInv, Sent
<1>5. CASE PressEnter
  BY <1>2, <1>3, <1>5, StaysUnderWay DEF PressEnter, logVars
<1>6. CASE ReceiverLoopEnds \/ ReceiverFails \/ WriteResults
  BY <1>3, <1>6 DEF ReceiverLoopEnds, ReceiverFails, WriteResults, ForgetInv, NoneForgotten
<1>7. ASSUME NEW m \in inbox[Tester], ReceiverSkips(m) \/ ReceiverRecords(m)
      PROVE  ForgetInv'
  <2>1. inbox' = [inbox EXCEPT ![Tester] = @ \ {m}] /\ xPc' = xPc
    BY <1>7 DEF ReceiverSkips, ReceiverRecords, Taken, receiverVars
  <2>2. \A i \in FrameId : Recorded(i) => Recorded(i)'
    BY <1>7 DEF ReceiverSkips, ReceiverRecords, receiverVars, logVars, Recorded, Valid
  <2>3. ASSUME NEW i \in Sent \cap FrameId,
               ~m.frame.short, ~m.outgoing, m.frame.frame_id = i
        PROVE  Recorded(i)'
    <3>1. i < Expected /\ is_missing[i] \in {0, 1} /\ i \in FrameId
      BY <2>3, SizeAssumption DEF FrameId
    <3>2. CASE Wanted(m)
      BY <1>7, <2>3, <3>1, <3>2 DEF ReceiverSkips, ReceiverRecords, Recorded, Valid
    <3>3. CASE ~Wanted(m)
      <4>1. is_missing[i] = 0 /\ is_missing' = is_missing
        BY <1>7, <2>3, <3>1, <3>3 DEF Wanted, ReceiverSkips, ReceiverRecords,
             receiverVars, logVars
      <4>2. QED
        BY <3>1, <4>1 DEF Recorded, Valid
    <3>4. QED
      BY <3>2, <3>3
  <2>4. ASSUME NEW i \in Sent \cap FrameId, Recorded(i) \/ Answered(i) \/ Heard(i)
        PROVE  (Recorded(i) \/ Answered(i) \/ Heard(i))'
    <3>1. ASSUME Answered(i) PROVE Recorded(i)' \/ Answered(i)'
      <4>1. PICK n \in inbox[Tester] : ~n.frame.short /\ ~n.outgoing /\ n.frame.frame_id = i
        BY <3>1 DEF Answered
      <4>2. CASE n = m
        BY <2>3, <4>1, <4>2
      <4>3. CASE n # m
        <5>1. n \in inbox'[Tester]
          BY <1>1, <2>1, <4>1, <4>3
        <5>2. QED
          BY <4>1, <5>1 DEF Answered
      <4>4. QED
        BY <4>2, <4>3
    <3>2. ASSUME Heard(i) PROVE Heard(i)'
      <4>0. PICK q \in Replier : \E n \in inbox[q] :
                                   ForUs(q, n.frame) /\ n.frame.frame_id = i
        BY <3>2 DEF Heard
      <4>1. PICK n \in inbox[q] : ForUs(q, n.frame) /\ n.frame.frame_id = i
        BY <4>0
      <4>2. n \in inbox'[q]
        BY <1>1, <2>1, <4>1 DEF Station
      <4>3. QED
        BY <4>1, <4>2 DEF Heard, ForUs
    <3>3. QED
      BY <2>2, <2>4, <3>1, <3>2
  <2>5. NoneForgotten'
    BY <1>2, <2>1, <2>4 DEF ForgetInv, NoneForgotten, Undisturbed
  <2>6. QED
    BY <1>3, <2>5 DEF ForgetInv
<1>8. QED
  BY <1>4, <1>5, <1>6, <1>7 DEF ReceiverNext

\* No step of anyone makes an undisturbed experiment forget a frame.
LEMMA ForgetInductive ==
  ASSUME TypeInv, TrafficInv, ForgetInv, [Next]_vars
  PROVE  ForgetInv'
<1>1. CASE UNCHANGED vars
  BY <1>1, StaysUnderWay DEF vars, senderVars, replierVars, receiverVars, logVars
<1>2. CASE Tick
  BY <1>2, StaysUnderWay DEF Tick, senderVars, replierVars, receiverVars, logVars
<1>3. CASE ForeignFrame
  <2>1. PICK f \in Noise, t \in Open :
          inbox' = [inbox EXCEPT ![t] = @ \cup {[frame |-> f, outgoing |-> FALSE]}]
    BY <1>3 DEF ForeignFrame
  <2>2. \A s \in Station : inbox[s] \subseteq inbox'[s]
    BY <2>1 DEF TypeInv, TypeOK
  <2>3. QED
    BY <1>3, <2>2, StaysUnderWay DEF ForeignFrame, senderVars, replierVars, receiverVars, logVars
<1>4. QED
  BY <1>1, <1>2, <1>3, ForgetSender, ForgetReplier, ForgetReceiver DEF Next

\* In an experiment that starts in order and in which nothing is lost and no call
\* fails, a frame that was sent is recorded or its answer is under way, as long
\* as the receiver listens: with any number of repliers and frames, a switch that
\* floods and kernels that copy frames back.
THEOREM FramesAreNotForgotten == Spec => []NoneForgotten
<1> DEFINE Inv == TypeInv /\ TrafficInv /\ ForgetInv
<1>1. Init => Inv
  <2>1. Init => ForgetInv
    BY DEF Init, ForgetInv, ListenInv, NoneForgotten
  <2>2. QED
    BY <2>1, TypeInit, TrafficInit
<1>2. Inv /\ [Next]_vars => Inv'
  BY TypeInductive, TrafficInductive, ForgetInductive
<1>3. Inv => NoneForgotten
  BY DEF ForgetInv
<1>4. QED
  BY <1>1, <1>2, <1>3, PTL DEF Spec

-----------------------------------------------------------------------------
(* What the table holds *)

\* The inductive invariant about the table.
TableInv == RecordedWasProtected /\ LatencyIsReal

\* The receiver records replies only, and those carry the time of the stamp.
LEMMA TableReceiver ==
  ASSUME TypeInv, TrafficInv, TableInv, ReceiverNext
  PROVE  TableInv'
<1> USE DEF TypeInv, TypeOK
<1>1. ASSUME UNCHANGED <<logVars, steps, stamped, clock>> PROVE TableInv'
  BY <1>1 DEF logVars, TableInv, RecordedWasProtected, LatencyIsReal, Valid
<1>2. ASSUME NEW m \in inbox[Tester], ReceiverRecords(m) PROVE TableInv'
  <2> DEFINE k == m.frame.frame_id
  <2>1. m \in Message /\ ~m.frame.short /\ ~m.outgoing /\ k < Expected
    BY <1>2 DEF ReceiverRecords, Wanted, Station
  <2>2. k \in Sent /\ k \in FrameId /\ m.frame.timestamp \in Time
    BY <2>1, LongFrame, SizeAssumption DEF Sent, FrameId
  <2>3. m.frame.timestamp = stamped[k] /\ Reply(Tester, m)
    BY <2>1 DEF TrafficInv, MessageInv, Original, Station
  <2>4. \E r \in Replier : steps[r][k] > 0
    BY <2>3 DEF Reply
  <2>5. stamped[k] <= clock
    BY <2>2 DEF TrafficInv, StampInv
  <2>6. /\ send_ts_ns' = [send_ts_ns EXCEPT ![k] = m.frame.timestamp]
        /\ recv_ts_ns' = [recv_ts_ns EXCEPT ![k] = clock]
        /\ is_missing' = [is_missing EXCEPT ![k] = 0]
        /\ stamped' = stamped /\ steps' = steps /\ clock' = clock
    BY <1>2 DEF ReceiverRecords, senderVars, replierVars
  <2>7. ASSUME NEW i \in Valid'
        PROVE  /\ i \in Sent /\ \E r \in Replier : steps'[r][i] > 0
               /\ send_ts_ns'[i] = stamped'[i]
               /\ stamped'[i] <= recv_ts_ns'[i] /\ recv_ts_ns'[i] <= clock'
    <3>1. CASE i = k
      BY <3>1, <2>2, <2>3, <2>4, <2>5, <2>6, ClockAssumption
    <3>2. CASE i # k
      <4>1. i \in Valid
        BY <3>2, <2>6, <2>7 DEF Valid
      <4>2. send_ts_ns'[i] = send_ts_ns[i] /\ recv_ts_ns'[i] = recv_ts_ns[i]
        BY <3>2, <4>1, <2>6 DEF Valid
      <4>3. QED
        BY <4>1, <4>2, <2>6 DEF TableInv, RecordedWasProtected, LatencyIsReal
    <3>3. QED
      BY <3>1, <3>2
  <2>8. QED
    BY <2>7 DEF TableInv, RecordedWasProtected, LatencyIsReal
<1>3. QED
  BY <1>1, <1>2
     DEF ReceiverNext, ReceiverReady, PressEnter, ReceiverLoopEnds,
         ReceiverFails, WriteResults, ReceiverSkips,
         senderVars, replierVars, receiverVars

\* Everyone else leaves the table, and never restamps or unsteps a frame.
LEMMA TableOthers ==
  ASSUME TypeInv, TrafficInv, TableInv,
         Tick \/ ForeignFrame \/ SenderNext \/ \E r \in Replier : ReplierNext(r)
  PROVE  TableInv'
<1> USE DEF TypeInv, TypeOK
<1>1. Valid' = Valid /\ send_ts_ns' = send_ts_ns /\ recv_ts_ns' = recv_ts_ns
  BY OthersLeaveReceiver DEF receiverVars, logVars, Valid
<1>2. clock' >= clock
  BY ClockAssumption
     DEF Tick, ForeignFrame, SenderNext, SenderStart, SendOnePacket, SendFails,
         BusyWaitEnds, ReplierNext, ReplierReady, ReplierRecvFails,
         ReplierIgnores, ReplierEchoes, ReplierSendFails
<1>3. \A i \in Sent : stamped[i] # -1 => stamped'[i] = stamped[i]
  <2>1. CASE SendOnePacket
    BY <2>1 DEF SendOnePacket, TrafficInv, StampInv, SenderInv, Sent
  <2>2. CASE ~SendOnePacket
    <3>1. UNCHANGED stamped
      BY <2>2 DEF Tick, ForeignFrame, SenderNext, SenderStart, SendFails,
           BusyWaitEnds, ReplierNext, ReplierReady, ReplierRecvFails,
           ReplierIgnores, ReplierEchoes, ReplierSendFails, senderVars
    <3>2. QED
      BY <3>1
  <2>3. QED
    BY <2>1, <2>2
<1> DEFINE Grow == \A r \in Replier, i \in Sent : steps'[r][i] >= steps[r][i]
<1>4. Grow
  <2>1. ASSUME NEW r \in Replier, NEW m \in inbox[r], ForUs(r, m.frame),
               StepProtection(r, m.frame)
        PROVE  Grow
    <3>1. m.frame.frame_id \in Sent
      BY <2>1, LongFrame DEF ForUs, Station
    <3>2. QED
      BY <2>1, <3>1 DEF StepProtection
  <2>2. CASE steps' = steps
    BY <2>2
  <2>3. QED
    BY <2>1, <2>2
       DEF Tick, ForeignFrame, SenderNext, SenderStart, SendOnePacket,
           SendFails, BusyWaitEnds, ReplierNext, ReplierReady,
           ReplierRecvFails, ReplierIgnores, ReplierEchoes, ReplierSendFails,
           replierVars
<1>5. ASSUME NEW i \in Valid'
      PROVE  /\ i \in Sent /\ \E r \in Replier : steps'[r][i] > 0
             /\ send_ts_ns'[i] = stamped'[i]
             /\ stamped'[i] <= recv_ts_ns'[i] /\ recv_ts_ns'[i] <= clock'
  <2>1. /\ i \in Valid /\ i \in FrameId /\ i \in Sent
        /\ send_ts_ns[i] = stamped[i]
        /\ stamped[i] <= recv_ts_ns[i] /\ recv_ts_ns[i] <= clock
    BY <1>1, <1>5 DEF TableInv, RecordedWasProtected, LatencyIsReal, Valid
  <2>2. PICK r \in Replier : steps[r][i] > 0
    BY <2>1 DEF TableInv, RecordedWasProtected
  <2>3. steps'[r][i] > 0
    <3>1. steps'[r][i] \in Nat
      BY <2>1, TypeInductive DEF Next
    <3>2. QED
      BY <2>1, <2>2, <1>4, <3>1
  <2>4. stamped'[i] = stamped[i]
    BY <2>1, <1>3, ClockAssumption
  <2>5. clock \in Nat /\ clock' \in Nat /\ recv_ts_ns[i] \in Nat
    <3>1. clock' \in Time
      BY TypeInductive DEF Next
    <3>2. QED
      BY <2>1, <3>1, ClockAssumption
  <2>6. QED
    BY <1>1, <1>2, <2>1, <2>3, <2>4, <2>5
<1>6. QED
  BY <1>5 DEF TableInv, RecordedWasProtected, LatencyIsReal

\* Every step keeps the filled slots genuine.
LEMMA TableInductive ==
  ASSUME TypeInv, TrafficInv, TableInv, [Next]_vars
  PROVE  TableInv'
<1>1. CASE UNCHANGED vars
  BY <1>1 DEF vars, senderVars, replierVars, receiverVars, logVars,
              TableInv, RecordedWasProtected, LatencyIsReal, Valid
<1>2. QED
  BY <1>1, TableReceiver, TableOthers DEF Next

\* Every recorded latency is between the stamping of that frame and the arrival
\* of an echo of it by a replier that ran its protection functions on it.
THEOREM LatenciesAreReal == Spec => [](RecordedWasProtected /\ LatencyIsReal)
<1> DEFINE Inv == TypeInv /\ TrafficInv /\ TableInv
<1>1. Init => Inv
  <2> SUFFICES ASSUME Init PROVE TableInv
    BY TypeInit, TrafficInit
  <2>1. Valid = {}
    BY DEF Init, Valid
  <2>2. QED
    BY <2>1 DEF TableInv, RecordedWasProtected, LatencyIsReal
<1>2. Inv /\ [Next]_vars => Inv'
  BY TypeInductive, TrafficInductive, TableInductive
<1>3. Inv => RecordedWasProtected /\ LatencyIsReal
  BY DEF TableInv
<1>4. QED
  BY <1>1, <1>2, <1>3, PTL DEF Spec

-----------------------------------------------------------------------------
(* What hot_receiver reports *)

\* Nothing is reported before the end, and a report is taken from the table
\* the session leaves.
ReportInv ==
  /\ xPc # "done" => results = NoResults
  /\ xPc = "done" /\ packet_count > 0 =>
       results = [received |-> Cardinality(Valid),
                  missing  |-> Expected - Cardinality(Valid),
                  rows     |-> {RttRow(i) : i \in Valid}]

\* The invariants of the session together.
SessionInv == TypeInv /\ CountInv /\ TrafficInv /\ TableInv /\ ReportInv

\* The receiver leaves its table alone once the report is out.
LEMMA ReportReceiver ==
  ASSUME ReportInv, ReceiverNext
  PROVE  ReportInv'
<1>1. ASSUME UNCHANGED logVars
      PROVE  Valid' = Valid /\ {RttRow(i) : i \in Valid}' = {RttRow(i) : i \in Valid}
  <2>1. UNCHANGED <<send_ts_ns, recv_ts_ns, is_missing>>
    BY <1>1 DEF logVars
  <2>2. Valid' = Valid
    BY <2>1 DEF Valid
  <2>3. QED
    BY <2>1, <2>2 DEF RttRow
<1>2. CASE WriteResults
  BY <1>1, <1>2 DEF WriteResults, ReportInv, logVars
<1>3. CASE PressEnter
  BY <1>1, <1>3 DEF PressEnter, ReportInv, NoResults, logVars
<1>4. CASE xPc' # "done" /\ xPc # "done" /\ results' = results
  BY <1>4 DEF ReportInv, NoResults
<1>5. CASE \E m \in inbox[Tester] : ReceiverSkips(m)
  BY <1>4, <1>5 DEF ReceiverSkips, Receiving, receiverVars
<1>6. QED
  BY <1>2, <1>3, <1>4, <1>5
     DEF ReceiverNext, ReceiverReady, ReceiverLoopEnds, ReceiverFails,
         ReceiverRecords, Receiving

\* Steps that leave the table and the report alone keep them in agreement.
LEMMA ReportOthers ==
  ASSUME ReportInv, UNCHANGED receiverVars
  PROVE  ReportInv'
BY DEF receiverVars, logVars, ReportInv, Valid, RttRow

\* The invariants of a session hold together.
LEMMA SessionInductive ==
  ASSUME SessionInv, [Next]_vars
  PROVE  SessionInv'
BY TypeInductive, CountInductive, TrafficInductive, TableInductive,
   ReportReceiver, ReportOthers, OthersLeaveReceiver
   DEF SessionInv, Next, vars

\* In its first state the session has nothing to report.
LEMMA SessionInit ==
  ASSUME Init
  PROVE  SessionInv
<1>1. Valid = {}
  BY DEF Init, Valid
<1>2. QED
  BY <1>1, TypeInit, TrafficInit, FS_EmptySet
     DEF Init, SessionInv, CountInv, CountMatchesLog, TableInv,
         RecordedWasProtected, LatencyIsReal, ReportInv

\* A report of a table whose receive times are not before its send times agrees
\* with the loop that fed it, and its subtractions do not wrap.
LEMMA ReportOfTable ==
  ASSUME TypeInv, CountInv, ReportInv, \A i \in Valid : send_ts_ns[i] <= recv_ts_ns[i]
  PROVE  ReportFaithful
<1> SUFFICES ASSUME xPc = "done", packet_count > 0
             PROVE  /\ results.received = packet_count
                    /\ results.received + results.missing = Expected
                    /\ {w.frame_id : w \in results.rows} = Valid
                    /\ \A w \in results.rows : w.send + w.rtt = w.recv
  BY DEF ReportFaithful
<1>1. results = [received |-> Cardinality(Valid),
                 missing  |-> Expected - Cardinality(Valid),
                 rows     |-> {RttRow(i) : i \in Valid}]
  BY DEF ReportInv
<1>2. /\ results.received = packet_count
      /\ results.received + results.missing = Expected
  BY <1>1, ValidIsFinite, SizeAssumption DEF CountInv, CountMatchesLog
<1>3. {w.frame_id : w \in results.rows} = Valid
  <2>1. \A i : RttRow(i).frame_id = i
    BY DEF RttRow
  <2>2. QED
    BY <1>1, <2>1
<1>4. ASSUME NEW i \in Valid
      PROVE  RttRow(i).send + RttRow(i).rtt = RttRow(i).recv
  <2>1. send_ts_ns[i] \in Time /\ recv_ts_ns[i] \in Time
    BY DEF TypeInv, TypeOK, Valid
  <2>2. /\ send_ts_ns[i] \in Nat /\ recv_ts_ns[i] \in Nat /\ Wrap \in Nat
        /\ recv_ts_ns[i] < Wrap
    BY <2>1, ClockAssumption
  <2>3. recv_ts_ns[i] - send_ts_ns[i] \in 0 .. Wrap - 1
    BY <2>2
  <2>4. (recv_ts_ns[i] - send_ts_ns[i]) % Wrap = recv_ts_ns[i] - send_ts_ns[i]
    <3>1. \A d, w \in Int : w > 0 /\ d \in 0 .. w - 1 => d % w = d
      OBVIOUS
    <3>2. QED
      BY <2>2, <2>3, <3>1
  <2>5. QED
    BY <2>2, <2>4 DEF RttRow
<1>5. QED
  BY <1>1, <1>2, <1>3, <1>4

\* The report agrees with the table and with the counter that ended the loop,
\* and no round-trip time is a wrapped subtraction: the subtraction is of a
\* stamp from a reading of the same clock that is not earlier.
THEOREM ReportIsFaithful == Spec => []ReportFaithful
<1>1. SessionInv => ReportFaithful
  BY ReportOfTable DEF SessionInv, TableInv, LatencyIsReal
<1>2. QED
  BY <1>1, SessionInit, SessionInductive, PTL DEF Spec

\* What the receiver may find queued was stamped before.
NoneFromFuture == \A m \in inbox[Tester] : ~m.frame.short => m.frame.timestamp <= clock

\* A step of the receiver is an entry, the report, the abort, or nothing to the
\* latency table.
LEMMA StepOfLog ==
  ASSUME TypeInv, CountInv, ReportInv, NoneFromFuture, [Next]_vars
  PROVE  [Log!LogNext]_(Log!logVars)
<1> DEFINE entry == [i \in FrameId |-> IF is_missing[i] = 1 THEN <<>>
                                       ELSE <<send_ts_ns[i], recv_ts_ns[i]>>]
           status == IF xPc = "done" THEN "reported"
                     ELSE IF xPc = "failed" THEN "aborted" ELSE "collecting"
           counts == [received |-> results.received, missing |-> results.missing]
<1>1. CASE UNCHANGED receiverVars
  BY <1>1 DEF receiverVars, logVars, Log!logVars
<1>2. CASE ReceiverNext
  <2>1. CASE UNCHANGED <<logVars, results, status>>
    BY <2>1 DEF logVars, Log!logVars
  <2>2. CASE ReceiverFails
    <3>1. UNCHANGED entry /\ UNCHANGED counts
      BY <2>2 DEF ReceiverFails, logVars
    <3>2. Log!Abort
      BY <2>2, <3>1 DEF ReceiverFails, Log!Abort
    <3>3. QED
      BY <3>2 DEF Log!LogNext
  <2>3. CASE WriteResults
    <3>1. UNCHANGED entry
      BY <2>3 DEF WriteResults, logVars
    <3>2. Log!Logged = Valid
      BY DEF Log!Logged, Valid, TypeInv, TypeOK
    <3>3. /\ packet_count = 0 <=> Valid = {}
          /\ Cardinality(FrameId \ Valid) = Expected - Cardinality(Valid)
      <4>1. FrameId \cap Valid = Valid
        BY DEF Valid
      <4>2. Cardinality(FrameId \ Valid) = Expected - Cardinality(Valid)
        BY <4>1, ValidIsFinite, FS_Difference
      <4>3. packet_count = 0 <=> Valid = {}
        BY ValidIsFinite, FS_EmptySet DEF CountInv, CountMatchesLog
      <4>4. QED
        BY <4>2, <4>3
    <3>4. counts' = IF Valid = {} THEN counts
                    ELSE [received |-> Cardinality(Valid),
                          missing  |-> Cardinality(FrameId \ Valid)]
      <4>1. results = NoResults
        BY <2>3 DEF WriteResults, ReportInv
      <4>2. CASE Valid = {}
        BY <2>3, <3>3, <4>1, <4>2 DEF WriteResults
      <4>3. CASE Valid # {}
        BY <2>3, <3>3, <4>3 DEF WriteResults
      <4>4. QED
        BY <4>2, <4>3
    <3>5. \A S : Log!Cardinality(S) = Cardinality(S)
      BY DEF Log!Cardinality, Cardinality
    <3>6. status = "collecting" /\ status' = "reported"
      BY <2>3 DEF WriteResults
    <3>7. Log!Report
      BY <3>1, <3>2, <3>4, <3>5, <3>6 DEF Log!Report
    <3>8. QED
      BY <3>7 DEF Log!LogNext
  <2>4. ASSUME NEW m \in inbox[Tester], ReceiverRecords(m)
        PROVE  Log!LogNext
    <3> DEFINE i == m.frame.frame_id
    <3>1. /\ i \in FrameId /\ m.frame.timestamp \in Time /\ clock \in Time
          /\ i \in Sent
      BY <2>4, LongFrame, SizeAssumption
         DEF ReceiverRecords, Wanted, FrameId, Sent, TypeInv, TypeOK, Station
    <3>2. is_missing[i] = 1
      BY <2>4, <3>1 DEF ReceiverRecords, Wanted, TypeInv, TypeOK
    <3>3. m.frame.timestamp <= clock
      BY <2>4 DEF ReceiverRecords, Wanted, NoneFromFuture
    <3>4. entry' = [entry EXCEPT ![i] = <<m.frame.timestamp, clock>>]
      <4>1. /\ send_ts_ns' = [send_ts_ns EXCEPT ![i] = m.frame.timestamp]
            /\ recv_ts_ns' = [recv_ts_ns EXCEPT ![i] = clock]
            /\ is_missing' = [is_missing EXCEPT ![i] = 0]
        BY <2>4 DEF ReceiverRecords
      <4>2. /\ send_ts_ns \in [FrameId -> Time] /\ recv_ts_ns \in [FrameId -> Time]
            /\ is_missing \in [FrameId -> {0, 1}]
        BY DEF TypeInv, TypeOK
      <4>3. ASSUME NEW k \in FrameId
            PROVE  entry'[k] = IF k = i THEN <<m.frame.timestamp, clock>> ELSE entry[k]
        BY <4>1, <4>2
      <4>4. QED
        BY <4>3, <3>1
    <3>5. UNCHANGED status /\ UNCHANGED counts /\ status = "collecting"
      BY <2>4 DEF ReceiverRecords, Receiving
    <3>6. entry[i] = <<>>
      BY <3>1, <3>2
    <3>7. PICK received \in Time : received = clock
      BY <3>1
    <3>8. Log!Enter(i, m.frame.timestamp, received)
      BY <3>3, <3>4, <3>5, <3>6, <3>7 DEF Log!Enter
    <3>9. QED
      BY <3>1, <3>8 DEF Log!LogNext
  <2>5. QED
    BY <1>2, <2>1, <2>2, <2>3, <2>4
       DEF ReceiverNext, ReceiverReady, PressEnter, ReceiverLoopEnds,
           ReceiverSkips, receiverVars
<1>3. QED
  BY <1>1, <1>2, OthersLeaveReceiver DEF Next, vars

\* hot_receiver among any senders, repliers and noise implements LatencyLog:
\* an entry is written once, with a send time not after its receive time, and
\* the session ends at most once.
THEOREM ReceiverImplementsLog == Spec => ImplementsLatencyLog
<1>1. Init => Log!LogInit
  BY DEF Init, NoResults, Log!LogInit
<1>2. SessionInv /\ [Next]_vars => [Log!LogNext]_(Log!logVars)
  <2>1. SessionInv => NoneFromFuture
    BY LongFrame
       DEF SessionInv, TrafficInv, MessageInv, StampInv, Station, NoneFromFuture, TypeInv, TypeOK
  <2>2. QED
    BY <2>1, StepOfLog DEF SessionInv
<1>3. QED
  BY <1>1, <1>2, SessionInit, SessionInductive, PTL
     DEF Spec, ImplementsLatencyLog, Log!LogSpec

-----------------------------------------------------------------------------
(* The pace of the sender *)

\* The least time from one stamp to the next.
Gap == SendPeriod - Slew

\* The frames stamped so far.
Stamped == {i \in Sent : stamped[i] # -1}

\* Every stamp is as many gaps before the next one that can be given as there
\* are frames between, and stamps are that far from each other.
PaceInv ==
  /\ sPc = "send" => \A i \in Stamped :
       clock >= stamped[i] + (iteration - i) * Gap
  /\ sPc = "busy_wait" =>
       /\ iteration \in Sent
       /\ \A i \in Stamped : waitUntil >= stamped[i] + (iteration - i) * Gap + SendPeriod
  /\ \A i, j \in Stamped : i < j => stamped[j] - stamped[i] >= (j - i) * Gap

\* Stamps and readings of the clock are numbers.
LEMMA StampsAreNumbers ==
  ASSUME TypeInv
  PROVE  /\ clock \in Nat /\ waitUntil \in Nat /\ iteration \in Nat
         /\ Gap \in Nat /\ Sent \subseteq Nat
         /\ \A i \in Stamped : i \in Nat /\ stamped[i] \in Nat
<1>1. clock \in Nat /\ waitUntil \in Nat /\ iteration \in Nat
  BY ClockAssumption DEF TypeInv, TypeOK
<1>2. Gap \in Nat /\ Sent \subseteq Nat
  BY SizeAssumption DEF Gap, Sent
<1>3. \A i \in Stamped : i \in Nat /\ stamped[i] \in Nat
  BY <1>2, ClockAssumption DEF Stamped, TypeInv, TypeOK
<1>4. QED
  BY <1>1, <1>2, <1>3

\* A frame more is a gap more.
LEMMA OneGapMore ==
  ASSUME NEW n \in Int, NEW i \in Int, NEW g \in Int
  PROVE  (n + 1 - i) * g = (n - i) * g + g
OBVIOUS

\* A stamp is given when the loop reaches its frame, a gap after the last.
LEMMA PaceSends ==
  ASSUME TypeInv, TrafficInv, PaceInv, SendOnePacket
  PROVE  PaceInv'
<1> USE DEF SendOnePacket
<1>1. iteration \in Sent /\ iteration \in Nat /\ clock \in Nat
  BY StampsAreNumbers DEF TypeInv, SenderInv
<1>2. stamped' = [stamped EXCEPT ![iteration] = clock]
  OBVIOUS
<1>3. Stamped' = Stamped \cup {iteration} /\ stamped'[iteration] = clock
  BY <1>1, <1>2 DEF Stamped, TypeInv, TypeOK
<1>4. \A i \in Stamped : i < iteration /\ stamped'[i] = stamped[i]
  BY <1>1, <1>2, StampsAreNumbers
     DEF Stamped, TrafficInv, StampInv, TypeInv, TypeOK
<1>5. \A i \in Stamped' : clock >= stamped'[i] + (iteration - i) * Gap
  <2>1. clock >= clock + (iteration - iteration) * Gap
    BY <1>1, StampsAreNumbers
  <2>2. QED
    BY <1>3, <1>4, <2>1 DEF PaceInv
<1>6. \A i \in Stamped' : i \in Nat /\ stamped'[i] \in Nat
  BY <1>1, <1>3, <1>4, StampsAreNumbers
<1>7. ASSUME NEW i \in Stamped'
      PROVE  waitUntil' >= stamped'[i] + (iteration' - i) * Gap + SendPeriod
  <2>1. (iteration - i) * Gap \in Int
    BY <1>1, <1>6, <1>7, StampsAreNumbers
  <2>2. QED
    BY <1>1, <1>5, <1>6, <1>7, <2>1, SizeAssumption
<1>8. ASSUME NEW i \in Stamped', NEW j \in Stamped', i < j
      PROVE  stamped'[j] - stamped'[i] >= (j - i) * Gap
  <2>1. CASE j = iteration
    <3>1. i \in Stamped /\ (iteration - i) * Gap \in Int
      BY <1>1, <1>3, <1>6, <1>8, <2>1, StampsAreNumbers
    <3>2. QED
      BY <1>1, <1>3, <1>5, <1>6, <2>1, <3>1
  <2>2. CASE j # iteration
    <3>1. j \in Stamped /\ i \in Stamped
      BY <1>1, <1>3, <1>4, <1>6, <1>8, <2>2
    <3>2. QED
      BY <1>4, <1>8, <3>1 DEF PaceInv
  <2>3. QED
    BY <2>1, <2>2
<1>9. QED
  BY <1>1, <1>7, <1>8 DEF PaceInv, Gap

\* The wait ends a period after the stamp by the clock that may be fast.
LEMMA PaceWaits ==
  ASSUME TypeInv, PaceInv, BusyWaitEnds
  PROVE  PaceInv'
<1> USE DEF BusyWaitEnds
<1>1. /\ Stamped' = Stamped /\ stamped' = stamped /\ clock' = clock
      /\ iteration' = iteration + 1
  BY DEF Stamped
<1>2. ASSUME NEW i \in Stamped
      PROVE  clock >= stamped[i] + (iteration + 1 - i) * Gap
  <2>1. i \in Nat /\ stamped[i] \in Nat
    BY StampsAreNumbers
  <2>2. waitUntil >= stamped[i] + (iteration - i) * Gap + SendPeriod
    BY DEF PaceInv
  <2>3. clock >= waitUntil - Slew
    BY StampsAreNumbers, SizeAssumption DEF WaitOver
  <2>4. (iteration + 1 - i) * Gap = (iteration - i) * Gap + Gap
    BY <2>1, StampsAreNumbers, OneGapMore
  <2>5. (iteration - i) * Gap \in Int
    BY <2>1, StampsAreNumbers
  <2>6. QED
    BY <2>1, <2>2, <2>3, <2>4, <2>5, StampsAreNumbers, SizeAssumption DEF Gap
<1>3. \A i \in Stamped' : clock' >= stamped'[i] + (iteration' - i) * Gap
  BY <1>1, <1>2, StampsAreNumbers
<1>4. \A i, j \in Stamped' : i < j => stamped'[j] - stamped'[i] >= (j - i) * Gap
  BY <1>1 DEF PaceInv
<1>5. sPc' # "busy_wait"
  OBVIOUS
<1>6. QED
  BY <1>3, <1>4, <1>5 DEF PaceInv, Gap

\* Only the sender stamps, and the clock never goes back.
LEMMA PaceInductive ==
  ASSUME TypeInv, TrafficInv, PaceInv, [Next]_vars
  PROVE  PaceInv'
<1>1. CASE SendOnePacket
  BY <1>1, PaceSends
<1>2. CASE BusyWaitEnds
  BY <1>2, PaceWaits
<1>3. CASE SenderStart
  BY <1>3, ClockAssumption
     DEF SenderStart, PaceInv, Stamped, Gap, TrafficInv, StampInv, TypeInv,
         SenderInv, Sent
<1>4. CASE SendFails
  BY <1>4 DEF SendFails, PaceInv, Stamped, Gap
<1>5. CASE Tick
  <2>1. clock' = clock + 1 /\ UNCHANGED senderVars
    BY <1>5 DEF Tick
  <2>2. ASSUME NEW i \in Stamped, sPc = "send"
        PROVE  clock + 1 >= stamped[i] + (iteration - i) * Gap
    <3>1. clock >= stamped[i] + (iteration - i) * Gap
      BY <2>2 DEF PaceInv
    <3>2. (iteration - i) * Gap \in Int /\ stamped[i] \in Int /\ clock \in Int
      BY StampsAreNumbers
    <3>3. QED
      BY <3>1, <3>2
  <2>3. QED
    BY <2>1, <2>2 DEF senderVars, PaceInv, Stamped, Gap
<1>6. CASE UNCHANGED <<clock, senderVars>>
  BY <1>6 DEF senderVars, PaceInv, Stamped, Gap
<1>7. ForeignFrame \/ ReceiverNext \/ (\E r \in Replier : ReplierNext(r))
        => UNCHANGED <<clock, senderVars>>
  BY DEF ForeignFrame, ReplierNext, ReplierReady, ReplierRecvFails,
         ReplierIgnores, ReplierEchoes, ReplierSendFails, ReceiverNext,
         ReceiverReady, PressEnter, ReceiverLoopEnds, ReceiverFails,
         WriteResults, ReceiverSkips, ReceiverRecords
<1>8. QED
  BY <1>1, <1>2, <1>3, <1>4, <1>5, <1>6, <1>7 DEF Next, SenderNext, vars

\* The send times in the table are a send period apart per frame, less the
\* slew, for every period, every slew within it and every number of frames.
THEOREM SenderIsPaced == Spec => []Paced
<1> DEFINE Inv == TypeInv /\ TrafficInv /\ TableInv /\ PaceInv
<1>1. Init => Inv
  <2> SUFFICES ASSUME Init PROVE TableInv /\ PaceInv
    BY TypeInit, TrafficInit
  <2>1. Valid = {} /\ Stamped = {}
    BY DEF Init, Valid, Stamped
  <2>2. QED
    BY <2>1 DEF Init, TableInv, RecordedWasProtected, LatencyIsReal, PaceInv
<1>2. Inv /\ [Next]_vars => Inv'
  BY TypeInductive, TrafficInductive, TableInductive, PaceInductive
<1>3. Inv => Paced
  <2> SUFFICES ASSUME Inv, NEW i \in Valid, NEW j \in Valid, i < j
               PROVE  send_ts_ns[j] - send_ts_ns[i] >= (j - i) * (SendPeriod - Slew)
    BY DEF Paced
  <2>1. ASSUME NEW k \in Valid
        PROVE  k \in Stamped /\ send_ts_ns[k] = stamped[k]
    <3>1. k \in Sent /\ send_ts_ns[k] = stamped[k] /\ \E r \in Replier : steps[r][k] > 0
      BY DEF TableInv, RecordedWasProtected, LatencyIsReal
    <3>2. stamped[k] # -1
      BY <3>1 DEF TrafficInv, StampInv
    <3>3. QED
      BY <3>1, <3>2 DEF Stamped
  <2>2. QED
    BY <2>1 DEF PaceInv, Gap
<1>4. QED
  BY <1>1, <1>2, <1>3, PTL DEF Spec
-----------------------------------------------------------------------------
(* The steps of a series *)

\* The series restarts one program at a time, and does nothing else that the
\* single experiment does not do.
Restart == \/ SenderRestarts \/ ReceiverRestarts
           \/ \E r \in Replier : ReplierRestarts(r)

\* Every other step is a step of one of the programs, or of the clock.
LEMMA SeriesStep ==
  ASSUME SeriesNext
  PROVE  \/ Restart
         \/ SenderNext
         \/ ReceiverNext
         \/ Tick \/ \E r \in Replier : ReplierNext(r)
BY DEF SeriesNext, Restart, SenderSteps, OtherSteps, ReceiverGetsReady,
       ReceiverReports, ReceiverNext

-----------------------------------------------------------------------------
(* Types *)

\* The types of what outlives a session.
HistoryOK == /\ readyAt \in Time /\ drained \in BOOLEAN /\ written \in BOOLEAN
             /\ sessions \in Nat
             /\ everStamped \subseteq Sent \X Time

\* The type invariant of the series.
SeriesTypeInv == TypeInv /\ HistoryOK

\* A program that starts again is in the state it started in.
LEMMA TypeRestart ==
  ASSUME TypeInv, Restart
  PROVE  TypeInv'
<1> USE DEF TypeInv, TypeOK, SenderInv
<1>1. CASE SenderRestarts
  BY <1>1 DEF SenderRestarts, replierVars, receiverVars, logVars
<1>2. CASE ReceiverRestarts
  BY <1>2, ClockAssumption
     DEF ReceiverRestarts, AllMissing, NoResults, senderVars, replierVars
<1>3. ASSUME NEW r \in Replier, ReplierRestarts(r) PROVE TypeInv'
  BY <1>3 DEF ReplierRestarts, senderVars, receiverVars, logVars
<1>4. QED
  BY <1>1, <1>2, <1>3 DEF Restart

\* What a sender's step adds to the stamps ever given.
LEMMA StampsType ==
  ASSUME stamped' \in [Sent -> Time \cup {-1}]
  PROVE  StampsNow \subseteq Sent \X Time
BY DEF StampsNow

\* The type invariant is inductive over the series.
LEMMA SeriesTypeInductive ==
  ASSUME SeriesTypeInv, [SeriesNext]_seriesVars
  PROVE  SeriesTypeInv'
<1> USE DEF SeriesTypeInv
<1>1. CASE UNCHANGED seriesVars
  BY <1>1, TypeInductive DEF seriesVars, historyVars, HistoryOK
<1>2. CASE SeriesNext
  <2>1. TypeInv'
    BY <1>2, SeriesStep, TypeRestart, TypeSender, TypeReceiver, TypeReplier,
       TypeEnvironment
  <2>2. HistoryOK'
    <3>1. CASE SenderSteps
      BY <3>1, <2>1, StampsType
         DEF SenderSteps, HistoryOK, TypeInv, TypeOK
    <3>2. CASE ReceiverGetsReady
      BY <3>2 DEF ReceiverGetsReady, HistoryOK, TypeInv, TypeOK
    <3>3. CASE ReceiverReports
      BY <3>3 DEF ReceiverReports, HistoryOK
    <3>4. CASE UNCHANGED historyVars
      BY <3>4 DEF historyVars, HistoryOK
    <3>5. QED
      BY <1>2, <3>1, <3>2, <3>3, <3>4
         DEF SeriesNext, OtherSteps, SenderRestarts, ReceiverRestarts,
             ReplierRestarts
  <2>3. QED
    BY <2>1, <2>2
<1>3. QED
  BY <1>1, <1>2

\* In the first state of the series no program has started.
LEMMA SeriesTypeInit ==
  ASSUME SeriesInit
  PROVE  SeriesTypeInv
BY TypeInit, ClockAssumption
   DEF SeriesInit, SeriesTypeInv, HistoryOK, Init

\* The type invariant of the round trip, over any series of restarts.
THEOREM SeriesTypeCorrect == SeriesSpec => []TypeOK
<1>1. SeriesTypeInv => TypeOK
  BY DEF SeriesTypeInv, TypeInv
<1>2. QED
  BY <1>1, SeriesTypeInit, SeriesTypeInductive, PTL DEF SeriesSpec

-----------------------------------------------------------------------------
(* What is on the wire, and what the receiver makes of it *)

\* A frame on its way out, and one on its way back.
Outbound(f) == f.src = Tester /\ f.dst = DestMac
Inbound(f) == f.src \in Replier /\ f.dst = Tester

\* A queued frame of any session was stamped in one of them, not after the
\* present; and if nothing was under way when the receiver got ready, not
\* before that.
FrameInv(f) ==
  /\ <<f.frame_id, f.timestamp>> \in everStamped
  /\ f.timestamp <= clock
  /\ drained => f.timestamp >= readyAt
  /\ Outbound(f) \/ Inbound(f)

WireInv == \A s \in Station : \A m \in inbox[s] : ~m.frame.short => FrameInv(m.frame)

\* The receiver's slots hold such times, and none before it is ready.
SlotInv ==
  /\ readyAt <= clock
  /\ xPc = "down" => Valid = {}
  /\ RecordedWasStamped /\ FreshWhenDrained

\* Steps that only drain sockets, with all else in place.
LEMMA WireDrains ==
  ASSUME WireInv, UNCHANGED <<clock, everStamped, drained, readyAt>>,
         \A s \in Station : inbox'[s] \subseteq inbox[s]
  PROVE  WireInv'
BY DEF WireInv, FrameInv, Outbound, Inbound

\* A transmission of such a frame.
LEMMA WireTransmits ==
  ASSUME SeriesTypeInv, NEW box \in [Station -> SUBSET Message],
         NEW from \in Station, NEW f, Transmit(box, from, f),
         \A s \in Station : \A m \in box[s] : ~m.frame.short => FrameInv(m.frame)',
         FrameInv(f)'
  PROVE  WireInv'
BY TransmitHolds DEF WireInv

\* Stamps only accumulate and the clock only advances.
LEMMA FramesStay ==
  ASSUME SeriesTypeInv, everStamped \subseteq everStamped',
         clock' \in Time, clock <= clock', UNCHANGED <<drained, readyAt>>,
         NEW m \in Message, ~m.frame.short, FrameInv(m.frame)
  PROVE  FrameInv(m.frame)'
<1>1. m.frame.timestamp \in Nat /\ clock \in Nat /\ clock' \in Nat
  BY LongFrame, ClockAssumption DEF SeriesTypeInv, TypeInv, TypeOK
<1>2. QED
  BY <1>1 DEF FrameInv, Outbound, Inbound

\* The sender queues frames it stamps at the present.
LEMMA WireSender ==
  ASSUME SeriesTypeInv, WireInv, SlotInv, SenderSteps, TypeInv'
  PROVE  WireInv'
<1> USE DEF SenderSteps, SeriesTypeInv, TypeInv, TypeOK
<1>1. /\ clock' = clock /\ clock \in Nat /\ UNCHANGED <<drained, readyAt>>
      /\ everStamped \subseteq everStamped'
  BY ClockAssumption
     DEF SenderNext, SenderStart, SendOnePacket, SendFails, BusyWaitEnds
<1>2. \A s \in Station : \A m \in inbox[s] : ~m.frame.short => FrameInv(m.frame)'
  BY <1>1, FramesStay DEF WireInv
<1>3. CASE SendOnePacket
  <2>1. iteration \in Sent /\ stamped' = [stamped EXCEPT ![iteration] = clock]
    BY <1>3 DEF SendOnePacket, SenderInv
  <2>2. <<iteration, clock>> \in everStamped'
    BY <1>1, <2>1 DEF StampsNow
  <2>3. FrameInv(CurrentFrame)'
    <3>1. iteration' = iteration
      BY <1>3 DEF SendOnePacket
    <3>2. readyAt <= clock
      BY DEF SlotInv
    <3>3. QED
      BY <1>1, <2>2, <3>1, <3>2
         DEF FrameInv, CurrentFrame, SvFrame, Outbound, Inbound
  <2>4. Transmit(inbox, Tester, CurrentFrame) /\ CurrentFrame' = CurrentFrame
    BY <1>1, <1>3 DEF SendOnePacket, CurrentFrame, SvFrame
  <2>5. QED
    BY <1>2, <2>3, <2>4, WireTransmits DEF Station
<1>4. CASE inbox' = inbox
  BY <1>2, <1>4 DEF WireInv
<1>5. QED
  BY <1>3, <1>4 DEF SenderNext, SenderStart, SendFails, BusyWaitEnds

\* A replier queues echoes of what it was sent.
LEMMA WireReplier ==
  ASSUME SeriesTypeInv, WireInv, NEW r \in Replier, ReplierNext(r),
         UNCHANGED historyVars
  PROVE  WireInv'
<1> USE DEF SeriesTypeInv, TypeInv, TypeOK, historyVars
<1>1. r \in Station /\ clock' = clock
  BY DEF Station, ReplierNext, ReplierReady, ReplierRecvFails, ReplierIgnores,
         ReplierEchoes, ReplierSendFails
<1>2. ASSUME NEW m \in inbox[r], ReplierEchoes(r, m) PROVE WireInv'
  <2>1. /\ Transmit(Taken(r, m), r, Echo(r, m.frame)) /\ ForUs(r, m.frame)
        /\ m \in Message /\ m.frame \in Frame
    BY <1>1, <1>2, LongFrame DEF ReplierEchoes, ForUs
  <2>2. FrameInv(m.frame) /\ Outbound(m.frame)
    BY <1>1, <2>1, StationAssumption DEF ForUs, WireInv, FrameInv, Inbound
  <2>3. FrameInv(Echo(r, m.frame))'
    BY <1>1, <2>1, <2>2
       DEF Echo, Frame, FrameInv, Outbound, Inbound
  <2>4. /\ Taken(r, m) \in [Station -> SUBSET Message]
        /\ \A s \in Station : \A n \in Taken(r, m)[s] :
             ~n.frame.short => FrameInv(n.frame)'
    BY <1>1, TakenType DEF Taken, WireInv, FrameInv, Outbound, Inbound
  <2>5. QED
    BY <1>1, <2>1, <2>3, <2>4, WireTransmits
<1>3. CASE \A s \in Station : inbox'[s] \subseteq inbox[s]
  BY <1>1, <1>3, WireDrains
<1>4. QED
  BY <1>1, <1>2, <1>3
     DEF ReplierNext, ReplierReady, ReplierRecvFails, ReplierIgnores,
         ReplierSendFails, Taken

\* hot_receiver records such frames.
LEMMA SlotReceiver ==
  ASSUME SeriesTypeInv, WireInv, SlotInv, ReceiverNext, xPc # "down",
         UNCHANGED <<everStamped, drained, readyAt>>
  PROVE  WireInv' /\ SlotInv'
<1> USE DEF SeriesTypeInv, TypeInv, TypeOK
<1>1. clock' = clock /\ \A s \in Station : inbox'[s] \subseteq inbox[s]
  BY DEF ReceiverNext, ReceiverReady, PressEnter, ReceiverLoopEnds,
         ReceiverFails, WriteResults, ReceiverSkips, ReceiverRecords,
         Taken, Station
<1>2. xPc' # "down"
  BY DEF ReceiverNext, ReceiverReady, PressEnter, ReceiverLoopEnds,
         ReceiverFails, WriteResults, ReceiverSkips, ReceiverRecords,
         receiverVars
<1>3. CASE UNCHANGED logVars
  BY <1>1, <1>2, <1>3, WireDrains
     DEF SlotInv, RecordedWasStamped, FreshWhenDrained, Valid, logVars
<1>4. ASSUME NEW m \in inbox[Tester], ReceiverRecords(m) PROVE SlotInv'
  <2> DEFINE k == m.frame.frame_id
  <2>1. m \in Message /\ ~m.frame.short /\ k < Expected
    BY <1>4 DEF ReceiverRecords, Wanted, Station
  <2>2. k \in FrameId /\ m.frame.timestamp \in Time
    BY <2>1, LongFrame, SizeAssumption DEF Sent, FrameId
  <2>3. FrameInv(m.frame)
    BY <2>1 DEF WireInv, Station
  <2>4. /\ send_ts_ns' = [send_ts_ns EXCEPT ![k] = m.frame.timestamp]
        /\ recv_ts_ns' = [recv_ts_ns EXCEPT ![k] = clock]
        /\ is_missing' = [is_missing EXCEPT ![k] = 0]
    BY <1>4 DEF ReceiverRecords
  <2>5. ASSUME NEW i \in Valid'
        PROVE  /\ <<i, send_ts_ns'[i]>> \in everStamped'
               /\ send_ts_ns'[i] <= recv_ts_ns'[i] /\ recv_ts_ns'[i] <= clock'
               /\ drained' => send_ts_ns'[i] >= readyAt'
    <3>1. CASE i = k
      <4>1. send_ts_ns'[k] = m.frame.timestamp /\ recv_ts_ns'[k] = clock
        BY <2>2, <2>4
      <4>2. clock \in Nat /\ m.frame.timestamp \in Nat
        BY <2>2, ClockAssumption
      <4>3. QED
        BY <3>1, <4>1, <4>2, <1>1, <2>3 DEF FrameInv
    <3>2. CASE i # k
      <4>1. i \in Valid
        BY <3>2, <2>4, <2>5 DEF Valid
      <4>2. send_ts_ns'[i] = send_ts_ns[i] /\ recv_ts_ns'[i] = recv_ts_ns[i]
        BY <3>2, <4>1, <2>4 DEF Valid
      <4>3. QED
        BY <1>1, <4>1, <4>2 DEF SlotInv, RecordedWasStamped, FreshWhenDrained
    <3>3. QED
      BY <3>1, <3>2
  <2>6. QED
    BY <1>1, <1>2, <2>5 DEF SlotInv, RecordedWasStamped, FreshWhenDrained
<1>5. QED
  BY <1>1, <1>3, <1>4, WireDrains
     DEF ReceiverNext, ReceiverReady, PressEnter, ReceiverLoopEnds,
         ReceiverFails, WriteResults, ReceiverSkips, receiverVars

\* The series keeps the wire and the slots as described.
LEMMA SlotsInductive ==
  ASSUME SeriesTypeInv, WireInv, SlotInv, [SeriesNext]_seriesVars
  PROVE  WireInv' /\ SlotInv'
<1>0. SeriesTypeInv'
  BY SeriesTypeInductive
<1>1. CASE UNCHANGED seriesVars
  BY <1>1, WireDrains
     DEF seriesVars, vars, receiverVars, logVars, historyVars,
         SlotInv, RecordedWasStamped, FreshWhenDrained, Valid
<1>2. CASE SenderSteps
  <2>1. WireInv'
    BY <1>0, <1>2, WireSender DEF SeriesTypeInv
  <2>2. UNCHANGED <<clock, receiverVars>>
    BY <1>2
       DEF SenderSteps, SenderNext, SenderStart, SendOnePacket, SendFails, BusyWaitEnds
  <2>3. QED
    BY <1>2, <2>1, <2>2
       DEF SenderSteps, receiverVars, logVars,
           SlotInv, RecordedWasStamped, FreshWhenDrained, Valid
<1>3. CASE Tick /\ UNCHANGED historyVars
  <2>1. /\ UNCHANGED <<inbox, receiverVars, drained, readyAt, everStamped>>
        /\ clock' = clock + 1 /\ clock' \in Time /\ clock \in Nat
    BY <1>3, ClockAssumption
       DEF Tick, historyVars, SeriesTypeInv, TypeInv, TypeOK
  <2>2. WireInv'
    BY <2>1, FramesStay DEF WireInv, SeriesTypeInv, TypeInv, TypeOK
  <2>3. readyAt \in Nat /\ \A i \in Valid : recv_ts_ns[i] \in Nat
    BY ClockAssumption DEF SeriesTypeInv, HistoryOK, TypeInv, TypeOK, Valid
  <2>4. QED
    BY <2>1, <2>2, <2>3
       DEF receiverVars, logVars, SlotInv, RecordedWasStamped, FreshWhenDrained, Valid
<1>4. CASE (\E r \in Replier : ReplierNext(r)) /\ UNCHANGED historyVars
  <2>1. UNCHANGED <<clock, receiverVars>>
    BY <1>4
       DEF ReplierNext, ReplierReady, ReplierRecvFails, ReplierIgnores,
           ReplierEchoes, ReplierSendFails
  <2>2. QED
    BY <1>4, <2>1, WireReplier
       DEF historyVars, receiverVars, logVars, SlotInv, RecordedWasStamped,
           FreshWhenDrained, Valid
<1>5. CASE /\ ReceiverNext /\ xPc # "down"
           /\ UNCHANGED <<everStamped, drained, readyAt>>
  BY <1>5, SlotReceiver
<1>6. CASE ReceiverGetsReady
  <2>1. /\ UNCHANGED <<clock, inbox, logVars, everStamped>> /\ xPc' # "down"
        /\ Valid = {} /\ readyAt' = clock /\ clock \in Nat
    BY <1>6, ClockAssumption
       DEF ReceiverGetsReady, ReceiverReady, SlotInv, SeriesTypeInv, TypeInv, TypeOK
  <2>2. WireInv'
    BY <1>6, <2>1 DEF ReceiverGetsReady, WireInv, FrameInv, Outbound, Inbound
  <2>3. QED
    BY <2>1, <2>2 DEF logVars, SlotInv, RecordedWasStamped, FreshWhenDrained, Valid
<1>7. CASE SenderRestarts
  BY <1>7, WireDrains
     DEF SenderRestarts, receiverVars, logVars, historyVars,
         SlotInv, RecordedWasStamped, FreshWhenDrained, Valid
<1>8. CASE ReceiverRestarts
  <2>1. Valid' = {}
    BY <1>8 DEF ReceiverRestarts, AllMissing, Valid
  <2>2. QED
    BY <1>8, <2>1, WireDrains
       DEF ReceiverRestarts, historyVars, SlotInv, RecordedWasStamped, FreshWhenDrained
<1>9. ASSUME NEW r \in Replier, ReplierRestarts(r) PROVE WireInv' /\ SlotInv'
  <2>1. \A s \in Station : inbox'[s] \subseteq inbox[s]
    BY <1>9 DEF ReplierRestarts, SeriesTypeInv, TypeInv, TypeOK
  <2>2. QED
    BY <1>9, <2>1, WireDrains
       DEF ReplierRestarts, receiverVars, logVars, historyVars,
           SlotInv, RecordedWasStamped, FreshWhenDrained, Valid
<1>10. CASE ReceiverReports
  BY <1>5, <1>10 DEF ReceiverReports, WriteResults, ReceiverNext
<1>11. CASE OtherSteps
  BY <1>3, <1>4, <1>5, <1>11 DEF OtherSteps, historyVars
<1>12. QED
  BY <1>1, <1>2, <1>6, <1>7, <1>8, <1>9, <1>10, <1>11 DEF SeriesNext

\* With empty sockets and an empty table.
LEMMA SlotsInit ==
  ASSUME SeriesInit
  PROVE  WireInv /\ SlotInv
<1>1. Valid = {}
  BY DEF SeriesInit, Init, Valid
<1>2. QED
  BY <1>1
     DEF SeriesInit, Init, WireInv, SlotInv, RecordedWasStamped, FreshWhenDrained

\* Every recorded time was stamped by some session for that id and is not after
\* the reception; of a receiver that got ready with nothing under way, by a
\* session that stamped it no earlier.
THEOREM SlotsAcrossSessions == SeriesSpec => [](RecordedWasStamped /\ FreshWhenDrained)
<1> DEFINE Inv == SeriesTypeInv /\ WireInv /\ SlotInv
<1>1. SeriesInit => Inv
  BY SeriesTypeInit, SlotsInit
<1>2. Inv /\ [SeriesNext]_seriesVars => Inv'
  BY SeriesTypeInductive, SlotsInductive
<1>3. Inv => RecordedWasStamped /\ FreshWhenDrained
  BY DEF SlotInv
<1>4. QED
  BY <1>1, <1>2, <1>3, PTL DEF SeriesSpec

-----------------------------------------------------------------------------
(* Protection steps per session *)

\* The frames of an id that the sender put into a replier's socket, and the one
\* that the session of this moment will still transmit.
Pending(r, i) == {m \in inbox[r] : /\ ~m.frame.short
                                   /\ m.frame.src = Tester /\ m.frame.frame_id = i}
Due(i) == IF sPc \in {"send", "busy_wait"} /\ stamped[i] = -1 THEN 1 ELSE 0

\* A session transmits an id once.
OrderInv ==
  \A i \in Sent :
    /\ sPc \in {"ready", "send"} /\ i >= iteration => stamped[i] = -1
    /\ sPc = "busy_wait" /\ i > iteration => stamped[i] = -1

\* What a replier has run, has queued and may still get of an id is no more
\* than one frame per session.
StepInv ==
  \A r \in Replier, i \in Sent :
    /\ IsFiniteSet(Pending(r, i))
    /\ steps[r][i] + Cardinality(Pending(r, i)) + Due(i) <= sessions

\* A set that gains at most one member, or loses one.
LEMMA OneMoreMember ==
  ASSUME NEW S, IsFiniteSet(S), NEW x, NEW T \in SUBSET (S \cup {x})
  PROVE  /\ IsFiniteSet(T) /\ Cardinality(T) \in Nat
         /\ Cardinality(T) <= Cardinality(S) + 1
<1>1. /\ IsFiniteSet(S \cup {x}) /\ Cardinality(S) \in Nat
      /\ \/ Cardinality(S \cup {x}) = Cardinality(S)
         \/ Cardinality(S \cup {x}) = Cardinality(S) + 1
  BY FS_AddElement, FS_CardinalityType
<1>2. /\ IsFiniteSet(T) /\ Cardinality(T) <= Cardinality(S \cup {x})
  BY <1>1, FS_Subset
<1>3. Cardinality(T) \in Nat
  BY <1>2, FS_CardinalityType
<1>4. QED
  BY <1>1, <1>2, <1>3
LEMMA OneMemberLess ==
  ASSUME NEW S, IsFiniteSet(S), NEW x \in S, NEW T \in SUBSET (S \ {x})
  PROVE  /\ IsFiniteSet(T) /\ Cardinality(T) \in Nat
         /\ Cardinality(T) <= Cardinality(S) - 1
<1>1. /\ IsFiniteSet(S \ {x}) /\ Cardinality(S) \in Nat
      /\ Cardinality(S \ {x}) = Cardinality(S) - 1
  BY FS_RemoveElement, FS_CardinalityType
<1>2. /\ IsFiniteSet(T) /\ Cardinality(T) <= Cardinality(S \ {x})
  BY <1>1, FS_Subset
<1>3. Cardinality(T) \in Nat
  BY <1>2, FS_CardinalityType
<1>4. QED
  BY <1>1, <1>2, <1>3

\* The numbers in StepInv.
LEMMA StepNumbers ==
  ASSUME SeriesTypeInv, StepInv, NEW r \in Replier, NEW i \in Sent
  PROVE  /\ IsFiniteSet(Pending(r, i)) /\ Cardinality(Pending(r, i)) \in Nat
         /\ Due(i) \in {0, 1} /\ steps[r][i] \in Nat /\ sessions \in Nat
         /\ steps[r][i] + Cardinality(Pending(r, i)) + Due(i) <= sessions
BY FS_CardinalityType
   DEF StepInv, Due, SeriesTypeInv, TypeInv, TypeOK, HistoryOK

\* Nothing more is run, queued or to be sent, and no session less was started.
LEMMA StepsNoMore ==
  ASSUME SeriesTypeInv, StepInv, UNCHANGED steps, sessions' = sessions,
         \A r \in Replier, i \in Sent : Pending(r, i)' \subseteq Pending(r, i),
         \A i \in Sent : Due(i)' <= Due(i) /\ Due(i)' \in {0, 1}
  PROVE  StepInv'
<1> SUFFICES ASSUME NEW r \in Replier, NEW i \in Sent
             PROVE  /\ IsFiniteSet(Pending(r, i)')
                    /\ steps'[r][i] + Cardinality(Pending(r, i)') + Due(i)' <= sessions'
  BY DEF StepInv
<1>1. /\ IsFiniteSet(Pending(r, i)) /\ Cardinality(Pending(r, i)) \in Nat
      /\ Due(i) \in {0, 1} /\ steps[r][i] \in Nat /\ sessions \in Nat
      /\ steps[r][i] + Cardinality(Pending(r, i)) + Due(i) <= sessions
  BY StepNumbers
<1>2. /\ IsFiniteSet(Pending(r, i)')
      /\ Cardinality(Pending(r, i)') <= Cardinality(Pending(r, i))
      /\ Cardinality(Pending(r, i)') \in Nat
  BY <1>1, FS_Subset, FS_CardinalityType
<1>3. QED
  BY <1>1, <1>2

\* The sender: a session starts, or what was due is queued.
LEMMA StepsSender ==
  ASSUME SeriesTypeInv, OrderInv, StepInv, SenderSteps
  PROVE  OrderInv' /\ StepInv'
<1> USE DEF SenderSteps, SeriesTypeInv, TypeInv, TypeOK, SenderInv
<1>1. CASE SenderStart
  <2>1. UNCHANGED <<steps, inbox, stamped, iteration>> /\ sessions' = sessions + 1
    BY <1>1 DEF SenderStart, replierVars
  <2>2. \A i \in Sent : Due(i)' \in {0, 1} /\ Due(i) = 0
    BY <1>1 DEF SenderStart, Due
  <2>3. ASSUME NEW r \in Replier, NEW i \in Sent
        PROVE  /\ IsFiniteSet(Pending(r, i)')
               /\ steps'[r][i] + Cardinality(Pending(r, i)') + Due(i)' <= sessions'
    <3>1. Pending(r, i)' = Pending(r, i)
      BY <2>1 DEF Pending
    <3>2. QED
      BY <2>1, <2>2, <3>1, StepNumbers
  <2>4. OrderInv'
    BY <1>1, <2>1 DEF SenderStart, OrderInv
  <2>5. QED
    BY <2>3, <2>4 DEF StepInv
<1>2. CASE SendOnePacket
  <2>1. /\ iteration \in Sent /\ iteration \in Nat
        /\ stamped[iteration] = -1 /\ clock \in Nat
        /\ stamped' = [stamped EXCEPT ![iteration] = clock]
        /\ sPc = "send" /\ sPc' = "busy_wait" /\ iteration' = iteration
        /\ UNCHANGED <<steps, sessions>>
    BY <1>2, ClockAssumption DEF SendOnePacket, OrderInv, replierVars
  <2>2. OrderInv'
    BY <2>1 DEF OrderInv, Sent
  <2>3. ASSUME NEW r \in Replier, NEW i \in Sent
        PROVE  /\ IsFiniteSet(Pending(r, i)')
               /\ steps'[r][i] + Cardinality(Pending(r, i)') + Due(i)' <= sessions'
    <3> DEFINE new == [frame |-> CurrentFrame, outgoing |-> (r = Tester)]
    <3>1. r \in Station
      BY DEF Station
    <3>2. inbox'[r] \subseteq inbox[r] \cup {new}
      BY <1>2, <3>1, TransmitHolds DEF SendOnePacket, Station
    <3>3. CASE i = iteration
      <4>1. Pending(r, i)' \subseteq Pending(r, i) \cup {new}
        BY <3>2 DEF Pending
      <4>3. /\ IsFiniteSet(Pending(r, i)') /\ Cardinality(Pending(r, i)') \in Nat
            /\ Cardinality(Pending(r, i)') <= Cardinality(Pending(r, i)) + 1
        <5>1. IsFiniteSet(Pending(r, i))
          BY StepNumbers
        <5>2. QED
          BY <4>1, <5>1, OneMoreMember
      <4>4. Due(i) = 1 /\ Due(i)' = 0
        BY <2>1, <3>3 DEF Due
      <4>5. QED
        BY <2>1, <4>3, <4>4, StepNumbers
    <3>4. CASE i # iteration
      <4>1. new.frame.frame_id # i
        BY <3>4 DEF CurrentFrame, SvFrame
      <4>2. Pending(r, i)' \subseteq Pending(r, i)
        BY <3>2, <4>1 DEF Pending
      <4>3. /\ IsFiniteSet(Pending(r, i)') /\ Cardinality(Pending(r, i)') \in Nat
            /\ Cardinality(Pending(r, i)') <= Cardinality(Pending(r, i))
        BY <4>2, StepNumbers, FS_Subset, FS_CardinalityType
      <4>4. Due(i)' = Due(i)
        BY <2>1, <3>4 DEF Due
      <4>5. QED
        BY <2>1, <4>3, <4>4, StepNumbers
    <3>5. QED
      BY <3>3, <3>4
  <2>4. QED
    BY <2>2, <2>3 DEF StepInv
<1>3. CASE SendFails \/ BusyWaitEnds
  <2>1. /\ UNCHANGED <<steps, inbox, stamped, sessions>>
        /\ sPc \in {"send", "busy_wait"}
    BY <1>3 DEF SendFails, BusyWaitEnds, replierVars
  <2>2. OrderInv'
    BY <1>3, <2>1 DEF SendFails, BusyWaitEnds, OrderInv, Sent
  <2>3. \A i \in Sent : Due(i)' <= Due(i) /\ Due(i)' \in {0, 1}
    BY <2>1 DEF Due
  <2>4. QED
    BY <2>1, <2>2, <2>3, StepsNoMore DEF Pending
<1>4. QED
  BY <1>1, <1>2, <1>3 DEF SenderNext

\* A replier runs protection on one of the frames it has queued, and puts none
\* of the sender's into a socket.
LEMMA StepsReplier ==
  ASSUME SeriesTypeInv, WireInv, StepInv, NEW r \in Replier, ReplierNext(r),
         UNCHANGED historyVars
  PROVE  StepInv'
<1> USE DEF SeriesTypeInv, TypeInv, TypeOK
<1>1. /\ UNCHANGED senderVars /\ sessions' = sessions /\ r \in Station
      /\ \A i \in Sent : Due(i)' = Due(i)
  BY DEF ReplierNext, ReplierReady, ReplierRecvFails, ReplierIgnores,
         ReplierEchoes, ReplierSendFails, Station, historyVars, senderVars, Due
<1>2. ASSUME NEW m \in inbox[r], ForUs(r, m.frame), StepProtection(r, m.frame),
             \A s \in Replier : \A n \in inbox'[s] :
               n \in Taken(r, m)[s] \/ n.frame.src = r
      PROVE  StepInv'
  <2> DEFINE k == m.frame.frame_id
  <2>1. m \in Message /\ ~m.frame.short /\ k \in Sent
    BY <1>1, <1>2, LongFrame DEF ForUs
  <2>2. m.frame.src = Tester /\ m \in Pending(r, k)
    BY <1>1, <1>2, <2>1, StationAssumption
       DEF ForUs, WireInv, FrameInv, Outbound, Inbound, Pending
  <2>3. ASSUME NEW s \in Replier, NEW i \in Sent
        PROVE  /\ IsFiniteSet(Pending(s, i)')
               /\ steps'[s][i] + Cardinality(Pending(s, i)') + Due(i)' <= sessions'
    <3>1. s \in Station
      BY DEF Station
    <3>2. Pending(s, i)' \subseteq Pending(s, i)
      BY <1>2, <3>1, StationAssumption DEF Pending, Taken
    <3>3. CASE s = r /\ i = k
      <4>1. Pending(r, k)' \subseteq Pending(r, k) \ {m}
        BY <1>1, <1>2, <3>2, <3>3, StationAssumption DEF Pending, Taken
      <4>3. /\ IsFiniteSet(Pending(r, k)') /\ Cardinality(Pending(r, k)') \in Nat
            /\ Cardinality(Pending(r, k)') <= Cardinality(Pending(r, k)) - 1
        <5>1. IsFiniteSet(Pending(r, k))
          BY <2>1, StepNumbers
        <5>2. QED
          BY <2>2, <4>1, <5>1, OneMemberLess
      <4>4. steps'[r][k] = steps[r][k] + 1
        BY <1>2, <2>1 DEF StepProtection
      <4>5. QED
        BY <1>1, <2>1, <3>3, <4>3, <4>4, StepNumbers
    <3>4. CASE ~(s = r /\ i = k)
      <4>1. steps'[s][i] = steps[s][i]
        BY <1>2, <2>1, <3>4 DEF StepProtection
      <4>2. /\ IsFiniteSet(Pending(s, i)') /\ Cardinality(Pending(s, i)') \in Nat
            /\ Cardinality(Pending(s, i)') <= Cardinality(Pending(s, i))
        BY <3>2, StepNumbers, FS_Subset, FS_CardinalityType
      <4>3. QED
        BY <1>1, <4>1, <4>2, StepNumbers
    <3>5. QED
      BY <3>3, <3>4
  <2>4. QED
    BY <2>3 DEF StepInv
<1>3. ASSUME NEW m \in inbox[r], ReplierEchoes(r, m) PROVE StepInv'
  <2>1. /\ ForUs(r, m.frame) /\ StepProtection(r, m.frame)
        /\ Transmit(Taken(r, m), r, Echo(r, m.frame))
    BY <1>3 DEF ReplierEchoes
  <2>2. Echo(r, m.frame).src = r
    BY <1>1, <2>1, LongFrame DEF ForUs, Echo, Frame
  <2>3. \A s \in Replier : \A n \in inbox'[s] :
          n \in Taken(r, m)[s] \/ n.frame.src = r
    <3>1. Taken(r, m) \in [Station -> SUBSET Message]
      BY <1>1, TakenType
    <3>2. ASSUME NEW s \in Station, NEW n \in inbox'[s]
          PROVE  n \in Taken(r, m)[s] \/ n = [frame |-> Echo(r, m.frame), outgoing |-> (s = r)]
      BY <1>1, <2>1, <3>1, TransmitHolds
    <3>3. QED
      BY <2>2, <3>2 DEF Station
  <2>4. QED
    BY <1>2, <2>1, <2>3
<1>4. ASSUME NEW m \in inbox[r], ReplierSendFails(r, m) PROVE StepInv'
  BY <1>2, <1>4 DEF ReplierSendFails
<1>5. CASE UNCHANGED steps /\ \A s \in Station : inbox'[s] \subseteq inbox[s]
  <2>1. \A s \in Replier, i \in Sent : Pending(s, i)' \subseteq Pending(s, i)
    BY <1>5 DEF Pending, Station
  <2>2. QED
    BY <1>1, <1>5, <2>1, StepsNoMore DEF Due
<1>6. QED
  BY <1>1, <1>3, <1>4, <1>5
     DEF ReplierNext, ReplierReady, ReplierRecvFails, ReplierIgnores,
         replierVars, Taken

\* Every step of the series keeps the count per session.
LEMMA StepsInductive ==
  ASSUME SeriesTypeInv, WireInv, OrderInv, StepInv, [SeriesNext]_seriesVars
  PROVE  OrderInv' /\ StepInv'
<1>1. CASE SenderSteps
  BY <1>1, StepsSender
<1>2. CASE (\E r \in Replier : ReplierNext(r)) /\ UNCHANGED historyVars
  <2>1. UNCHANGED senderVars
    BY <1>2
       DEF ReplierNext, ReplierReady, ReplierRecvFails, ReplierIgnores,
           ReplierEchoes, ReplierSendFails
  <2>2. QED
    BY <1>2, <2>1, StepsReplier DEF senderVars, OrderInv
<1>3. CASE /\ UNCHANGED <<steps, senderVars, sessions>>
           /\ \A s \in Station : inbox'[s] \subseteq inbox[s]
  <2>1. \A r \in Replier, i \in Sent : Pending(r, i)' \subseteq Pending(r, i)
    BY <1>3 DEF Pending, Station
  <2>2. \A i \in Sent : Due(i)' <= Due(i) /\ Due(i)' \in {0, 1}
    BY <1>3 DEF Due, senderVars
  <2>3. QED
    BY <1>3, <2>1, <2>2, StepsNoMore DEF senderVars, OrderInv
<1>4. CASE SenderRestarts
  <2>1. /\ UNCHANGED <<steps, inbox, sessions>>
        /\ \A i \in Sent : stamped'[i] = -1 /\ Due(i)' = 0 /\ Due(i) = 0
    BY <1>4 DEF SenderRestarts, replierVars, historyVars, Due
  <2>2. QED
    BY <2>1, StepsNoMore DEF OrderInv, Pending
<1>5. ASSUME NEW r \in Replier, ReplierRestarts(r)
      PROVE  /\ UNCHANGED <<steps, senderVars, sessions>>
             /\ \A s \in Station : inbox'[s] \subseteq inbox[s]
  BY <1>5 DEF ReplierRestarts, historyVars, SeriesTypeInv, TypeInv, TypeOK
<1>6. ASSUME ReceiverNext \/ Tick, UNCHANGED sessions
      PROVE  /\ UNCHANGED <<steps, senderVars, sessions>>
             /\ \A s \in Station : inbox'[s] \subseteq inbox[s]
  BY <1>6
     DEF Tick, ReceiverNext, ReceiverReady, PressEnter, ReceiverLoopEnds,
         ReceiverFails, WriteResults, ReceiverSkips, ReceiverRecords,
         Taken, Station, replierVars, SeriesTypeInv, TypeInv, TypeOK
<1>7. CASE ReceiverRestarts \/ UNCHANGED seriesVars
  BY <1>3, <1>7 DEF ReceiverRestarts, replierVars, historyVars, seriesVars, vars
<1>8. CASE OtherSteps
  BY <1>2, <1>3, <1>6, <1>8 DEF OtherSteps, historyVars
<1>9. CASE ReceiverGetsReady \/ ReceiverReports
  BY <1>3, <1>6, <1>9 DEF ReceiverGetsReady, ReceiverReports, ReceiverNext
<1>10. QED
  BY <1>1, <1>3, <1>4, <1>5, <1>7, <1>8, <1>9 DEF SeriesNext

\* Over any series of sessions, a replier runs protection on an id at most once
\* per session of the sender, whatever is still queued when programs restart.
THEOREM StepsPerSession == SeriesSpec => []OneStepPerSession
<1> DEFINE Inv == SeriesTypeInv /\ WireInv /\ SlotInv /\ OrderInv /\ StepInv
<1>1. SeriesInit => Inv
  <2> SUFFICES ASSUME SeriesInit PROVE OrderInv /\ StepInv
    BY SeriesTypeInit, SlotsInit
  <2>1. \A r \in Replier, i \in Sent : Pending(r, i) = {} /\ Due(i) = 0
    BY DEF SeriesInit, Init, Pending, Due, Station
  <2>2. IsFiniteSet({}) /\ Cardinality({}) = 0
    BY FS_EmptySet
  <2>3. ASSUME NEW r \in Replier, NEW i \in Sent
        PROVE  /\ IsFiniteSet(Pending(r, i))
               /\ steps[r][i] + Cardinality(Pending(r, i)) + Due(i) <= sessions
    <3>1. Pending(r, i) = {} /\ Due(i) = 0
      BY <2>1
    <3>2. steps[r][i] = 0 /\ sessions = 0
      BY DEF SeriesInit, Init
    <3>3. IsFiniteSet(Pending(r, i)) /\ Cardinality(Pending(r, i)) = 0
      BY <2>2, <3>1
    <3>4. QED
      BY <3>1, <3>2, <3>3
  <2>4. OrderInv
    BY DEF SeriesInit, Init, OrderInv
  <2>5. QED
    BY <2>3, <2>4 DEF StepInv
<1>2. Inv /\ [SeriesNext]_seriesVars => Inv'
  BY SeriesTypeInductive, SlotsInductive, StepsInductive
<1>3. Inv => OneStepPerSession
  BY StepNumbers DEF OneStepPerSession
<1>4. QED
  BY <1>1, <1>2, <1>3, PTL DEF SeriesSpec

-----------------------------------------------------------------------------
(* What the receiver reports, and the file it leaves *)

\* A report that could open the file left the rows of its own table in it.
CsvInv == xPc = "done" /\ written => csv = Rows

\* The counter, the report and the file agree with the table of the session.
OutputInv == CountInv /\ ReportInv /\ CsvInv

\* Steps that leave the receiver alone.
LEMMA OutputOthers ==
  ASSUME OutputInv, UNCHANGED <<receiverVars, csv, written>>
  PROVE  OutputInv'
BY ReportOthers
   DEF OutputInv, receiverVars, logVars, CountInv, CountMatchesLog, Valid,
       CsvInv, Rows, CsvRow

\* The receiver's own steps, of which the report alone writes the file.
LEMMA OutputReceiver ==
  ASSUME TypeInv, OutputInv, ReceiverNext,
         WriteResults => (csv' = Rows \/ ~written'),
         ~WriteResults => UNCHANGED <<csv, written>>
  PROVE  OutputInv'
<1>1. CountInv' /\ ReportInv'
  BY ReceiverCounts, ReportReceiver DEF OutputInv
<1>2. ASSUME UNCHANGED logVars PROVE Rows' = Rows
  BY <1>2 DEF logVars, Rows, CsvRow
<1>3. CASE WriteResults
  BY <1>1, <1>2, <1>3 DEF WriteResults, OutputInv, CsvInv
<1>4. CASE PressEnter /\ ~WriteResults
  BY <1>1, <1>2, <1>4 DEF PressEnter, OutputInv, CsvInv
<1>5. CASE xPc' # "done"
  BY <1>1, <1>5 DEF OutputInv, CsvInv
<1>6. CASE xPc' = xPc /\ xPc # "done"
  BY <1>5, <1>6
<1>7. QED
  BY <1>3, <1>4, <1>5, <1>6
     DEF ReceiverNext, ReceiverReady, ReceiverLoopEnds, ReceiverFails,
         ReceiverSkips, ReceiverRecords, Receiving, receiverVars, PressEnter,
         WriteResults

\* Every step of the series keeps them in agreement.
LEMMA OutputInductive ==
  ASSUME SeriesTypeInv, OutputInv, [SeriesNext]_seriesVars
  PROVE  OutputInv'
<1> USE DEF historyVars
<1>1. CASE UNCHANGED seriesVars
  BY <1>1, OutputOthers DEF seriesVars, vars
<1>2. CASE SenderSteps
  BY <1>2, OthersLeaveReceiver, OutputOthers DEF SenderSteps
<1>3. CASE OtherSteps
  <2>1. CASE Tick \/ \E r \in Replier : ReplierNext(r)
    BY <1>3, <2>1, OthersLeaveReceiver, OutputOthers DEF OtherSteps
  <2>2. CASE ReceiverNext /\ xPc # "write"
    BY <1>3, <2>2, OutputReceiver DEF OtherSteps, WriteResults, SeriesTypeInv
  <2>3. QED
    BY <1>3, <2>1, <2>2 DEF OtherSteps
<1>4. CASE ReceiverGetsReady
  BY <1>4, OutputReceiver
     DEF ReceiverGetsReady, ReceiverReady, ReceiverNext, WriteResults, SeriesTypeInv
<1>5. CASE ReceiverReports
  BY <1>5, OutputReceiver
     DEF ReceiverReports, ReceiverNext, SeriesTypeInv, Written
<1>6. CASE SenderRestarts \/ \E r \in Replier : ReplierRestarts(r)
  BY <1>6, OutputOthers DEF SenderRestarts, ReplierRestarts
<1>7. CASE ReceiverRestarts
  <2>1. Valid' = {}
    BY <1>7 DEF ReceiverRestarts, AllMissing, Valid
  <2>2. Cardinality(Valid') = 0
    BY <2>1, FS_EmptySet
  <2>3. QED
    BY <1>7, <2>2
       DEF ReceiverRestarts, OutputInv, CountInv, CountMatchesLog, ReportInv, CsvInv
<1>8. QED
  BY <1>1, <1>2, <1>3, <1>4, <1>5, <1>6, <1>7 DEF SeriesNext

\* The first session has nothing to report.
LEMMA OutputInit ==
  ASSUME SeriesInit
  PROVE  OutputInv
<1>1. Valid = {}
  BY DEF SeriesInit, Init, Valid
<1>2. QED
  BY <1>1, FS_EmptySet
     DEF SeriesInit, Init, OutputInv, CountInv, CountMatchesLog, ReportInv, CsvInv

\* What is in the file when it holds the rows of the table.
LEMMA FileOfTable ==
  ASSUME TypeInv, ReportInv, CsvInv
  PROVE  CsvOfLastReport
<1> SUFFICES ASSUME xPc = "done", written, packet_count # 0
             PROVE  /\ Cardinality(csv) = Expected
                    /\ {w.frame_id : w \in csv} = FrameId
                    /\ {w \in csv : w.is_missing = 0} =
                         {[frame_id |-> w.frame_id, send |-> w.send, recv |-> w.recv,
                           is_missing |-> 0] : w \in results.rows}
  BY DEF CsvOfLastReport, CsvInv, Rows
<1>1. csv = {CsvRow(i) : i \in FrameId} /\ \A i : CsvRow(i).frame_id = i
  BY DEF CsvInv, Rows, CsvRow
<1>2. results.rows = {RttRow(i) : i \in Valid} /\ \A i : RttRow(i).frame_id = i
  BY DEF ReportInv, RttRow, TypeInv, TypeOK
<1>3. Cardinality(csv) = Expected
  <2> DEFINE row == [i \in FrameId |-> CsvRow(i)]
  <2>1. row \in [FrameId -> csv]
    BY <1>1
  <2>2. \A i, j \in FrameId : row[i] = row[j] => i = j
    BY <1>1
  <2>3. \A w \in csv : \E i \in FrameId : row[i] = w
    BY <1>1
  <2>4. row \in Bijection(FrameId, csv)
    BY <2>1, <2>2, <2>3 DEF Bijection, Injection, Surjection, IsInjective
  <2>5. QED
    BY <2>4, ValidIsFinite, FS_Bijection DEF ExistsBijection
<1>4. {w.frame_id : w \in csv} = FrameId
  BY <1>1
<1>5. {w \in csv : w.is_missing = 0} = {CsvRow(i) : i \in Valid}
  <2>1. \A i : CsvRow(i).is_missing = is_missing[i]
    BY DEF CsvRow
  <2>2. QED
    BY <1>1, <2>1 DEF Valid
<1>6. {CsvRow(i) : i \in Valid} =
        {[frame_id |-> w.frame_id, send |-> w.send, recv |-> w.recv,
          is_missing |-> 0] : w \in results.rows}
  <2>1. ASSUME NEW i \in Valid
        PROVE  CsvRow(i) = [frame_id |-> RttRow(i).frame_id, send |-> RttRow(i).send,
                            recv |-> RttRow(i).recv, is_missing |-> 0]
    BY <2>1 DEF CsvRow, RttRow, Valid
  <2>2. QED
    BY <1>2, <2>1
<1>7. QED
  BY <1>3, <1>4, <1>5, <1>6

\* Over any series, every file a report left is that of its own session, and
\* the loop control and the report hold in each session as they do in one.
THEOREM OutputOfEachSession ==
  SeriesSpec => [](CsvOfLastReport /\ ReportFaithful /\ CountMatchesLog /\ NeverStopsShort)
<1> DEFINE Inv == SeriesTypeInv /\ WireInv /\ SlotInv /\ OutputInv
<1>1. SeriesInit => Inv
  BY SeriesTypeInit, SlotsInit, OutputInit
<1>2. Inv /\ [SeriesNext]_seriesVars => Inv'
  BY SeriesTypeInductive, SlotsInductive, OutputInductive
<1>3. Inv => CsvOfLastReport /\ ReportFaithful /\ CountMatchesLog /\ NeverStopsShort
  <2> SUFFICES ASSUME Inv
               PROVE  CsvOfLastReport /\ ReportFaithful /\ CountMatchesLog /\ NeverStopsShort
    OBVIOUS
  <2>1. CsvOfLastReport /\ ReportFaithful
    BY FileOfTable, ReportOfTable DEF SeriesTypeInv, OutputInv, SlotInv, RecordedWasStamped
  <2>2. CountMatchesLog /\ NeverStopsShort
    BY ValidIsFinite DEF OutputInv, CountInv, CountMatchesLog, NeverStopsShort
  <2>3. QED
    BY <2>1, <2>2
<1>4. QED
  BY <1>1, <1>2, <1>3, PTL DEF SeriesSpec

\* A step of a series is one of the latency tables of its sessions: a receiver
\* starts again only after its report or its failure.
LEMMA StepOfLogSeries ==
  ASSUME SeriesTypeInv, WireInv, OutputInv, [SeriesNext]_seriesVars
  PROVE  [Log!LogNext \/ Log!BeginAnew]_(Log!logVars)
<1>1. TypeInv /\ CountInv /\ ReportInv /\ NoneFromFuture
  BY DEF SeriesTypeInv, OutputInv, WireInv, FrameInv, NoneFromFuture, Station
<1>2. CASE [Next]_vars
  BY <1>1, <1>2, StepOfLog
<1>3. CASE UNCHANGED receiverVars
  BY <1>3 DEF receiverVars, logVars, Log!logVars
<1>4. CASE ReceiverRestarts
  <2>1. /\ xPc \in {"done", "failed"} /\ xPc' = "down"
        /\ is_missing' = [i \in FrameId |-> 1] /\ results' = NoResults
    BY <1>4 DEF ReceiverRestarts, AllMissing
  <2>2. Log!BeginAnew
    BY <2>1 DEF Log!BeginAnew, NoResults
  <2>3. QED
    BY <2>2
<1>5. QED
  BY <1>2, <1>3, <1>4
     DEF SeriesNext, SenderSteps, OtherSteps, ReceiverGetsReady, ReceiverReports, SenderRestarts,
         ReplierRestarts, seriesVars, Next, ReceiverNext, vars

\* Over any series of sessions the receivers implement one latency table each, in
\* turn: no entry changes within a session, and none is carried over.
THEOREM SessionsImplementLog == SeriesSpec => ImplementsLogSeries
<1> DEFINE Inv == SeriesTypeInv /\ WireInv /\ SlotInv /\ OutputInv
<1>1. SeriesInit => Inv
  BY SeriesTypeInit, SlotsInit, OutputInit
<1>2. Inv /\ [SeriesNext]_seriesVars => Inv'
  BY SeriesTypeInductive, SlotsInductive, OutputInductive
<1>3. SeriesInit => Log!LogInit
  BY DEF SeriesInit, Init, NoResults, Log!LogInit
<1>4. Inv /\ [SeriesNext]_seriesVars => [Log!LogNext \/ Log!BeginAnew]_(Log!logVars)
  BY StepOfLogSeries
<1>5. QED
  BY <1>1, <1>2, <1>3, <1>4, PTL DEF SeriesSpec, ImplementsLogSeries, Log!LogSeriesSpec
=============================================================================

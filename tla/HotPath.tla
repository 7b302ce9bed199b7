------------------------------ MODULE HotPath ------------------------------
(***************************************************************************)
(* The round trip of the testbed: hot_sender stamps and broadcasts sampled *)
(* value frames, every hot_replier runs measurement and protection on a    *)
(* frame and echoes it, and hot_receiver, on the sender's own interface,   *)
(* records the first echo of each frame id.                                *)
(*                                                                         *)
(* A station is named by its MAC address.  A transmission reaches the open *)
(* sockets of an arbitrary set of other stations: that one choice is loss  *)
(* and flooding of unicast frames.  A socket buffer is a set, so frames    *)
(* may be taken late and in any order.                                     *)
(*                                                                         *)
(* The one-line definitions said to be slips are not part of the system:   *)
(* each is the wrong form of the definition after it, and shows that a     *)
(* property notices.                                                       *)
(***************************************************************************)
EXTENDS Integers, FiniteSets

CONSTANTS
  Replier,      \* the virtual machines running hot_replier
  Tester,       \* the interface hot_sender and hot_receiver share
  Broadcast,    \* ff:ff:ff:ff:ff:ff
  DestMac,      \* hot_sender's <dest_mac>
  Iterations,   \* hot_sender's <iterations>
  Expected,     \* hot_receiver's <expected_packets>
  SendPeriod,   \* L2_SEND_FRAME_RATE_US, in clock ticks
  Slew,         \* ticks CLOCK_MONOTONIC may gain on CLOCK_MONOTONIC_RAW
                \* within one period
  Time,         \* the readings of CLOCK_MONOTONIC_RAW
  Lateness,     \* bound: ticks that may pass beyond the sender's deadline
  Wrap,         \* 2^64, the modulus of uint64_t
  Noise,        \* frames too short for a payload that others may transmit
  Disturbance   \* what may go wrong in this instance, of:
                \*   "early"   the sender starts before everyone is READY
                \*   "loss"    a frame misses a socket it is addressed to
                \*   "flood"   a unicast frame reaches other stations as well
                \*   "copy"    the kernel copies a frame to its own station
                \*   "failure" a system call fails
                \*   "enter"   the user presses Enter

ASSUME StationAssumption ==
  /\ Tester \notin Replier
  /\ Broadcast \notin Replier \cup {Tester}
  /\ DestMac \in Replier \cup {Broadcast}
  /\ IsFiniteSet(Replier)
ASSUME SizeAssumption ==
  /\ Iterations \in Nat /\ Expected \in Nat \ {0}
  /\ SendPeriod \in Nat \ {0} /\ Slew \in 0 .. SendPeriod
  /\ Disturbance \subseteq {"early", "loss", "flood", "copy", "failure", "enter"}
ASSUME ClockAssumption ==
  /\ Time \subseteq Nat /\ 0 \in Time /\ Lateness \in Nat
  /\ Wrap \in Nat /\ \A t \in Time : t < Wrap
ASSUME NoiseAssumption == \A f \in Noise : f.short

Station == Replier \cup {Tester}
Sent == 0 .. Iterations - 1         \* the ids hot_sender gives its frames
FrameId == 0 .. Expected - 1        \* the ids hot_receiver has a slot for

\* An Ethernet frame of the SV ethertype, reduced to what the programs read.
Frame == [dst : Station \cup {Broadcast}, src : Station,
          frame_id : Sent, timestamp : Time, short : {FALSE}]

VARIABLES
  clock,        \* CLOCK_MONOTONIC_RAW of the tester, shared by both programs
  inbox,        \* per station: the frames its socket holds, each tagged
                \* outgoing as sll_pkttype = PACKET_OUTGOING would
  sPc,          \* hot_sender: "ready", "send", "busy_wait", "done"
  iteration,    \* hot_sender: the loop counter
  waitUntil,    \* hot_sender: target of busy_wait_us
  stamped,      \* history: frame id -> the time it was stamped, or -1
  rPc,          \* hot_replier: "down", "loop", "exited"
  steps,        \* history: replier -> frame id -> protection steps run on it
  xPc,          \* hot_receiver: "down", "loop", "write", "done", "failed"
  ignoring,     \* hot_receiver: PACKET_IGNORE_OUTGOING took effect
  stdinReady,   \* hot_receiver: select would find standard input readable
  send_ts_ns, recv_ts_ns, is_missing, packet_count,   \* receiver_data_t
  results       \* what write_results_and_print_stats put out

senderVars   == <<sPc, iteration, waitUntil, stamped>>
replierVars  == <<rPc, steps>>
logVars      == <<send_ts_ns, recv_ts_ns, is_missing, packet_count>>
receiverVars == <<xPc, ignoring, stdinReady, logVars, results>>
vars == <<clock, inbox, senderVars, replierVars, receiverVars>>

NoResults == [received |-> 0, missing |-> 0, rows |-> {}]

Init ==
  /\ clock = 0
  /\ inbox = [s \in Station |-> {}]
  /\ sPc = "ready" /\ iteration = 0 /\ waitUntil = 0
  /\ stamped = [i \in Sent |-> -1]
  /\ rPc = [r \in Replier |-> "down"]
  /\ steps = [r \in Replier |-> [i \in Sent |-> 0]]
  /\ xPc = "down" /\ ignoring \in BOOLEAN /\ stdinReady = FALSE
  /\ send_ts_ns = [i \in FrameId |-> 0]
  /\ recv_ts_ns = [i \in FrameId |-> 0]
  /\ is_missing = [i \in FrameId |-> 1]
  /\ packet_count = 0
  /\ results = NoResults

-----------------------------------------------------------------------------
(* The link and the AF_PACKET sockets. *)

Open == {r \in Replier : rPc[r] = "loop"} \cup
        (IF xPc = "loop" THEN {Tester} ELSE {})

Addressed(f) == {s \in Station : f.dst \in {s, Broadcast}}

\* The kernel may hand a transmitting station's socket a copy of what it
\* sends, unless the socket asked for PACKET_IGNORE_OUTGOING.
SeesOutgoing(s) == /\ "copy" \in Disturbance
                   /\ s \in Open /\ ~(s = Tester /\ ignoring)

\* The socket buffers `box' after f arrived at the stations `reached' and was
\* copied back to the stations `copied'.
Delivered(box, f, reached, copied) ==
  [s \in Station |->
     box[s] \cup (IF s \in reached THEN {[frame |-> f, outgoing |-> FALSE]} ELSE {})
            \cup (IF s \in copied THEN {[frame |-> f, outgoing |-> TRUE]} ELSE {})]

Transmit(box, from, f) ==
  \E reached \in SUBSET (Open \ {from}),
     copied \in SUBSET {s \in {from} : SeesOutgoing(s)} :
    /\ "loss" \notin Disturbance => (Addressed(f) \cap Open) \ {from} \subseteq reached
    /\ "flood" \notin Disturbance => reached \subseteq Addressed(f)
    /\ inbox' = Delivered(box, f, reached, copied)

\* recvfrom: socket s gives up m.
Taken(s, m) == [inbox EXCEPT ![s] = @ \ {m}]

Tick ==
  /\ clock + 1 \in Time /\ clock < waitUntil + Lateness
  /\ clock' = clock + 1
  /\ UNCHANGED <<inbox, senderVars, replierVars, receiverVars>>

\* Another user of the experimental ethertype transmits a short frame.
ForeignFrame ==
  /\ \E f \in Noise, s \in Open :
       inbox' = [inbox EXCEPT ![s] = @ \cup {[frame |-> f, outgoing |-> FALSE]}]
  /\ UNCHANGED <<clock, senderVars, replierVars, receiverVars>>

-----------------------------------------------------------------------------
(* hot_sender *)

\* main: the sender starts, in an orderly experiment after every READY.
SenderStart ==
  /\ sPc = "ready"
  /\ "early" \notin Disturbance => Open = Station
  /\ sPc' = IF Iterations = 0 THEN "done" ELSE "send"
  /\ UNCHANGED <<clock, inbox, iteration, waitUntil, stamped,
                 replierVars, receiverVars>>

SvFrame(id, time) == [dst |-> DestMac, src |-> Tester, frame_id |-> id,
                      timestamp |-> time, short |-> FALSE]

\* Slips: ids from 1; the timestamp left as the payload template has it.
FrameFromOne == SvFrame(iteration + 1, clock)
FrameUnstamped == SvFrame(iteration, 0)

\* The frame update_payload_for_iteration prepares at this moment.
CurrentFrame == SvFrame(iteration, clock)

\* send_one_packet succeeds and do_busy_wait begins.
SendOnePacket ==
  /\ sPc = "send"
  /\ Transmit(inbox, Tester, CurrentFrame)
  /\ stamped' = [stamped EXCEPT ![iteration] = clock]
  /\ waitUntil' = clock + SendPeriod
  /\ sPc' = "busy_wait"
  /\ UNCHANGED <<clock, iteration, replierVars, receiverVars>>

\* clock_gettime or sendto fails: main leaves the loop for good.
SendFails ==
  /\ sPc = "send" /\ "failure" \in Disturbance
  /\ sPc' = "done"
  /\ UNCHANGED <<clock, inbox, iteration, waitUntil, stamped,
                 replierVars, receiverVars>>

\* A slip: busy_wait_us returns at once.
NoWait == TRUE

\* now_ns >= target_ns, on CLOCK_MONOTONIC.
WaitOver == clock + Slew >= waitUntil

\* busy_wait_us sees its target and the loop goes round.
BusyWaitEnds ==
  /\ sPc = "busy_wait" /\ WaitOver
  /\ iteration' = iteration + 1
  /\ sPc' = IF iteration' < Iterations THEN "send" ELSE "done"
  /\ UNCHANGED <<clock, inbox, waitUntil, stamped, replierVars, receiverVars>>

-----------------------------------------------------------------------------
(* hot_replier: one process_packet per step *)

ReplierReady(r) ==
  /\ rPc[r] = "down"
  /\ rPc' = [rPc EXCEPT ![r] = "loop"]
  /\ UNCHANGED <<clock, inbox, steps, senderVars, receiverVars>>

\* A slip: no look at the destination address.
ForAnyone(r, f) == ~f.short

\* The checks of process_packet: long enough, and for us or for everyone.
ForUs(r, f) == ~f.short /\ f.dst \in {r, Broadcast}

\* process_packet returns 1 or 3.
ReplierIgnores(r, m) ==
  /\ rPc[r] = "loop" /\ m \in inbox[r]
  /\ ~ForUs(r, m.frame)
  /\ inbox' = Taken(r, m)
  /\ UNCHANGED <<clock, senderVars, replierVars, receiverVars>>

\* The reply: the same bytes with the MAC addresses swapped.
Echo(r, f) == [f EXCEPT !.dst = f.src, !.src = r]

\* Measurement and protection run on the frame.
StepProtection(r, f) == steps' = [steps EXCEPT ![r][f.frame_id] = @ + 1]

\* process_packet returns 0.
ReplierEchoes(r, m) ==
  /\ rPc[r] = "loop" /\ m \in inbox[r]
  /\ ForUs(r, m.frame)
  /\ StepProtection(r, m.frame)
  /\ Transmit(Taken(r, m), r, Echo(r, m.frame))
  /\ UNCHANGED <<clock, rPc, senderVars, receiverVars>>

\* process_packet returns 4: protection has run, the echo is not sent.
ReplierSendFails(r, m) ==
  /\ rPc[r] = "loop" /\ m \in inbox[r] /\ "failure" \in Disturbance
  /\ ForUs(r, m.frame)
  /\ StepProtection(r, m.frame)
  /\ inbox' = Taken(r, m)
  /\ UNCHANGED <<clock, rPc, senderVars, receiverVars>>

\* process_packet returns -1 and main closes the socket.
ReplierRecvFails(r) ==
  /\ rPc[r] = "loop" /\ "failure" \in Disturbance
  /\ rPc' = [rPc EXCEPT ![r] = "exited"]
  /\ inbox' = [inbox EXCEPT ![r] = {}]
  /\ UNCHANGED <<clock, steps, senderVars, receiverVars>>

-----------------------------------------------------------------------------
(* hot_receiver: one turn of the loop of receive_packets per step *)

ReceiverReady ==
  /\ xPc = "down"
  /\ xPc' = "loop"
  /\ UNCHANGED <<clock, inbox, senderVars, replierVars,
                 ignoring, stdinReady, logVars, results>>

\* The user presses Enter (or standard input reaches its end).
PressEnter ==
  /\ ~stdinReady /\ "enter" \in Disturbance
  /\ stdinReady' = TRUE
  /\ UNCHANGED <<clock, inbox, senderVars, replierVars,
                 xPc, ignoring, logVars, results>>

\* select returns with the socket readable and standard input not.
Receiving == xPc = "loop" /\ packet_count < Expected /\ ~stdinReady

\* Slips: a second reply is recorded too; the tester's own frames are; replies
\* are taken to come in the order of the ids.
WantedAgain(m) == ~m.outgoing /\ ~m.frame.short /\ m.frame.frame_id < Expected
WantedOutgoing(m) == /\ ~m.frame.short
                     /\ m.frame.frame_id < Expected
                     /\ is_missing[m.frame.frame_id] # 0
WantedInOrder(m) == ~m.outgoing /\ ~m.frame.short /\ m.frame.frame_id = packet_count

\* The checks of receive_packets, in the order of the code.
Wanted(m) ==
  /\ ~m.outgoing
  /\ ~m.frame.short
  /\ m.frame.frame_id < Expected
  /\ is_missing[m.frame.frame_id] # 0

ReceiverSkips(m) ==
  /\ Receiving /\ m \in inbox[Tester]
  /\ ~Wanted(m)
  /\ inbox' = Taken(Tester, m)
  /\ UNCHANGED <<clock, senderVars, replierVars, receiverVars>>

ReceiverRecords(m) ==
  /\ Receiving /\ m \in inbox[Tester]
  /\ Wanted(m)
  /\ LET i == m.frame.frame_id IN
       /\ send_ts_ns' = [send_ts_ns EXCEPT ![i] = m.frame.timestamp]
       /\ recv_ts_ns' = [recv_ts_ns EXCEPT ![i] = clock]
       /\ is_missing' = [is_missing EXCEPT ![i] = 0]
  /\ packet_count' = packet_count + 1
  /\ inbox' = Taken(Tester, m)
  /\ UNCHANGED <<clock, senderVars, replierVars,
                 xPc, ignoring, stdinReady, results>>

\* Slips: one slot short; a loop that Enter does not end.
LoopOverShort == packet_count + 1 >= Expected \/ stdinReady
LoopOverFull == packet_count = Expected

\* Every slot is filled, or standard input was readable.
LoopOver == packet_count = Expected \/ stdinReady

ReceiverLoopEnds ==
  /\ xPc = "loop"
  /\ LoopOver
  /\ xPc' = "write"
  /\ UNCHANGED <<clock, inbox, senderVars, replierVars,
                 ignoring, stdinReady, logVars, results>>

\* select, recvfrom or clock_gettime fails: main frees the tables and exits.
ReceiverFails ==
  /\ xPc = "loop" /\ packet_count < Expected /\ "failure" \in Disturbance
  /\ xPc' = "failed"
  /\ inbox' = [inbox EXCEPT ![Tester] = {}]
  /\ UNCHANGED <<clock, senderVars, replierVars,
                 ignoring, stdinReady, logVars, results>>

\* A slip: the subtraction the wrong way round.
RttRowSwapped(i) == [frame_id |-> i, send |-> send_ts_ns[i], recv |-> recv_ts_ns[i],
                     rtt |-> (send_ts_ns[i] - recv_ts_ns[i]) % Wrap]

\* The table the CSV gets: a row per slot, none at all if nothing came.
RttRow(i) == [frame_id |-> i, send |-> send_ts_ns[i], recv |-> recv_ts_ns[i],
              rtt |-> (recv_ts_ns[i] - send_ts_ns[i]) % Wrap]

Valid == {i \in FrameId : is_missing[i] = 0}

\* write_results_and_print_stats, then main closes the socket.
WriteResults ==
  /\ xPc = "write"
  /\ results' = IF packet_count = 0 THEN NoResults
                ELSE [received |-> Cardinality(Valid),
                      missing  |-> Expected - Cardinality(Valid),
                      rows     |-> {RttRow(i) : i \in Valid}]
  /\ xPc' = "done"
  /\ inbox' = [inbox EXCEPT ![Tester] = {}]
  /\ UNCHANGED <<clock, senderVars, replierVars,
                 ignoring, stdinReady, logVars>>

-----------------------------------------------------------------------------
SenderNext == SenderStart \/ SendOnePacket \/ SendFails \/ BusyWaitEnds

ReplierNext(r) ==
  \/ ReplierReady(r)
  \/ ReplierRecvFails(r)
  \/ \E m \in inbox[r] :
       ReplierIgnores(r, m) \/ ReplierEchoes(r, m) \/ ReplierSendFails(r, m)

ReceiverNext ==
  \/ ReceiverReady \/ PressEnter \/ ReceiverLoopEnds
  \/ ReceiverFails \/ WriteResults
  \/ \E m \in inbox[Tester] : ReceiverSkips(m) \/ ReceiverRecords(m)

Next ==
  \/ Tick \/ ForeignFrame
  \/ SenderNext
  \/ \E r \in Replier : ReplierNext(r)
  \/ ReceiverNext

Spec == Init /\ [][Next]_vars

\* hot_receiver's loop goes round when select has something for it.
ReceiverRuns == WF_vars(ReceiverReady \/ ReceiverLoopEnds \/ WriteResults)
AttendedSpec == Spec /\ ReceiverRuns

\* Every program gets the processor and drains its socket.
FairSpec ==
  /\ Spec
  /\ WF_vars(Tick) /\ WF_vars(SenderNext)
  /\ \A r \in Replier : WF_vars(ReplierNext(r))
  /\ ReceiverRuns
  /\ WF_vars(\E m \in inbox[Tester] : ReceiverSkips(m) \/ ReceiverRecords(m))
-----------------------------------------------------------------------------
(* What makes the measurement trustworthy. *)

Message == [frame : Frame \cup Noise, outgoing : BOOLEAN]

\* The type invariant: every variable of the four programs' state stays in the
\* range its declaration gives it.
TypeOK ==
  /\ clock \in Time
  /\ inbox \in [Station -> SUBSET Message]
  /\ sPc \in {"ready", "send", "busy_wait", "done"}
  /\ iteration \in Nat /\ waitUntil \in Nat
  /\ stamped \in [Sent -> Time \cup {-1}]
  /\ rPc \in [Replier -> {"down", "loop", "exited"}]
  /\ steps \in [Replier -> [Sent -> Nat]]
  /\ xPc \in {"down", "loop", "write", "done", "failed"}
  /\ ignoring \in BOOLEAN /\ stdinReady \in BOOLEAN
  /\ send_ts_ns \in [FrameId -> Time]
  /\ recv_ts_ns \in [FrameId -> Time]
  /\ is_missing \in [FrameId -> {0, 1}]
  /\ packet_count \in Nat
  /\ results.received \in Nat /\ results.missing \in Nat

\* packet_count, which ends the receiver's loop, is the number of table slots
\* filled, however many repliers answer a broadcast frame and whatever else
\* the socket delivers.
CountMatchesLog == packet_count = Cardinality(Valid)

\* Without Enter, the receiver goes on to its report only when no slot is empty.
NeverStopsShort ==
  xPc \in {"write", "done"} /\ ~stdinReady => Valid = FrameId

\* A latency is recorded only for a frame on which some replier has run its
\* protection functions: the tester never times its own outgoing frames.
RecordedWasProtected ==
  \A i \in Valid : i \in Sent /\ \E r \in Replier : steps[r][i] > 0

\* No replier runs protection twice on one frame: an echo that a switch
\* floods to the other repliers, or that the kernel copies back, is not
\* processed and echoed again.
NoEchoLoop == \A r \in Replier, i \in Sent : steps[r][i] <= 1

\* A recorded entry holds the time its own frame was stamped, and a later or
\* equal time of reception, even when replies arrive in any order.
LatencyIsReal ==
  \A i \in Valid : /\ send_ts_ns[i] = stamped[i]
                    /\ stamped[i] <= recv_ts_ns[i]
                    /\ recv_ts_ns[i] <= clock

\* The send times that reach the table are a send period apart per frame, less
\* what one clock gains on the other.
Paced ==
  \A i, j \in Valid :
    i < j => send_ts_ns[j] - send_ts_ns[i] >= (j - i) * (SendPeriod - Slew)

\* The report agrees with the loop that fed it: its received count is
\* packet_count, the counts add up, the rows are the filled slots, and no
\* round-trip time is a wrapped subtraction.
ReportFaithful ==
  xPc = "done" /\ packet_count > 0 =>
    /\ results.received = packet_count
    /\ results.received + results.missing = Expected
    /\ {w.frame_id : w \in results.rows} = Valid
    /\ \A w \in results.rows : w.send + w.rtt = w.recv

\* hot_receiver, embedded in the network, implements the write-once latency
\* table: entries are never changed or lost, and one report closes the session.
Log == INSTANCE LatencyLog WITH
  NoEntry <- <<>>,
  log     <- [i \in FrameId |-> IF is_missing[i] = 1 THEN <<>>
                                ELSE <<send_ts_ns[i], recv_ts_ns[i]>>],
  status  <- IF xPc = "done" THEN "reported"
             ELSE IF xPc = "failed" THEN "aborted" ELSE "collecting",
  summary <- [received |-> results.received, missing |-> results.missing]
ImplementsLatencyLog == Log!LogSpec

\* An experiment with a replier that starts in order and in which nothing fails.
Undisturbed == Replier # {} /\ Disturbance \cap {"early", "loss", "failure"} = {}

\* The frame is recorded, or its reply is queued at the tester, or the frame
\* itself at a replier that will answer it.
Recorded(i) == i \in Valid
Answered(i) == \E m \in inbox[Tester] :
                 ~m.frame.short /\ ~m.outgoing /\ m.frame.frame_id = i
Heard(i) == \E r \in Replier : \E m \in inbox[r] :
              ForUs(r, m.frame) /\ m.frame.frame_id = i

\* What makes an undisturbed run complete: until its slot is filled, every frame
\* that was sent has an answer under way, whatever the receiver and the repliers
\* drop meanwhile as not meant for them, not a reply or recorded before.
NoneForgotten ==
  Undisturbed /\ xPc = "loop" =>
    \A i \in Sent \cap FrameId :
      stamped[i] # -1 => Recorded(i) \/ Answered(i) \/ Heard(i)

\* Enter always ends the session, with a report unless a call fails.
EnterEndsSession == stdinReady ~> xPc \in {"done", "failed"}

\* When no frame is lost and no call fails, and the sender sends enough frames,
\* the receiver ends by itself with every slot filled.
UndisturbedRunCompletes == <>(xPc = "done" /\ Valid = FrameId)
=============================================================================

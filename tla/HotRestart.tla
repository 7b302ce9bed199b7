----------------------------- MODULE HotRestart -----------------------------
(***************************************************************************)
(* A series of experiments on one network: every program of the round trip *)
(* may be started again after it ended, or, a replier, was stopped with    *)
(* Ctrl+C.  A new process starts from nothing, on a socket of its own; the *)
(* frames queued in the sockets of the others, and the CSV file, remain.   *)
(* Frame ids start at 0 in every session of hot_sender.                    *)
(***************************************************************************)
EXTENDS HotPath

CONSTANT MaxRestarts    \* bound: restarts, of all programs together

VARIABLES
  restarts,    \* the bound's counter
  csv,         \* the rows of hot_receiver's csv_file
  written,     \* history: the last report could open the file
  sessions,    \* history: the sessions hot_sender has started
  everStamped, \* history: the <<frame_id, time>> that any session has stamped
  readyAt,     \* history: the time at which the receiver was last READY
  drained      \* history: there was then no session and no frame under way

historyVars == <<written, sessions, everStamped, readyAt, drained>>
seriesVars == <<vars, restarts, csv, historyVars>>

SeriesInit ==
  /\ Init
  /\ restarts = 0 /\ csv = {} /\ written = FALSE
  /\ sessions = 0 /\ everStamped = {}
  /\ readyAt = 0 /\ drained = TRUE
-----------------------------------------------------------------------------
(* The steps of the single experiment, observed. *)

StampsNow == {<<i, stamped'[i]>> : i \in {i \in Sent : stamped'[i] # -1}}

SenderSteps ==
  /\ SenderNext
  /\ everStamped' = everStamped \cup StampsNow
  /\ sessions' = IF sPc = "ready" THEN sessions + 1 ELSE sessions
  /\ UNCHANGED <<restarts, csv, written, readyAt, drained>>

OtherSteps ==
  /\ \/ Tick
     \/ \E r \in Replier : ReplierNext(r)
     \/ ReceiverNext /\ xPc \notin {"down", "write"}
  /\ UNCHANGED <<restarts, csv, historyVars>>

ReceiverGetsReady ==
  /\ ReceiverReady
  /\ readyAt' = clock
  /\ drained' = (sPc \in {"ready", "done"} /\ \A s \in Station : inbox[s] = {})
  /\ UNCHANGED <<restarts, csv, written, sessions, everStamped>>

\* The rows after the header: one per slot, "NaN" and is_missing 1 for an empty
\* one, but none at all if nothing was received.
CsvRow(i) == [frame_id |-> i, send |-> send_ts_ns[i], recv |-> recv_ts_ns[i],
              is_missing |-> is_missing[i]]
Rows == IF packet_count = 0 THEN {} ELSE {CsvRow(i) : i \in FrameId}

\* A slip: the file is opened to append.
Appended(rows) == csv \cup rows

\* fopen "w" begins with an empty file.
Written(rows) == rows

\* write_results_and_print_stats; without the file it goes on to the statistics.
ReceiverReports ==
  /\ WriteResults
  /\ \/ csv' = Written(Rows) /\ written' = TRUE
     \/ "failure" \in Disturbance /\ csv' = csv /\ written' = FALSE
  /\ UNCHANGED <<restarts, sessions, everStamped, readyAt, drained>>
-----------------------------------------------------------------------------
(* Restarts. *)

CountsRestart == restarts < MaxRestarts /\ restarts' = restarts + 1

SenderRestarts ==
  /\ sPc = "done" /\ CountsRestart
  /\ sPc' = "ready" /\ iteration' = 0
  /\ stamped' = [i \in Sent |-> -1]
  /\ UNCHANGED <<clock, inbox, waitUntil, replierVars, receiverVars,
                 csv, historyVars>>

\* Ctrl+C, or the exit after a failed recvfrom; the protection and measurement
\* state of the process is gone, and so is its socket.
ReplierRestarts(r) ==
  /\ rPc[r] # "down" /\ CountsRestart
  /\ rPc' = [rPc EXCEPT ![r] = "down"]
  /\ inbox' = [inbox EXCEPT ![r] = {}]
  /\ UNCHANGED <<clock, steps, senderVars, receiverVars, csv, historyVars>>

\* A slip: the slots are not marked as missing.
KeptMissing == is_missing

\* init_receiver
AllMissing == [i \in FrameId |-> 1]

ReceiverRestarts ==
  /\ xPc \in {"done", "failed"} /\ CountsRestart
  /\ xPc' = "down" /\ stdinReady' = FALSE /\ ignoring' \in BOOLEAN
  /\ send_ts_ns' = [i \in FrameId |-> 0]
  /\ recv_ts_ns' = [i \in FrameId |-> 0]
  /\ is_missing' = AllMissing
  /\ packet_count' = 0 /\ results' = NoResults
  /\ UNCHANGED <<clock, inbox, senderVars, replierVars, csv, historyVars>>

SeriesNext ==
  \/ SenderSteps \/ OtherSteps
  \/ ReceiverGetsReady \/ ReceiverReports
  \/ SenderRestarts \/ ReceiverRestarts
  \/ \E r \in Replier : ReplierRestarts(r)

SeriesSpec == SeriesInit /\ [][SeriesNext]_seriesVars
-----------------------------------------------------------------------------
\* Whatever is restarted, an entry holds a time that its frame id was stamped
\* in this session or an earlier one, and the time of a later reception: no
\* round trip is a wrapped subtraction, though it may be from another session.
RecordedWasStamped ==
  \A i \in Valid : /\ <<i, send_ts_ns[i]>> \in everStamped
                   /\ send_ts_ns[i] <= recv_ts_ns[i] /\ recv_ts_ns[i] <= clock

\* A receiver that gets ready between two sessions, when no socket holds a frame
\* any more, records no frame of an earlier session.
FreshWhenDrained == drained => \A i \in Valid : send_ts_ns[i] >= readyAt

\* Over a series of sessions a replier runs protection at most once per session
\* on a frame id: an old echo that is still under way is not processed again.
OneStepPerSession == \A r \in Replier, i \in Sent : steps[r][i] <= sessions

\* A report that could open the file leaves only its own session in it: a row
\* for every expected frame, the missing ones marked, or no row at all if
\* nothing came; and the file stays as it is until the next report.
CsvOfLastReport ==
  xPc = "done" /\ written =>
    IF packet_count = 0 THEN csv = {}
    ELSE /\ Cardinality(csv) = Expected
         /\ {w.frame_id : w \in csv} = FrameId
         /\ {w \in csv : w.is_missing = 0} =
              {[frame_id |-> w.frame_id, send |-> w.send, recv |-> w.recv,
                is_missing |-> 0] : w \in results.rows}

\* The receivers of a series implement the latency table session after session:
\* an entry is never changed or lost before its session has ended, and nothing
\* of one session's table or report is in the next.
ImplementsLogSeries == Log!LogSeriesSpec
=============================================================================

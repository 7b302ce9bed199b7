----------------------------- MODULE LatencyLog -----------------------------
(***************************************************************************)
(* What hot_receiver promises the experimenter, with no network in sight:  *)
(* a table with at most one latency entry per expected frame.  An entry is *)
(* written once, carries a send time not after its receive time, and is    *)
(* never touched again; the session ends once, either with a report that   *)
(* agrees with the table or without any report.                            *)
(***************************************************************************)
EXTENDS Integers, FiniteSets

CONSTANTS
  FrameId,    \* the frame ids the session expects
  Time,       \* the readings of the clock both stamps come from
  NoEntry     \* the table holds nothing for this frame

VARIABLES
  log,        \* FrameId -> NoEntry or a pair <<send time, receive time>>
  status,     \* "collecting", "reported" or "aborted"
  summary     \* the received and missing counts the report prints

logVars == <<log, status, summary>>

Logged == {i \in FrameId : log[i] # NoEntry}

LogInit ==
  /\ log = [i \in FrameId |-> NoEntry]
  /\ status = "collecting"
  /\ summary = [received |-> 0, missing |-> 0]

Enter(i, sent, received) ==
  /\ status = "collecting"
  /\ log[i] = NoEntry
  /\ sent <= received
  /\ log' = [log EXCEPT ![i] = <<sent, received>>]
  /\ UNCHANGED <<status, summary>>

Report ==
  /\ status = "collecting"
  /\ status' = "reported"
  /\ summary' = IF Logged = {}
                THEN summary          \* "No packets received.": no counts
                ELSE [received |-> Cardinality(Logged),
                      missing  |-> Cardinality(FrameId \ Logged)]
  /\ UNCHANGED log

Abort ==
  /\ status = "collecting"
  /\ status' = "aborted"
  /\ UNCHANGED <<log, summary>>

LogNext ==
  \/ \E i \in FrameId, sent, received \in Time : Enter(i, sent, received)
  \/ Report
  \/ Abort

LogSpec == LogInit /\ [][LogNext]_logVars

\* After the end of a session the next may begin, with a table of its own.
BeginAnew ==
  /\ status # "collecting"
  /\ log' = [i \in FrameId |-> NoEntry]
  /\ status' = "collecting"
  /\ summary' = [received |-> 0, missing |-> 0]

LogSeriesSpec == LogInit /\ [][LogNext \/ BeginAnew]_logVars
=============================================================================

----------------------------- MODULE PerfTimer -----------------------------
(***************************************************************************)
(* perf_timer: a buffer of a fixed number of samples, each the duration of *)
(* one call of a function, saved to a CSV file at the end.  A duration is  *)
(* represented by the work it timed.  Every Owner has a timer of its own.  *)
(***************************************************************************)
EXTENDS Naturals, Sequences

CONSTANTS
  Owner,       \* what is timed: the benchmark cases
  Capacity,    \* the capacity the timers are created with
  Failing      \* the calls that may fail, of "mlockall", "malloc", "fopen"

VARIABLES
  heap,     \* the blocks malloc and strdup have given out: <<owner, block>>
  deltas,   \* owner -> the samples of its timer
  csv       \* owner -> the rows of its file, or NoFile

Block == {"perf_timer_t", "filename", "deltas"}
BlocksOf(c) == {c} \X Block
NoFile == <<"no file">>

Init ==
  /\ heap = {}
  /\ deltas = [c \in Owner |-> <<>>]
  /\ csv = [c \in Owner |-> NoFile]

\* perf_timer_create was given every block it asked for.
Exists(c) == BlocksOf(c) \subseteq heap

\* A slip: NULL is returned, nothing is taken back.
LeakOf(c, got) == {c} \X got

\* The blocks left of a creation that got only some of them: the first call
\* that fails ends it, strdup and the second malloc are both tried, and
\* perf_timer_free takes back what they gave.
LeftOf(c, got) == IF got = Block THEN BlocksOf(c) ELSE {}

\* perf_timer_create, with the blocks it gets.
Create(c, got) ==
  /\ got # Block => "malloc" \in Failing /\ ("perf_timer_t" \in got \/ got = {})
  /\ heap' = heap \cup LeftOf(c, got)
  /\ deltas' = [deltas EXCEPT ![c] = <<>>]
  /\ UNCHANGED csv

\* A slip: the last slot is never used.
DeclinesEarly(c) == ~Exists(c) \/ Len(deltas[c]) + 1 >= Capacity

\* perf_timer_measure returns at once: there is no timer, or no room in it.
Declines(c) == ~Exists(c) \/ Len(deltas[c]) >= Capacity

\* The sample perf_timer_measure stores when the function has returned.
Stored(c, work) == Append(deltas[c], work)

Measure(c, work) ==
  /\ deltas' = [deltas EXCEPT ![c] = Stored(c, work)]
  /\ UNCHANGED <<heap, csv>>

\* perf_timer_stats, which only prints, then perf_timer_save, which returns
\* without a file if fopen fails, then perf_timer_free.
SaveAndFree(c) ==
  /\ \/ csv' = [csv EXCEPT ![c] = deltas[c]]
     \/ "fopen" \in Failing /\ UNCHANGED csv
  /\ heap' = heap \ BlocksOf(c)
  /\ UNCHANGED deltas
=============================================================================

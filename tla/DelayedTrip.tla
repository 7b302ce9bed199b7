---------------------------- MODULE DelayedTrip ----------------------------
(***************************************************************************)
(* What a definite-time element promises, without a clock: a channel trips *)
(* in exactly those calls that end a run of at least OperateCalls calls in *)
(* which its criterion held.  One call outside the criterion starts over.  *)
(***************************************************************************)
EXTENDS Integers

CONSTANTS
  Channel,        \* the phases the element watches
  OperateCalls    \* the calls its delay amounts to

VARIABLES
  run,        \* channel -> length of the current run, up to OperateCalls
  started,    \* the channels whose criterion held in the last call
  tripping    \* the channels the last call tripped

Init ==
  /\ run = [c \in Channel |-> 0]
  /\ started = {} /\ tripping = {}

Call(met) ==
  /\ run' = [c \in Channel |->
               IF c \notin met THEN 0
               ELSE IF run[c] = OperateCalls THEN OperateCalls ELSE run[c] + 1]
  /\ started' = met
  /\ tripping' = {c \in met : run'[c] = OperateCalls}

Next == \E met \in SUBSET Channel : Call(met)

Spec == Init /\ [][Next]_<<run, started, tripping>>
=============================================================================

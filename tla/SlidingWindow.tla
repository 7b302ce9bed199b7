--------------------------- MODULE SlidingWindow ---------------------------
(***************************************************************************)
(* What the measurement layer promises of its channels, with no buffer in  *)
(* sight: every channel remembers its last N samples in the order they     *)
(* came; while there are fewer, the measurement is the newest sample, and  *)
(* from the N-th on it is an estimate from exactly those N.                *)
(***************************************************************************)
EXTENDS Naturals, Sequences

CONSTANTS
  Channel,   \* the channels, sampled together
  Sample,    \* the sample values
  N          \* samples per cycle

VARIABLES
  window,     \* channel -> its last samples, oldest first
  measured    \* channel -> what the last call measured

Init ==
  /\ window = [c \in Channel |-> <<>>]
  /\ measured = [c \in Channel |-> <<>>]

Slide(w, x) == Append(IF Len(w) = N THEN Tail(w) ELSE w, x)

Call(x) ==
  /\ window' = [c \in Channel |-> Slide(window[c], x[c])]
  /\ measured' = [c \in Channel |-> IF Len(window'[c]) = N THEN window'[c]
                                    ELSE <<x[c]>>]

Next == \E x \in [Channel -> Sample] : Call(x)

Spec == Init /\ [][Next]_<<window, measured>>
=============================================================================

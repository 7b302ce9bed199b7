----------------------------- MODULE AngleWrap -----------------------------
(***************************************************************************)
(* normalize_angle, turn by turn, in floating point: the loops that bring  *)
(* an angle into a turn, and the fold into half a turn on either side.     *)
(* ProtCommon gives the elements the result of exact arithmetic; here is   *)
(* what rounding does to it, and for which angles the loops end.           *)
(***************************************************************************)
EXTENDS Rounding

CONSTANT Format   \* floating-point formats: [digits, pi, angles], the
                  \* significant bits, (float)M_PI, the angles to be wrapped

\* Pi, a whole turn and the angles are values of the format, in the range of
\* Rounding.
ASSUME FormatAssumption ==
  \A f \in Format : /\ f.digits \in 1 .. 29 /\ f.pi \in 1 .. Pow[28]
                    /\ f.angles \subseteq -Pow[29] .. Pow[29]
                    /\ \A a \in f.angles \cup {f.pi, 2 * f.pi} : Rounded(f.digits, a) = a

VARIABLES
  format,   \* the format used
  input,    \* the argument
  angle,    \* the local variable
  pc,       \* "subtract", "add", "fold", "done": the loops, the `if', the return
  turns,    \* history: the turns taken off, less those added; one that is lost
            \* in rounding, and so for ever, is not counted
  rounded   \* history: the operations counted, each rounded once

vars == <<format, input, angle, pc, turns, rounded>>

TwoPi == 2 * format.pi
Float(n) == Rounded(format.digits, n)

Init ==
  /\ format \in Format /\ input \in format.angles
  /\ angle = input /\ pc = "subtract"
  /\ turns = 0 /\ rounded = 0

\* The angle becomes `value', n turns less.
Becomes(value, n) ==
  /\ angle' = value
  /\ turns' = IF value = angle THEN turns ELSE turns + n
  /\ rounded' = IF value = angle THEN rounded ELSE rounded + 1

\* A slip: half a turn at a time.
HalfTurnOff == Float(angle - format.pi)

\* angle -= two_pi
TurnOff == Float(angle - TwoPi)

\* angle += two_pi
TurnOn == Float(angle + TwoPi)

\* The first loop: one turn of it, or its end.
Subtract ==
  /\ pc = "subtract"
  /\ IF angle >= TwoPi
     THEN Becomes(TurnOff, 1) /\ pc' = pc
     ELSE pc' = "add" /\ UNCHANGED <<angle, turns, rounded>>
  /\ UNCHANGED <<format, input>>

\* A slip: the angle is taken for one that is not negative.
NoLoop == FALSE

Negative == angle < 0

\* The second loop.
Add ==
  /\ pc = "add"
  /\ IF Negative
     THEN Becomes(TurnOn, -1) /\ pc' = pc
     ELSE pc' = "fold" /\ UNCHANGED <<angle, turns, rounded>>
  /\ UNCHANGED <<format, input>>

\* A slip: mirrored instead of moved by a turn.
Mirrored == Float(TwoPi - angle)

\* The subtraction of the `if'.
Folded == Float(angle - TwoPi)

Fold ==
  /\ pc = "fold" /\ pc' = "done"
  /\ IF angle > format.pi
     THEN Becomes(Folded, 1)
     ELSE UNCHANGED <<angle, turns, rounded>>
  /\ UNCHANGED <<format, input>>

Next == Subtract \/ Add \/ Fold

Spec == Init /\ [][Next]_vars

\* A function that runs without waiting for anything.
FairSpec == Spec /\ WF_vars(Next)
-----------------------------------------------------------------------------
\* "Normalize angle into [-pi, +pi]": also for a negative angle so small that
\* adding a turn rounds to the whole turn, which the second loop lets pass.
IntoHalfTurns == pc = "done" => -format.pi <= angle /\ angle <= format.pi

\* The direction is kept: but for whole turns the result is off by no more than
\* half a spacing, that of the argument or of a turn, for every operation made;
\* and an angle within a turn of 0, as every caller passes, needs two at most.
KeepsDirection ==
  pc = "done" =>
    LET off == Magn(angle + turns * TwoPi - input)
        larger == IF Magn(input) > TwoPi THEN input ELSE TwoPi
    IN  /\ 2 * off <= rounded * Spacing(format.digits, larger)
        /\ Magn(input) < TwoPi => rounded <= 2

\* The loops end for every angle that is precise to less than two turns; where
\* the floats are further apart, a turn may be lost in rounding for ever.
LoopsEnd == <>(pc = "done" \/ Spacing(format.digits, input) >= 2 * TwoPi)
=============================================================================

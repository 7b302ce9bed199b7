---------------------------- MODULE MCAngleWrap ----------------------------
(***************************************************************************)
(* Every angle of a format of six bits, up to those whose turns are lost;  *)
(* and float, in units of 2^-24 rad, for the differences that the elements *)
(* form of measured angles at the edges of their range.                    *)
(***************************************************************************)
EXTENDS AngleWrap

ToLimit == {n \in -2^16 .. 2^16 : Rounded(6, n) = n}
Toy == [digits |-> 6, pi |-> 200, angles |-> ToLimit]

FloatPi == 52707180
\* Results of atan2f: 0, the smallest units, a right angle, half a turn and the
\* floats next to it.
Measured == {s * a : s \in {-1, 1},
                     a \in {0, 1, 3, 5, 2^24 + 2, FloatPi \div 2, FloatPi - 4, FloatPi}}
Binary32 == [digits |-> 24, pi |-> FloatPi,
             angles |-> {Rounded(24, a - b) : a, b \in Measured}]

Formats == {Toy, Binary32}
=============================================================================

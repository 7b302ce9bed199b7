------------------------------ MODULE Rounding ------------------------------
(***************************************************************************)
(* Binary floating point, exactly: a value is a whole number of some unit, *)
(* a format is the number of its significant bits, 24 for float.  Values   *)
(* are below 2^30 units, so that TLC's integers hold them.                 *)
(***************************************************************************)
EXTENDS Integers

\* Exponents add up, as far as the values go.
ASSUME PowersOfTwo ==
  \A m, n \in 0 .. 30 : m + n <= 30 => 2^m \in Nat \ {0} /\ 2^(m + n) = 2^m * 2^n

\* The powers of two that are values, or one past them.
Pow == [k \in 0 .. 30 |-> 2^k]

Magn(n) == IF n < 0 THEN -n ELSE n

\* The spacing of the floats around n.
Spacing(digits, n) ==
  IF Magn(n) < Pow[digits] THEN 1
  ELSE Pow[CHOOSE k \in 1 .. 30 - digits :
             Pow[k + digits - 1] <= Magn(n) /\ Magn(n) < Pow[k + digits]]

\* Round to nearest, ties to even.
Rounded(digits, n) ==
  LET u == Spacing(digits, n)
      below == n - (n % u)
  IN  IF \/ 2 * (n % u) < u
         \/ 2 * (n % u) = u /\ (below \div u) % 2 = 0
      THEN below ELSE below + u
=============================================================================

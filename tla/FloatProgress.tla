--------------------------- MODULE FloatProgress ---------------------------
(***************************************************************************)
(* The float progress of ANSI 51 IDMT, exactly: a positive float stands as *)
(* the whole number its 32 bits make, which orders patterns as the floats  *)
(* they are.  Unlike a timer's, the values span too many binades for one   *)
(* unit to fit TLC's integers.                                             *)
(***************************************************************************)
EXTENDS Integers

\* The significand's 24th bit, and the bias of the exponent.
Hidden == 2^23
Bias == 127

Exponent(x) == x \div Hidden
Significand(x) == Hidden + (x % Hidden)

\* A significand that rounds up to 2^24 carries into the exponent by itself.
Packed(exponent, significand) == exponent * Hidden + (significand - Hidden)

\* Round to nearest, ties to even: q and the fraction rest / unit.
Nearest(q, rest, unit) ==
  IF 2 * rest > unit \/ (2 * rest = unit /\ q % 2 = 1) THEN q + 1 ELSE q

\* (float)n, for n below 2^24.
FloatOf(n) ==
  LET k == CHOOSE k \in 0 .. 23 : 2^k <= n /\ n < 2^(k + 1)
  IN  Packed(Bias + k, n * 2^(23 - k))

\* n more binary digits of the quotient q of two significands, rest left.
MoreDigits[n \in Nat, q \in Nat, rest \in Nat, divisor \in Nat] ==
  IF n = 0 THEN Nearest(q, rest, divisor)
  ELSE MoreDigits[n - 1, 2 * q + (2 * rest) \div divisor, (2 * rest) % divisor, divisor]

\* x / y.
Quotient(x, y) ==
  LET m == Significand(x)
      d == Significand(y)
      exponent == Bias + Exponent(x) - Exponent(y)
  IN  IF m >= d THEN Packed(exponent, MoreDigits[23, m \div d, m % d, d])
      ELSE Packed(exponent - 1, MoreDigits[24, m \div d, m % d, d])

\* x + y, where y is the smaller, but not by more than 2^24.
Sum(x, y) ==
  LET unit == 2^(Exponent(x) - Exponent(y))
      q    == Significand(x) + Significand(y) \div unit
      rest == Significand(y) % unit
  IN  IF q < 2 * Hidden THEN Packed(Exponent(x), Nearest(q, rest, unit))
      ELSE Packed(Exponent(x) + 1, Nearest(q \div 2, (q % 2) * unit + rest, 2 * unit))

\* (float)microseconds / 1e6f, which is also the float next to that many seconds.
Seconds(microseconds) == Quotient(FloatOf(microseconds), FloatOf(1000000))

\* `*progress += dt_seconds / operate_time', given the share of the call.
Advance(progress, share) ==
  IF progress = 0 THEN share
  ELSE IF progress < share THEN Sum(share, progress) ELSE Sum(progress, share)
=============================================================================

-------------------------- MODULE AngleWrapProofs --------------------------
(***************************************************************************)
(* Proofs about rounding, and about normalize_angle in rounded arithmetic, *)
(* for every format.                                                       *)
(***************************************************************************)
EXTENDS AngleWrap, TLAPS

-----------------------------------------------------------------------------
(* Powers of two *)

\* The powers are positive, and exponents add up.
LEMMA Powers ==
  /\ \A k \in 0 .. 30 : Pow[k] \in Nat \ {0}
  /\ \A m, n \in 0 .. 30 : m + n <= 30 => Pow[m + n] = Pow[m] * Pow[n]
<1>1. ASSUME NEW k \in 0 .. 30
      PROVE  Pow[k] = 2^k /\ 2^k \in Nat \ {0}
  <2>1. 0 \in 0 .. 30 /\ k + 0 <= 30
    OBVIOUS
  <2>2. 2^k \in Nat \ {0}
    BY <2>1, PowersOfTwo
  <2>3. QED
    BY <2>2 DEF Pow
<1>2. ASSUME NEW m \in 0 .. 30, NEW n \in 0 .. 30, m + n <= 30
      PROVE  Pow[m + n] = Pow[m] * Pow[n]
  <2>1. m + n \in 0 .. 30
    BY <1>2
  <2>2. 2^(m + n) = 2^m * 2^n
    BY <1>2, PowersOfTwo
  <2>3. Pow[m + n] = 2^(m + n)
    BY <2>1 DEF Pow
  <2>4. QED
    BY <1>1, <2>2, <2>3
<1>3. QED
  BY <1>1, <1>2

\* The first and the second of them.
LEMMA FirstPowers == Pow[0] = 1 /\ Pow[1] = 2
<1>1. 2^0 = 1 /\ 2^1 = 2
  BY SMT
<1>2. QED
  BY <1>1 DEF Pow

\* The range of the exponents of a format.
LEMMA PowerOf ==
  /\ \A d \in 1 .. 29 : \A k \in 0 .. 30 - d : Pow[k] \in Nat \ {0}
  /\ Pow[30] \in Nat \ {0}
<1>1. ASSUME NEW d \in 1 .. 29, NEW k \in 0 .. 30 - d
      PROVE  k \in 0 .. 30
  OBVIOUS
<1>2. 30 \in 0 .. 30
  OBVIOUS
<1>3. QED
  BY <1>1, <1>2, Powers

\* Each is twice the one before.
LEMMA Doubles == \A k \in 0 .. 29 : Pow[k + 1] = 2 * Pow[k]
<1>1. ASSUME NEW k \in 0 .. 29
      PROVE  Pow[k + 1] = Pow[k] * Pow[1]
  <2>1. k \in 0 .. 30 /\ 1 \in 0 .. 30 /\ k + 1 <= 30
    OBVIOUS
  <2>2. QED
    BY <2>1, Powers
<1>2. \A k \in 0 .. 30 : Pow[k] \in Nat
  BY Powers
<1>3. QED
  BY <1>1, <1>2, FirstPowers

\* A number below the last power lies between two of them.
LEMMA Between ==
  ASSUME NEW m \in Nat, NEW first \in 0 .. 30, Pow[first] <= m, m < Pow[30]
  PROVE  \E j \in first + 1 .. 30 : Pow[j - 1] <= m /\ m < Pow[j]
<1>1. SUFFICES ASSUME \A j \in first + 1 .. 30 : ~(Pow[j - 1] <= m /\ m < Pow[j])
               PROVE  FALSE
  OBVIOUS
<1>2. \A j \in 0 .. 30 : Pow[j] \in Nat
  BY Powers
<1>3. \A j \in 0 .. 29 : j >= first /\ Pow[j] <= m => Pow[j + 1] <= m
  BY <1>1, <1>2
<1>4. Pow[30] <= m
  BY <1>2, <1>3
<1>5. QED
  BY <1>2, <1>4

\* A power divides the later ones, and is no larger.
LEMMA Divides ==
  ASSUME NEW j \in 0 .. 30, NEW k \in j .. 30
  PROVE  Pow[k] = Pow[k - j] * Pow[j] /\ Pow[j] <= Pow[k]
<1>1. k - j \in 0 .. 30 /\ (k - j) + j = k /\ k \in 0 .. 30
  OBVIOUS
<1>2. Pow[k] = Pow[k - j] * Pow[j]
  <2>1. PICK i \in 0 .. 30 : i = k - j
    BY <1>1
  <2>2. i + j <= 30 /\ i + j = k
    BY <2>1
  <2>3. Pow[i + j] = Pow[i] * Pow[j]
    BY <2>2, Powers
  <2>4. QED
    BY <2>1, <2>2, <2>3
<1>3. Pow[k - j] \in Nat \ {0} /\ Pow[j] \in Nat \ {0} /\ Pow[k] \in Nat
  BY <1>1, Powers
<1>4. PICK a \in Nat, b \in Nat, c \in Nat : a = Pow[k - j] - 1 /\ b = Pow[j] /\ c = Pow[k]
  BY <1>3
<1>5. c = a * b + b /\ a * b \in Nat
  <2>1. Pow[k - j] = a + 1
    BY <1>3, <1>4
  <2>2. c = (a + 1) * b
    BY <1>2, <1>4, <2>1
  <2>3. QED
    BY <2>2
<1>6. QED
  BY <1>2, <1>4, <1>5

-----------------------------------------------------------------------------
(* Rounding *)

\* Numbers of which Rounding speaks.
InRange(n) == n \in Int /\ -Pow[30] < n /\ n < Pow[30]

\* The spacing around n is 2^k.
HasSpacing(d, n, k) ==
  /\ k \in 0 .. 30 - d /\ Spacing(d, n) = Pow[k]
  /\ Magn(n) < Pow[k + d]
  /\ k > 0 => Pow[k + d - 1] <= Magn(n)

\* Every number in range has one.
LEMMA SomeSpacing ==
  ASSUME NEW d \in 1 .. 29, NEW n, InRange(n)
  PROVE  \E k \in 0 .. 30 - d : HasSpacing(d, n, k)
<1>1. /\ \A j \in 0 .. 30 : Pow[j] \in Nat
      /\ Magn(n) \in Nat /\ Magn(n) < Pow[30]
  <2>1. \A j \in 0 .. 30 : Pow[j] \in Nat
    BY Powers
  <2>2. Magn(n) \in Nat /\ Magn(n) < Pow[30]
    BY <2>1 DEF InRange, Magn
  <2>3. QED
    BY <2>1, <2>2
<1>2. CASE Magn(n) < Pow[d]
  <2>1. Spacing(d, n) = Pow[0]
    BY <1>1, <1>2, FirstPowers DEF Spacing
  <2>2. QED
    BY <1>2, <2>1 DEF HasSpacing
<1>3. CASE Pow[d] <= Magn(n)
  <2>1. PICK j \in d + 1 .. 30 : Pow[j - 1] <= Magn(n) /\ Magn(n) < Pow[j]
    <3>1. PICK m \in Nat : m = Magn(n)
      BY <1>1
    <3>2. d \in 0 .. 30 /\ Pow[d] <= m /\ m < Pow[30]
      BY <1>1, <1>3, <3>1
    <3>3. QED
      BY <3>1, <3>2, Between
  <2> DEFINE Fits(k) == Pow[k + d - 1] <= Magn(n) /\ Magn(n) < Pow[k + d]
             k == CHOOSE k \in 1 .. 30 - d : Fits(k)
  <2>2. PICK i \in 1 .. 30 - d : i = j - d
    OBVIOUS
  <2>3. Fits(i)
    BY <1>1, <2>1, <2>2
  <2>4. k \in 1 .. 30 - d /\ Fits(k)
    <3> HIDE DEF Fits
    <3> QED
      BY <2>3
  <2>5. Spacing(d, n) = Pow[k]
    BY <1>1, <1>3 DEF Spacing
  <2> HIDE DEF k
  <2>6. k \in 0 .. 30 /\ k + d \in 0 .. 30 /\ k + d - 1 \in 0 .. 30
    BY <2>4
  <2>7. HasSpacing(d, n, k)
    BY <1>1, <2>4, <2>5, <2>6 DEF HasSpacing
  <2>8. QED
    BY <2>4, <2>7
<1>4. QED
  BY <1>1, <1>2, <1>3

\* The spacing is no smaller for a number that is no smaller.
LEMMA SpacingGrows ==
  ASSUME NEW d \in 1 .. 29, NEW m, NEW n, InRange(m), InRange(n), Magn(m) <= Magn(n),
         NEW j, NEW k, HasSpacing(d, m, j), HasSpacing(d, n, k)
  PROVE  j <= k
<1>1. \A i \in 0 .. 30 : Pow[i] \in Nat
  BY Powers
<1>2. SUFFICES ASSUME j >= k + 1 PROVE FALSE
  BY DEF HasSpacing
<1>3. k + d \in 0 .. 30 /\ j + d - 1 \in k + d .. 30
  BY <1>2 DEF HasSpacing
<1>4. Pow[k + d] <= Pow[j + d - 1]
  BY <1>3, Divides
<1>5. Pow[j + d - 1] <= Magn(m) /\ Magn(n) < Pow[k + d]
  BY <1>2 DEF HasSpacing
<1>6. QED
  BY <1>1, <1>3, <1>4, <1>5 DEF InRange, Magn

Multiples(u) == {q * u : q \in Int}

\* The nearest number: a multiple of the spacing, no further off than half of it.
LEMMA Nearest ==
  ASSUME NEW d \in 1 .. 29, NEW n, InRange(n), NEW k, HasSpacing(d, n, k)
  PROVE  Rounded(d, n) \in Multiples(Pow[k]) /\ 2 * Magn(Rounded(d, n) - n) <= Pow[k]
<1>1. n \in Int /\ k \in 0 .. 30 /\ Spacing(d, n) = Pow[k]
  BY DEF InRange, HasSpacing
<1>2. PICK u \in Nat \ {0} : u = Pow[k]
  BY <1>1, Powers
<1>3. PICK r \in 0 .. u - 1, q \in Int : r = n % u /\ n = q * u + r
  <2>1. n % u \in 0 .. u - 1 /\ n \div u \in Int /\ n = (n \div u) * u + (n % u)
    BY <1>1
  <2>2. QED
    BY <2>1
<1>4. n - r = q * u /\ (n - r) + u = (q + 1) * u
  BY <1>1, <1>3
<1>5. \/ Rounded(d, n) = n - r /\ 2 * r <= u
      \/ Rounded(d, n) = (n - r) + u /\ 2 * r >= u
  BY <1>1, <1>2, <1>3 DEF Rounded
<1>6. Rounded(d, n) \in Int /\ 2 * Magn(Rounded(d, n) - n) <= u
  BY <1>1, <1>3, <1>5 DEF Magn
<1>7. Rounded(d, n) \in Multiples(u)
  <2>1. q \in Int /\ q + 1 \in Int
    OBVIOUS
  <2>2. n - r \in Multiples(u) /\ (n - r) + u \in Multiples(u)
    BY <1>4, <2>1 DEF Multiples
  <2>3. QED
    BY <1>5, <2>2
<1>8. QED
  BY <1>2, <1>6, <1>7

\* No multiple of the spacing lies between a number and its nearest one.
LEMMA NoneBetween ==
  ASSUME NEW u \in Nat \ {0}, NEW a \in Multiples(u), NEW b \in Multiples(u),
         NEW n \in Int, 2 * Magn(a - n) <= u
  PROVE  /\ n <= b => a <= b
         /\ b <= n => b <= a
<1>1. PICK q \in Int, r \in Int : a = q * u /\ b = r * u
  BY DEF Multiples
<1>2. a \in Int /\ b \in Int
  BY <1>1
<1>3. q > r => a >= b + u
  <2>1. SUFFICES ASSUME q > r PROVE a >= b + u
    OBVIOUS
  <2>2. PICK e \in Nat : q = r + 1 + e
    BY <2>1
  <2>3. a = b + u + e * u /\ e * u \in Nat
    BY <1>1, <2>2
  <2>4. QED
    BY <1>2, <2>3
<1>4. q < r => b >= a + u
  <2>1. SUFFICES ASSUME q < r PROVE b >= a + u
    OBVIOUS
  <2>2. PICK e \in Nat : r = q + 1 + e
    BY <2>1
  <2>3. b = a + u + e * u /\ e * u \in Nat
    BY <1>1, <2>2
  <2>4. QED
    BY <1>2, <2>3
<1>5. q = r => a = b
  BY <1>1
<1>6. QED
  BY <1>2, <1>3, <1>4, <1>5 DEF Magn

\* Multiples of a spacing.
LEMMA SomeMultiples ==
  ASSUME NEW u \in Nat \ {0}
  PROVE  /\ Multiples(u) \subseteq Int /\ 0 \in Multiples(u)
         /\ \A a \in Multiples(u) : -a \in Multiples(u)
         /\ \A v \in Nat : v * u \in Multiples(u) /\ Multiples(v * u) \subseteq Multiples(u)
<1>1. Multiples(u) \subseteq Int
  BY DEF Multiples
<1>2. 0 \in Multiples(u)
  <2>1. 0 * u = 0 /\ 0 \in Int
    OBVIOUS
  <2>2. QED
    BY <2>1 DEF Multiples
<1>3. ASSUME NEW a \in Multiples(u) PROVE -a \in Multiples(u)
  <2>1. PICK q \in Int : a = q * u
    BY DEF Multiples
  <2>2. -a = (-q) * u /\ -q \in Int
    BY <2>1
  <2>3. QED
    BY <2>2 DEF Multiples
<1>4. ASSUME NEW v \in Nat, NEW a \in Multiples(v * u) PROVE a \in Multiples(u)
  <2>1. PICK q \in Int : a = q * (v * u)
    BY DEF Multiples
  <2>2. a = (q * v) * u /\ q * v \in Int
    BY <2>1
  <2>3. QED
    BY <2>2 DEF Multiples
<1>5. \A v \in Nat : v * u \in Multiples(u)
  BY DEF Multiples
<1>6. QED
  BY <1>1, <1>2, <1>3, <1>4, <1>5

\* A value of the format bounds the rounding of what it bounds.
LEMMA RoundsWithin ==
  ASSUME NEW d \in 1 .. 29, NEW n, InRange(n), NEW a, InRange(a), Rounded(d, a) = a
  PROVE  /\ Rounded(d, n) \in Int
         /\ n <= a => Rounded(d, n) <= a
         /\ a <= n => a <= Rounded(d, n)
<1>1. PICK j \in 0 .. 30 - d, k \in 0 .. 30 - d : HasSpacing(d, a, j) /\ HasSpacing(d, n, k)
  BY SomeSpacing
<1>2. PICK u \in Nat \ {0} : u = Pow[k]
  BY <1>1, PowerOf
<1>3. a \in Multiples(Pow[j])
  BY <1>1, Nearest
<1>4. PICK x : x = Rounded(d, n) /\ x \in Multiples(u) /\ 2 * Magn(x - n) <= u
  BY <1>1, <1>2, Nearest
<1>5. n \in Int /\ a \in Int /\ x \in Int
  BY <1>4, SomeMultiples DEF InRange
<1>6. CASE k <= j
  <2>1. j \in k .. 30 /\ k \in 0 .. 30 /\ j - k \in 0 .. 30
    BY <1>1, <1>6
  <2>2. PICK v \in Nat : v = Pow[j - k]
    BY <2>1, Powers
  <2>3. Pow[j] = v * u
    BY <1>2, <2>1, <2>2, Divides
  <2>4. a \in Multiples(u)
    BY <1>3, <2>3, SomeMultiples
  <2>5. QED
    BY <1>4, <1>5, <2>4, NoneBetween
<1>7. CASE j < k
  <2>1. /\ j + d \in 0 .. 30 /\ k + d - 1 \in j + d .. 30 /\ d - 1 \in 0 .. 30
        /\ k \in 0 .. 30 /\ k + d - 1 \in k .. 30 /\ (k + d - 1) - k = d - 1
        /\ k + d - 1 \in 0 .. 30
    BY <1>1, <1>7
  <2>2. PICK v \in Nat : v = Pow[d - 1]
    BY <2>1, Powers
  <2>3. Pow[k + d - 1] = v * u
    BY <1>2, <2>1, <2>2, Divides
  <2>4. PICK b \in Nat : b = Pow[k + d - 1]
    BY <2>1, Powers
  <2>5. b \in Multiples(u) /\ -b \in Multiples(u)
    BY <2>2, <2>3, <2>4, SomeMultiples
  <2>6. Pow[j + d] <= Pow[k + d - 1]
    BY <2>1, Divides
  <2>7. Magn(a) < Pow[j + d] /\ Pow[k + d - 1] <= Magn(n)
    BY <1>1, <1>7 DEF HasSpacing
  <2>8. Magn(a) < b /\ b <= Magn(n)
    <3>1. Pow[j + d] \in Nat
      BY <2>1, Powers
    <3>2. QED
      BY <1>5, <2>4, <2>6, <2>7, <3>1 DEF Magn
  <2>9. /\ n <= -b => x <= -b
        /\ b <= n => b <= x
    BY <1>4, <1>5, <2>5, NoneBetween
  <2>10. QED
    BY <1>4, <1>5, <2>8, <2>9 DEF Magn
<1>8. QED
  BY <1>1, <1>6, <1>7

\* The formats are symmetric.
LEMMA OppositeIsExact ==
  ASSUME NEW d \in 1 .. 29, NEW a, InRange(a), Rounded(d, a) = a
  PROVE  InRange(-a) /\ Rounded(d, -a) = -a
<1>1. a \in Int /\ -a \in Int /\ InRange(-a)
  BY PowerOf DEF InRange
<1>2. PICK k \in 0 .. 30 - d : HasSpacing(d, a, k)
  BY SomeSpacing
<1>3. HasSpacing(d, -a, k)
  <2>1. Magn(-a) = Magn(a)
    BY <1>1 DEF Magn
  <2>2. QED
    BY <1>2, <2>1 DEF HasSpacing, Spacing
<1>4. PICK u \in Nat \ {0} : u = Pow[k]
  BY <1>2, PowerOf
<1>5. -a \in Multiples(u)
  BY <1>2, <1>4, Nearest, SomeMultiples
<1>6. PICK x : x = Rounded(d, -a) /\ x \in Multiples(u) /\ 2 * Magn(x - (-a)) <= u
  BY <1>1, <1>3, <1>4, Nearest
<1>7. x <= -a /\ -a <= x
  BY <1>1, <1>5, <1>6, NoneBetween
<1>8. QED
  BY <1>1, <1>6, <1>7, SomeMultiples

\* Zero is a value of every format.
LEMMA ZeroIsExact ==
  ASSUME NEW d \in 1 .. 29
  PROVE  InRange(0) /\ Rounded(d, 0) = 0
<1>1. InRange(0)
  BY PowerOf DEF InRange
<1>2. PICK k \in 0 .. 30 - d : HasSpacing(d, 0, k)
  BY <1>1, SomeSpacing
<1>3. PICK u \in Nat \ {0} : u = Pow[k]
  BY <1>2, PowerOf
<1>4. PICK x, z : /\ x = Rounded(d, 0) /\ x \in Multiples(u) /\ 2 * Magn(x - z) <= u
                  /\ z = 0 /\ z \in Multiples(u)
  BY <1>1, <1>2, <1>3, Nearest, SomeMultiples
<1>5. x <= z /\ z <= x
  BY <1>4, NoneBetween
<1>6. QED
  BY <1>1, <1>4, <1>5, SomeMultiples

-----------------------------------------------------------------------------
(* The function *)

\* What the property measures the result by.
Larger == IF Magn(input) > TwoPi THEN input ELSE TwoPi
Grain == Spacing(format.digits, Larger)
Off == Magn(angle + turns * TwoPi - input)

\* A format and an angle that the function is called with.
CallOK ==
  /\ format \in Format /\ input \in format.angles
  /\ angle \in Int /\ turns \in Int /\ rounded \in Nat
  /\ pc \in {"subtract", "add", "fold", "done"}

\* Where the angle is, from one loop to the next.
RangeInv ==
  /\ -Magn(Larger) <= angle /\ angle <= Magn(Larger)
  /\ pc = "add" => angle <= TwoPi
  /\ pc = "fold" => 0 <= angle /\ angle <= TwoPi
  /\ IntoHalfTurns

\* The operations of a call with an angle within a turn.
NearInv ==
  Magn(input) < TwoPi =>
    /\ pc = "subtract" => rounded = 0 /\ angle = input
    /\ pc = "add" => \/ rounded = 0 /\ angle = input
                     \/ rounded = 1 /\ angle >= 0
    /\ pc = "fold" => rounded <= 1
    /\ rounded <= 2

WrapInv ==
  /\ CallOK /\ RangeInv /\ NearInv
  /\ 2 * Off <= rounded * Grain

\* The constants of a call.
LEMMA CallFacts ==
  ASSUME CallOK
  PROVE  /\ format.digits \in 1 .. 29
         /\ format.pi \in Nat \ {0} /\ TwoPi = 2 * format.pi /\ input \in Int
         /\ InRange(format.pi) /\ Float(format.pi) = format.pi
         /\ InRange(TwoPi) /\ Float(TwoPi) = TwoPi
         /\ InRange(input) /\ Float(input) = input
         /\ InRange(Larger) /\ Float(Larger) = Larger
         /\ Magn(input) <= Magn(Larger) /\ TwoPi <= Magn(Larger)
<1>1. /\ \A k \in 0 .. 30 : Pow[k] \in Nat \ {0}
      /\ Pow[29] = 2 * Pow[28] /\ Pow[30] = 2 * Pow[29]
  <2>1. Pow[28 + 1] = 2 * Pow[28] /\ Pow[29 + 1] = 2 * Pow[29]
    BY Doubles
  <2>2. QED
    BY <2>1, Powers
<1>2. PICK b \in Nat \ {0} : b = Pow[28] /\ 2 * b = Pow[29] /\ 4 * b = Pow[30]
  BY <1>1
<1>3. /\ format.digits \in 1 .. 29
      /\ format.pi \in 1 .. b
      /\ input \in -(2 * b) .. 2 * b
      /\ Float(format.pi) = format.pi /\ Float(2 * format.pi) = 2 * format.pi
      /\ Float(input) = input
  BY <1>2, FormatAssumption DEF CallOK, Float
<1>4. TwoPi = 2 * format.pi /\ TwoPi \in Int
  BY <1>3 DEF TwoPi
<1>5. InRange(format.pi) /\ InRange(TwoPi) /\ InRange(input)
  BY <1>2, <1>3, <1>4 DEF InRange
<1>6. /\ InRange(Larger) /\ Float(Larger) = Larger
      /\ Magn(input) <= Magn(Larger) /\ TwoPi <= Magn(Larger)
  BY <1>3, <1>4, <1>5 DEF Larger, Magn
<1>7. format.pi \in Nat \ {0} /\ input \in Int
  BY <1>3
<1>8. QED
  BY <1>3, <1>4, <1>5, <1>6, <1>7

\* What bounds a number bounds its rounding: a whole turn, half of one on either
\* side, zero, and the larger of the angle and a turn.
LEMMA RoundsBetween ==
  ASSUME CallOK, NEW exact \in Int, Magn(exact) <= Magn(Larger)
  PROVE  /\ 0 <= exact => 0 <= Float(exact)
         /\ exact <= 0 => Float(exact) <= 0
         /\ exact <= TwoPi => Float(exact) <= TwoPi
         /\ -format.pi <= exact => -format.pi <= Float(exact)
         /\ -Magn(Larger) <= Float(exact) /\ Float(exact) <= Magn(Larger)
<1>1. /\ format.digits \in 1 .. 29
      /\ InRange(format.pi) /\ Float(format.pi) = format.pi
      /\ InRange(TwoPi) /\ Float(TwoPi) = TwoPi
      /\ InRange(Larger) /\ Float(Larger) = Larger
  BY CallFacts
<1>2. /\ \A a : InRange(a) /\ Float(a) = a =>
           /\ InRange(-a) /\ Float(-a) = -a
      /\ InRange(0) /\ Float(0) = 0
  BY <1>1, OppositeIsExact, ZeroIsExact DEF Float
<1>3. InRange(exact) /\ Larger \in Int
  <2>1. Larger \in Int /\ Pow[30] \in Nat /\ Magn(Larger) < Pow[30]
    BY <1>1, PowerOf DEF InRange, Magn
  <2>2. QED
    BY <2>1 DEF InRange, Magn
<1>4. \A a : InRange(a) /\ Float(a) = a =>
         /\ exact <= a => Float(exact) <= a
         /\ a <= exact => a <= Float(exact)
  BY <1>1, <1>3, RoundsWithin DEF Float
<1>5. /\ 0 <= exact => 0 <= Float(exact)
      /\ exact <= 0 => Float(exact) <= 0
      /\ exact <= TwoPi => Float(exact) <= TwoPi
      /\ -format.pi <= exact => -format.pi <= Float(exact)
  BY <1>1, <1>2, <1>4
<1>6. -Magn(Larger) <= Float(exact) /\ Float(exact) <= Magn(Larger)
  <2>1. /\ -Magn(Larger) <= exact /\ exact <= Magn(Larger)
        /\ Magn(Larger) \in {Larger, -Larger} /\ -Magn(Larger) \in {Larger, -Larger}
    BY <1>3 DEF Magn
  <2>2. /\ InRange(Magn(Larger)) /\ Float(Magn(Larger)) = Magn(Larger)
        /\ InRange(-Magn(Larger)) /\ Float(-Magn(Larger)) = -Magn(Larger)
    BY <1>1, <1>2, <2>1
  <2>3. QED
    BY <1>4, <2>1, <2>2
<1>7. QED
  BY <1>5, <1>6

\* An operation on a number is off by half the spacing of a larger one at most.
LEMMA HalfASpacing ==
  ASSUME NEW d \in 1 .. 29, NEW n, InRange(n), NEW m, InRange(m), Magn(n) <= Magn(m)
  PROVE  /\ 2 * Magn(Rounded(d, n) - n) <= Spacing(d, m)
         /\ Rounded(d, n) \in Int /\ Spacing(d, m) \in Nat
<1>1. PICK j \in 0 .. 30 - d, k \in 0 .. 30 - d : HasSpacing(d, n, j) /\ HasSpacing(d, m, k)
  BY SomeSpacing
<1>2. j \in 0 .. 30 /\ k \in j .. 30
  <2>1. j <= k
    BY <1>1, SpacingGrows
  <2>2. QED
    BY <1>1, <2>1
<1>3. Pow[j] <= Pow[k]
  BY <1>2, Divides
<1>4. Pow[j] \in Nat \ {0} /\ Pow[k] \in Nat \ {0}
  BY <1>1, PowerOf
<1>5. 2 * Magn(Rounded(d, n) - n) <= Pow[j] /\ Rounded(d, n) \in Int
  BY <1>1, <1>4, Nearest, SomeMultiples
<1>6. Magn(Rounded(d, n) - n) \in Int
  BY <1>5 DEF InRange, Magn
<1>7. Spacing(d, m) = Pow[k]
  BY <1>1 DEF HasSpacing
<1>8. QED
  BY <1>3, <1>4, <1>5, <1>6, <1>7

\* One turn more or less keeps the direction within what the counted operations
\* may be off.
LEMMA OneOperation ==
  ASSUME CallOK, 2 * Off <= rounded * Grain,
         NEW n \in {-1, 1}, NEW exact \in Int, exact = angle - n * TwoPi,
         Magn(exact) <= Magn(Larger),
         Becomes(Float(exact), n), UNCHANGED <<format, input>>
  PROVE  /\ angle' = Float(exact) /\ angle' \in Int
         /\ turns' \in Int
         /\ \/ rounded' = rounded /\ angle' = angle
            \/ rounded' = rounded + 1
         /\ (2 * Off <= rounded * Grain)'
<1>1. /\ format.digits \in 1 .. 29 /\ InRange(Larger) /\ InRange(exact)
      /\ TwoPi \in Nat /\ input \in Int /\ angle \in Int /\ turns \in Int /\ rounded \in Nat
  <2>1. Larger \in Int /\ Pow[30] \in Nat /\ Magn(Larger) < Pow[30]
    BY CallFacts, PowerOf DEF InRange, Magn
  <2>2. InRange(exact)
    BY <2>1 DEF InRange, Magn
  <2>3. QED
    BY <2>2, CallFacts DEF CallOK
<1>2. /\ 2 * Magn(Float(exact) - exact) <= Grain
      /\ Float(exact) \in Int /\ Grain \in Nat
  BY <1>1, HalfASpacing DEF Float, Grain
<1>3. angle' = Float(exact) /\ Grain' = Grain /\ TwoPi' = TwoPi
  BY DEF Becomes, Grain, Larger, TwoPi
<1>4. CASE Float(exact) = angle
  <2>1. turns' = turns /\ rounded' = rounded /\ angle' = angle
    BY <1>4 DEF Becomes
  <2>2. QED
    BY <1>1, <1>3, <2>1 DEF Off, Becomes
<1>5. CASE Float(exact) # angle
  <2>1. turns' = turns + n /\ rounded' = rounded + 1
    BY <1>5 DEF Becomes
  <2>2. PICK t \in Int : t = turns * TwoPi
    BY <1>1
  <2>3. (turns + n) * TwoPi = t + n * TwoPi
    BY <1>1, <2>2
  <2>4. Off' = Magn((angle + t - input) + (Float(exact) - exact))
    BY <1>1, <1>2, <1>3, <2>1, <2>2, <2>3 DEF Off
  <2>5. Off = Magn(angle + t - input)
    BY <2>2 DEF Off
  <2>6. PICK g \in Nat : g = rounded * Grain
    BY <1>1, <1>2
  <2>7. (rounded + 1) * Grain = g + Grain
    BY <1>1, <1>2, <2>6
  <2>8. 2 * Off' <= g + Grain
    BY <1>1, <1>2, <2>4, <2>5, <2>6 DEF Magn
  <2>9. (2 * Off <= rounded * Grain)'
    BY <1>3, <2>1, <2>7, <2>8
  <2>10. QED
    BY <1>1, <1>2, <1>3, <2>1, <2>9
<1>6. QED
  BY <1>4, <1>5

\* The first loop takes a turn off an angle that has one.
LEMMA SubtractKeeps == WrapInv /\ Subtract => WrapInv'
<1> SUFFICES ASSUME WrapInv, Subtract PROVE WrapInv'
  OBVIOUS
<1>0. UNCHANGED <<format, input>> /\ CallOK /\ RangeInv /\ NearInv /\ 2 * Off <= rounded * Grain
  BY DEF WrapInv, Subtract
<1>1. Larger' = Larger /\ TwoPi' = TwoPi /\ Magn(Larger)' = Magn(Larger)
  BY <1>0 DEF Larger, TwoPi
<1>2. /\ angle \in Int /\ input \in Int /\ TwoPi \in Nat \ {0} /\ Magn(Larger) \in Nat
      /\ -Magn(Larger) <= angle /\ angle <= Magn(Larger)
  BY <1>0, CallFacts DEF CallOK, RangeInv, Larger, Magn
<1>3. CASE angle >= TwoPi
  <2>1. PICK exact \in Int : exact = angle - 1 * TwoPi /\ exact = angle - TwoPi
    BY <1>2
  <2>2. pc = "subtract" /\ pc' = pc /\ Becomes(Float(exact), 1)
    BY <1>3, <2>1 DEF Subtract, TurnOff
  <2>3. exact >= 0 /\ exact <= angle /\ Magn(exact) <= Magn(Larger)
    BY <1>2, <1>3, <2>1 DEF Magn
  <2>4. /\ angle' = Float(exact) /\ angle' \in Int /\ turns' \in Int
        /\ rounded' = rounded \/ rounded' = rounded + 1
        /\ (2 * Off <= rounded * Grain)'
    BY <1>0, <2>1, <2>2, <2>3, OneOperation
  <2>5. 0 <= angle' /\ angle' <= Magn(Larger)
    BY <1>0, <1>2, <2>3, <2>4, RoundsBetween
  <2>6. CallOK'
    BY <1>0, <2>2, <2>4 DEF CallOK
  <2>7. RangeInv'
    BY <1>1, <1>2, <2>2, <2>4, <2>5 DEF RangeInv, IntoHalfTurns
  <2>8. NearInv'
    <3>1. ~(Magn(input) < TwoPi)
      BY <1>0, <1>2, <1>3, <2>2 DEF NearInv, Magn
    <3>2. QED
      BY <1>0, <1>1, <3>1 DEF NearInv
  <2>9. QED
    BY <2>4, <2>6, <2>7, <2>8 DEF WrapInv
<1>4. CASE ~(angle >= TwoPi)
  <2>1. pc = "subtract" /\ pc' = "add" /\ UNCHANGED <<angle, turns, rounded>>
    BY <1>4 DEF Subtract
  <2>2. CallOK' /\ (2 * Off <= rounded * Grain)'
    BY <1>0, <1>1, <2>1 DEF CallOK, Off, Grain
  <2>3. RangeInv'
    <3>1. angle <= TwoPi
      BY <1>2, <1>4
    <3>2. QED
      BY <1>1, <1>2, <2>1, <3>1 DEF RangeInv, IntoHalfTurns
  <2>4. NearInv'
    BY <1>0, <1>1, <2>1 DEF NearInv
  <2>5. QED
    BY <2>2, <2>3, <2>4 DEF WrapInv
<1>5. QED
  BY <1>3, <1>4

\* The second loop adds a turn to a negative angle, and never makes more of it
\* than a turn.
LEMMA AddKeeps == WrapInv /\ Add => WrapInv'
<1> SUFFICES ASSUME WrapInv, Add PROVE WrapInv'
  OBVIOUS
<1>0. UNCHANGED <<format, input>> /\ CallOK /\ RangeInv /\ NearInv /\ 2 * Off <= rounded * Grain
  BY DEF WrapInv, Add
<1>1. Larger' = Larger /\ TwoPi' = TwoPi /\ Magn(Larger)' = Magn(Larger)
  BY <1>0 DEF Larger, TwoPi
<1>2. /\ angle \in Int /\ input \in Int /\ TwoPi \in Nat \ {0} /\ Magn(Larger) \in Nat
      /\ -Magn(Larger) <= angle /\ angle <= Magn(Larger) /\ TwoPi <= Magn(Larger)
      /\ rounded \in Nat
  BY <1>0, CallFacts DEF CallOK, RangeInv, Larger, Magn
<1>3. CASE angle < 0
  <2>1. PICK exact \in Int : exact = angle - (-1) * TwoPi /\ exact = angle + TwoPi
    BY <1>2
  <2>2. pc = "add" /\ pc' = pc /\ Becomes(Float(exact), -1)
    BY <1>3, <2>1 DEF Add, Negative, TurnOn
  <2>3. exact <= TwoPi /\ angle <= exact /\ Magn(exact) <= Magn(Larger)
    BY <1>2, <1>3, <2>1 DEF Magn
  <2>4. /\ angle' = Float(exact) /\ angle' \in Int /\ turns' \in Int
        /\ \/ rounded' = rounded /\ angle' = angle
           \/ rounded' = rounded + 1
        /\ (2 * Off <= rounded * Grain)'
    BY <1>0, <2>1, <2>2, <2>3, OneOperation
  <2>5. -Magn(Larger) <= angle' /\ angle' <= TwoPi
    BY <1>0, <1>2, <2>3, <2>4, RoundsBetween
  <2>6. CallOK'
    BY <1>0, <2>2, <2>4 DEF CallOK
  <2>7. RangeInv'
    BY <1>1, <1>2, <2>2, <2>4, <2>5 DEF RangeInv, IntoHalfTurns
  <2>8. NearInv'
    <3>1. SUFFICES ASSUME Magn(input) < TwoPi PROVE rounded' = 1 /\ angle' >= 0
      BY <1>0, <1>1, <1>2, <2>2 DEF NearInv
    <3>2. rounded = 0 /\ angle = input
      BY <1>0, <1>2, <1>3, <2>2, <3>1 DEF NearInv
    <3>3. exact >= 0
      BY <1>2, <2>1, <3>1, <3>2 DEF Magn
    <3>4. angle' >= 0
      BY <1>0, <1>2, <2>3, <2>4, <3>3, RoundsBetween
    <3>5. QED
      BY <1>3, <2>4, <3>2, <3>4
  <2>9. QED
    BY <2>4, <2>6, <2>7, <2>8 DEF WrapInv
<1>4. CASE ~(angle < 0)
  <2>1. pc = "add" /\ pc' = "fold" /\ UNCHANGED <<angle, turns, rounded>>
    BY <1>4 DEF Add, Negative
  <2>2. CallOK' /\ (2 * Off <= rounded * Grain)'
    BY <1>0, <1>1, <2>1 DEF CallOK, Off, Grain
  <2>3. RangeInv'
    BY <1>0, <1>1, <1>2, <1>4, <2>1 DEF RangeInv, IntoHalfTurns
  <2>4. NearInv'
    BY <1>0, <1>1, <1>2, <2>1 DEF NearInv
  <2>5. QED
    BY <2>2, <2>3, <2>4 DEF WrapInv
<1>5. QED
  BY <1>3, <1>4

\* The `if' moves the second half of a turn to the other side of 0.
LEMMA FoldKeeps == WrapInv /\ Fold => WrapInv'
<1> SUFFICES ASSUME WrapInv, Fold PROVE WrapInv'
  OBVIOUS
<1>0. UNCHANGED <<format, input>> /\ CallOK /\ RangeInv /\ NearInv /\ 2 * Off <= rounded * Grain
  BY DEF WrapInv, Fold
<1>1. /\ Larger' = Larger /\ TwoPi' = TwoPi /\ Magn(Larger)' = Magn(Larger)
      /\ pc = "fold" /\ pc' = "done" /\ format' = format
  BY <1>0 DEF Larger, TwoPi, Fold
<1>2. /\ angle \in Int /\ input \in Int /\ format.pi \in Nat \ {0} /\ TwoPi = 2 * format.pi
      /\ 0 <= angle /\ angle <= TwoPi /\ TwoPi <= Magn(Larger) /\ Magn(Larger) \in Nat
      /\ rounded \in Nat
  BY <1>0, <1>1, CallFacts DEF CallOK, RangeInv, Larger, Magn
<1>3. CASE angle > format.pi
  <2>1. PICK exact \in Int : exact = angle - 1 * TwoPi /\ exact = angle - TwoPi
    BY <1>2
  <2>2. Becomes(Float(exact), 1)
    BY <1>3, <2>1 DEF Fold, Folded
  <2>3. -format.pi <= exact /\ exact <= 0 /\ Magn(exact) <= Magn(Larger)
    BY <1>2, <1>3, <2>1 DEF Magn
  <2>4. /\ angle' = Float(exact) /\ angle' \in Int /\ turns' \in Int
        /\ rounded' = rounded \/ rounded' = rounded + 1
        /\ (2 * Off <= rounded * Grain)'
    BY <1>0, <2>1, <2>2, <2>3, OneOperation
  <2>5. -format.pi <= angle' /\ angle' <= 0
    BY <1>0, <1>2, <2>3, <2>4, RoundsBetween
  <2>6. CallOK'
    BY <1>0, <1>1, <1>2, <2>4 DEF CallOK
  <2>7. RangeInv'
    BY <1>1, <1>2, <2>4, <2>5 DEF RangeInv, IntoHalfTurns
  <2>8. NearInv'
    BY <1>0, <1>1, <1>2, <2>4 DEF NearInv
  <2>9. QED
    BY <2>4, <2>6, <2>7, <2>8 DEF WrapInv
<1>4. CASE ~(angle > format.pi)
  <2>1. UNCHANGED <<angle, turns, rounded>>
    BY <1>4 DEF Fold
  <2>2. CallOK' /\ (2 * Off <= rounded * Grain)'
    BY <1>0, <1>1, <2>1 DEF CallOK, Off, Grain
  <2>3. RangeInv'
    BY <1>0, <1>1, <1>2, <1>4, <2>1 DEF RangeInv, IntoHalfTurns
  <2>4. NearInv'
    BY <1>0, <1>1, <1>2, <2>1 DEF NearInv
  <2>5. QED
    BY <2>2, <2>3, <2>4 DEF WrapInv
<1>5. QED
  BY <1>3, <1>4

\* The state the function is called in.
LEMMA WrapInit == Init => WrapInv
<1> SUFFICES ASSUME Init PROVE WrapInv
  OBVIOUS
<1>1. CallOK /\ pc = "subtract" /\ angle = input /\ turns = 0 /\ rounded = 0
  <2>1. input \in Int
    BY FormatAssumption, PowerOf DEF Init
  <2>2. QED
    BY <2>1 DEF Init, CallOK
<1>2. /\ input \in Int /\ TwoPi \in Nat /\ Larger \in Int /\ Magn(input) <= Magn(Larger)
      /\ InRange(Larger) /\ format.digits \in 1 .. 29
  BY <1>1, CallFacts DEF CallOK, InRange
<1>3. RangeInv /\ NearInv
  BY <1>1, <1>2 DEF RangeInv, NearInv, IntoHalfTurns, Magn
<1>4. 2 * Off <= rounded * Grain
  <2>1. Grain \in Nat
    <3>1. Magn(Larger) <= Magn(Larger)
      BY <1>2 DEF Magn
    <3>2. QED
      BY <1>2, <3>1, HalfASpacing DEF Grain
  <2>2. Off = 0 /\ 0 * Grain = 0
    BY <1>1, <1>2, <2>1 DEF Off, Magn
  <2>3. QED
    BY <1>1, <2>2
<1>5. QED
  BY <1>1, <1>3, <1>4 DEF WrapInv

\* The invariant of a call of normalize_angle.
LEMMA WrapInvariant == Spec => []WrapInv
<1>1. WrapInv /\ [Next]_vars => WrapInv'
  <2>1. WrapInv /\ Next => WrapInv'
    BY SubtractKeeps, AddKeeps, FoldKeeps DEF Next
  <2>2. WrapInv /\ UNCHANGED vars => WrapInv'
    BY DEF WrapInv, CallOK, RangeInv, NearInv, IntoHalfTurns, Off, Grain, Larger, TwoPi, vars
  <2>3. QED
    BY <2>1, <2>2
<1>2. QED
  BY <1>1, WrapInit, PTL DEF Spec

\* Whatever the angle, the result of normalize_angle is in [-pi, pi]: in every
\* binary format, with every operation rounded.
THEOREM ResultIntoHalfTurns == Spec => []IntoHalfTurns
<1>1. WrapInv => IntoHalfTurns
  BY DEF WrapInv, RangeInv
<1>2. QED
  BY <1>1, WrapInvariant, PTL

\* The result points where the angle did, to half a spacing per operation, and
\* for an angle within a turn there are no more than two.
THEOREM ResultKeepsDirection == Spec => []KeepsDirection
<1>1. WrapInv => KeepsDirection
  <2>1. SUFFICES ASSUME WrapInv, pc = "done" PROVE KeepsDirection
    BY DEF KeepsDirection
  <2>2. 2 * Off <= rounded * Grain /\ (Magn(input) < TwoPi => rounded <= 2)
    BY <2>1 DEF WrapInv, NearInv
  <2>3. QED
    BY <2>2 DEF KeepsDirection, Off, Grain, Larger
<1>2. QED
  BY <1>1, WrapInvariant, PTL

-----------------------------------------------------------------------------
(* The end of the loops *)

\* The floats next to a number other than 0 are no further from it than 0.
LEMMA SpacingWithin ==
  ASSUME NEW d \in 1 .. 29, NEW n, InRange(n), n # 0
  PROVE  Spacing(d, n) <= Magn(n)
<1>1. PICK k \in 0 .. 30 - d : HasSpacing(d, n, k)
  BY SomeSpacing
<1>2. n \in Int /\ Magn(n) \in Nat \ {0}
  BY DEF InRange, Magn
<1>3. CASE k = 0
  BY <1>1, <1>2, <1>3, FirstPowers DEF HasSpacing
<1>4. CASE k > 0
  <2>1. k \in 0 .. 30 /\ k + d - 1 \in k .. 30 /\ k + d - 1 \in 0 .. 30
    BY <1>4
  <2>2. Pow[k] <= Pow[k + d - 1] /\ Pow[k] \in Nat /\ Pow[k + d - 1] \in Nat
    BY <2>1, Divides, Powers
  <2>3. QED
    BY <1>1, <1>2, <1>4, <2>2 DEF HasSpacing
<1>5. QED
  BY <1>3, <1>4

\* An operation is off by less than a turn, if the argument is precise to less
\* than two.
LEMMA OffByLessThanATurn ==
  ASSUME CallOK, Spacing(format.digits, input) < 2 * TwoPi,
         NEW exact \in Int, Magn(exact) <= Magn(Larger)
  PROVE  Float(exact) \in Int /\ Magn(Float(exact) - exact) < TwoPi
<1>1. /\ format.digits \in 1 .. 29 /\ InRange(Larger) /\ Larger \in Int
      /\ TwoPi \in Nat \ {0} /\ InRange(TwoPi)
  BY CallFacts DEF InRange
<1>2. InRange(exact)
  <2>1. Pow[30] \in Nat /\ Magn(Larger) < Pow[30]
    BY <1>1, PowerOf DEF InRange, Magn
  <2>2. QED
    BY <1>1, <2>1 DEF InRange, Magn
<1>3. Spacing(format.digits, Larger) < 2 * TwoPi
  <2>1. Spacing(format.digits, TwoPi) <= Magn(TwoPi) /\ Magn(TwoPi) = TwoPi
    BY <1>1, SpacingWithin DEF Magn
  <2>2. Spacing(format.digits, TwoPi) \in Nat
    BY <1>1, HalfASpacing DEF Magn
  <2>3. QED
    BY <1>1, <2>1, <2>2 DEF Larger
<1>4. /\ 2 * Magn(Float(exact) - exact) <= Spacing(format.digits, Larger)
      /\ Float(exact) \in Int /\ Spacing(format.digits, Larger) \in Nat
  BY <1>1, <1>2, HalfASpacing DEF Float
<1>5. QED
  BY <1>1, <1>3, <1>4 DEF Magn

\* What makes the loops end: for an angle precise to less than two turns, every
\* turn taken off leaves less and never too little, and every turn added leaves
\* more and never too much. A turn that rounding loses is lost for ever.
NoTurnIsLost ==
  Spacing(format.digits, input) < 2 * TwoPi =>
    /\ pc = "subtract" /\ angle >= TwoPi => 0 <= TurnOff /\ TurnOff < angle
    /\ pc = "add" /\ Negative => angle < TurnOn /\ TurnOn <= TwoPi

\* No turn of either loop is lost, for an angle precise to less than two turns:
\* the part of the loops' termination that does not rest on fairness.
THEOREM TurnsAreNotLost == Spec => []NoTurnIsLost
<1>1. WrapInv => NoTurnIsLost
  <2> SUFFICES ASSUME WrapInv, Spacing(format.digits, input) < 2 * TwoPi
               PROVE  /\ pc = "subtract" /\ angle >= TwoPi => 0 <= TurnOff /\ TurnOff < angle
                      /\ pc = "add" /\ Negative => angle < TurnOn /\ TurnOn <= TwoPi
    BY DEF NoTurnIsLost
  <2>1. /\ CallOK /\ angle \in Int /\ TwoPi \in Nat \ {0} /\ Larger \in Int
        /\ -Magn(Larger) <= angle /\ angle <= Magn(Larger) /\ TwoPi <= Magn(Larger)
    BY CallFacts DEF WrapInv, CallOK, RangeInv, InRange
  <2>2. ASSUME angle >= TwoPi
        PROVE  0 <= TurnOff /\ TurnOff < angle
    <3>1. PICK exact \in Int : exact = angle - TwoPi
      BY <2>1
    <3>2. 0 <= exact /\ Magn(exact) <= Magn(Larger)
      BY <2>1, <2>2, <3>1 DEF Magn
    <3>3. 0 <= Float(exact)
      BY <2>1, <3>2, RoundsBetween
    <3>4. Float(exact) \in Int /\ Magn(Float(exact) - exact) < TwoPi
      BY <2>1, <3>2, OffByLessThanATurn
    <3>5. Float(exact) < angle
      BY <2>1, <3>1, <3>4 DEF Magn
    <3>6. QED
      BY <3>1, <3>3, <3>5 DEF TurnOff
  <2>3. ASSUME Negative
        PROVE  angle < TurnOn /\ TurnOn <= TwoPi
    <3>1. PICK exact \in Int : exact = angle + TwoPi
      BY <2>1
    <3>2. exact <= TwoPi /\ Magn(exact) <= Magn(Larger)
      BY <2>1, <2>3, <3>1 DEF Negative, Magn
    <3>3. Float(exact) <= TwoPi
      BY <2>1, <3>2, RoundsBetween
    <3>4. Float(exact) \in Int /\ Magn(Float(exact) - exact) < TwoPi
      BY <2>1, <3>2, OffByLessThanATurn
    <3>5. angle < Float(exact)
      BY <2>1, <3>1, <3>4 DEF Magn
    <3>6. QED
      BY <3>1, <3>3, <3>5 DEF TurnOn
  <2>4. QED
    BY <2>2, <2>3
<1>2. QED
  BY <1>1, WrapInvariant, PTL
=============================================================================

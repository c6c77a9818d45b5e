--------------------------- MODULE RationalProofs ---------------------------
(***************************************************************************)
(* The fractions are the rational numbers: one fraction to a number, the   *)
(* laws of an ordered field, and what Euclid's algorithm has to do with    *)
(* it.  And what the proofs about sums of fractions rest on: induction on  *)
(* a set of naturals, and recursive functions on an interval.              *)
(***************************************************************************)
EXTENDS Rational, WellFoundedInduction, TLAPS

LEMMA StrongInduction ==
    ASSUME NEW S, \A n \in Nat : (\A m \in 0..n - 1 : m \in S) => n \in S
    PROVE  \A n \in Nat : n \in S
<1> SUFFICES ASSUME Nat \ S # {} PROVE FALSE
  OBVIOUS
<1>1. PICK n \in Nat \ S : \A m \in Nat \ S : ~(<<m, n>> \in OpToRel(<, Nat))
  BY NatLessThanWellFounded, WFMin
<1>2. \A m \in Nat \ S : ~(m < n)
  BY <1>1 DEF OpToRel
<1> QED BY <1>2

LEMMA SimpleInduction ==
    ASSUME NEW S, 0 \in S, \A n \in Nat : n \in S => n + 1 \in S
    PROVE  \A n \in Nat : n \in S
<1>1. ASSUME NEW n \in Nat, \A m \in 0..n - 1 : m \in S PROVE n \in S
  <2>1. CASE n = 0
    BY <2>1
  <2>2. CASE n # 0
    <3>1. n - 1 \in S /\ n - 1 \in Nat
      BY <1>1, <2>2
    <3> QED BY <3>1
  <2> QED BY <2>1, <2>2
<1> QED BY <1>1, StrongInduction

LEMMA LeastExists ==
    ASSUME NEW S, NEW k \in S, S \subseteq Nat
    PROVE  \E n \in S : \A m \in S : n <= m
<1> DEFINE N == Nat \ S
<1> SUFFICES ASSUME \A n \in S : \E m \in S : ~(n <= m) PROVE FALSE
  OBVIOUS
<1>1. ASSUME NEW n \in Nat, \A m \in 0..n - 1 : m \in N PROVE n \in N
  <2>1. ASSUME n \in S PROVE FALSE
    <3>1. PICK m \in S : ~(n <= m)
      BY <2>1
    <3> QED BY <1>1, <3>1
  <2> QED BY <2>1
<1> HIDE DEF N
<1>2. k \in N
  BY <1>1, StrongInduction
<1> QED BY <1>2 DEF N

-----------------------------------------------------------------------------
(* Euclid's algorithm.  That there is a function like gcd is shown by one: *)
(* the greatest common divisor.                                            *)
Divides(d, n) == \E k \in Nat : n = k * d
Common(a, b) == {d \in Nat : Divides(d, a) /\ Divides(d, b)}
Largest(S) == CHOOSE d \in S : \A e \in S : e <= d
Greatest(a, b) == IF b = 0 THEN a ELSE Largest(Common(a, b))

LEMMA Division ==
    ASSUME NEW a \in Nat, NEW b \in Nat, b # 0
    PROVE  /\ a \div b \in Nat /\ a % b \in Nat /\ a % b < b
           /\ a = (a \div b) * b + (a % b)
OBVIOUS

LEMMA MulMonotone ==
    ASSUME NEW k \in Nat, NEW m \in Nat, NEW d \in Nat, k <= m PROVE k * d <= m * d
OBVIOUS

LEMMA CommonStep ==
    ASSUME NEW a \in Nat, NEW b \in Nat, b # 0
    PROVE  Common(a, b) = Common(b, a % b)
<1> DEFINE q == a \div b
           r == a % b
<1>1. q \in Nat /\ r \in Nat /\ a = q * b + r
  BY Division
<1> HIDE DEF q, r
<1>2. ASSUME NEW d \in Nat, Divides(d, a), Divides(d, b) PROVE Divides(d, r)
  <2>1. PICK k \in Nat : a = k * d
    BY <1>2 DEF Divides
  <2>2. PICK l \in Nat : b = l * d
    BY <1>2 DEF Divides
  <2>3. r = (k - q * l) * d
    <3>1. q * b = (q * l) * d
      BY <1>1, <2>2
    <3>2. q * l \in Nat
      BY <1>1
    <3> QED BY <1>1, <2>1, <3>1, <3>2
  <2>4. k - q * l \in Int
    BY <1>1
  <2>5. CASE d = 0
    <3>1. r = 0 /\ 0 = 0 * d
      BY <2>3, <2>4, <2>5
    <3> QED BY <3>1 DEF Divides
  <2>6. CASE d # 0
    <3>1. ASSUME k - q * l < 0 PROVE FALSE
      <4>1. (q * l - k) - 1 \in Nat
        BY <1>1, <3>1
      <4>2. ((q * l - k) - 1) * d + d = -r
        BY <2>3, <2>4, <4>1, <1>1
      <4>3. ((q * l - k) - 1) * d \in Nat
        BY <4>1
      <4> QED BY <4>2, <4>3, <2>6, <1>1
    <3>2. k - q * l \in Nat
      BY <3>1, <2>4
    <3> QED BY <2>3, <3>2 DEF Divides
  <2> QED BY <2>5, <2>6
<1>3. ASSUME NEW d \in Nat, Divides(d, r), Divides(d, b) PROVE Divides(d, a)
  <2>1. PICK k \in Nat : r = k * d
    BY <1>3 DEF Divides
  <2>2. PICK l \in Nat : b = l * d
    BY <1>3 DEF Divides
  <2>3. a = (q * l + k) * d /\ q * l + k \in Nat
    BY <1>1, <2>1, <2>2
  <2> QED BY <2>3 DEF Divides
<1>4. Common(a, b) = Common(b, r)
  BY <1>2, <1>3 DEF Common
<1> QED BY <1>4 DEF r

LEMMA GreatestStep ==
    ASSUME NEW a \in Nat, NEW b \in Nat, b # 0
    PROVE  Greatest(a, b) = Greatest(b, a % b)
<1>1. CASE a % b # 0
  BY <1>1, CommonStep DEF Greatest
<1>2. CASE a % b = 0
  <2> DEFINE g == Largest(Common(a, b))
  <2>1. b \in Common(a, b)
    <3>1. a = (a \div b) * b /\ b = 1 * b
      BY <1>2, Division
    <3> QED BY <3>1, Division DEF Common, Divides
  <2>2. ASSUME NEW e \in Common(a, b) PROVE e <= b
    <3>1. PICK k \in Nat : b = k * e
      BY <2>2 DEF Common, Divides
    <3>2. e \in Nat /\ k # 0
      BY <2>2, <3>1 DEF Common
    <3>3. e = 1 * e /\ 1 * e <= k * e
      BY <3>2, MulMonotone
    <3> QED BY <3>1, <3>3
  <2>3. g \in Common(a, b) /\ \A e \in Common(a, b) : e <= g
    BY <2>1, <2>2 DEF Largest
  <2>4. g = b
    BY <2>1, <2>2, <2>3 DEF Common
  <2> QED BY <1>2, <2>4 DEF Greatest
<1> QED BY <1>1, <1>2

LEMMA GcdIsDefined ==
    \A a, b \in Nat : gcd[b][a] = IF b = 0 THEN a ELSE gcd[a % b][b]
<1> DEFINE f == [b \in Nat |-> [a \in Nat |-> Greatest(a, b)]]
<1>1. ASSUME NEW b \in Nat, NEW a \in Nat
      PROVE  Greatest(a, b) = IF b = 0 THEN a ELSE f[a % b][b]
  <2>1. CASE b = 0
    BY <2>1 DEF Greatest
  <2>2. CASE b # 0
    BY <2>2, GreatestStep, Division
  <2> QED BY <2>1, <2>2
<1>2. f = [b \in Nat |-> [a \in Nat |-> IF b = 0 THEN a ELSE f[a % b][b]]]
  BY <1>1
<1>3. \E g : g = [b \in Nat |-> [a \in Nat |-> IF b = 0 THEN a ELSE g[a % b][b]]]
  BY <1>2, Zenon
<1>4. gcd = [b \in Nat |-> [a \in Nat |-> IF b = 0 THEN a ELSE gcd[a % b][b]]]
  BY <1>3, Zenon DEF gcd
<1> QED BY <1>4

LEMMA GcdIsCommon ==
    \A b, a \in Nat :
        /\ gcd[b][a] \in Nat
        /\ \E k, l \in Nat : a = k * gcd[b][a] /\ b = l * gcd[b][a]
        /\ \E u, v \in Int : gcd[b][a] = u * a + v * b
<1> DEFINE Good(b, a, g) ==
               /\ g \in Nat
               /\ \E k, l \in Nat : a = k * g /\ b = l * g
               /\ \E u, v \in Int : g = u * a + v * b
           S == {b \in Nat : \A a \in Nat : Good(b, a, gcd[b][a])}
<1>1. ASSUME NEW b \in Nat, \A c \in 0..b - 1 : c \in S, NEW a \in Nat
      PROVE  Good(b, a, gcd[b][a])
  <2>1. CASE b = 0
    <3>1. gcd[b][a] = a
      BY <2>1, GcdIsDefined
    <3>2. a = 1 * a /\ 0 = 0 * a /\ a = 1 * a + 0 * 0
      OBVIOUS
    <3> QED BY <2>1, <3>1, <3>2
  <2>2. CASE b # 0
    <3> DEFINE q == a \div b
               r == a % b
               g == gcd[r][b]
    <3>1. q \in Nat /\ r \in 0..b - 1 /\ a = q * b + r
      BY <2>2, Division
    <3>2. gcd[b][a] = g
      BY <2>2, GcdIsDefined
    <3>3. Good(r, b, g)
      BY <1>1, <3>1
    <3> HIDE DEF q, r, g
    <3>4. PICK k, l \in Nat : b = k * g /\ r = l * g
      BY <3>3
    <3>5. PICK u, v \in Int : g = u * b + v * r
      BY <3>3
    <3>6. a = (q * k + l) * g /\ q * k + l \in Nat
      <4>1. q * b = (q * k) * g /\ q * k \in Nat
        BY <3>1, <3>3, <3>4
      <4> QED BY <4>1, <3>1, <3>3, <3>4
    <3>7. g = v * a + (u - v * q) * b /\ u - v * q \in Int
      <4>1. v * a = v * (q * b) + v * r
        BY <3>1
      <4>2. v * (q * b) = (v * q) * b /\ v * q \in Int
        BY <3>1
      <4>3. (u - v * q) * b = u * b - (v * q) * b
        BY <4>2
      <4> QED BY <4>1, <4>2, <4>3, <3>5, <3>1
    <3> QED BY <3>2, <3>3, <3>4, <3>6, <3>7
  <2> QED BY <2>1, <2>2
<1> HIDE DEF Good
<1>2. \A n \in Nat : n \in S
  <2>1. ASSUME NEW n \in Nat, \A m \in 0..n - 1 : m \in S PROVE n \in S
    BY <1>1, <2>1
  <2> HIDE DEF S
  <2> QED BY <2>1, StrongInduction
<1> QED BY <1>2 DEF Good

LEMMA GcdIsPositive ==
    ASSUME NEW b \in Nat, NEW a \in Nat, b # 0 \/ a # 0
    PROVE  gcd[b][a] \in Nat /\ gcd[b][a] > 0
<1>1. gcd[b][a] \in Nat
  BY GcdIsCommon
<1>2. PICK k, l \in Nat : a = k * gcd[b][a] /\ b = l * gcd[b][a]
  BY GcdIsCommon
<1> QED BY <1>1, <1>2

-----------------------------------------------------------------------------
(* Fractions.                                                              *)
LEMMA FractionType ==
    ASSUME NEW x, IsFraction(x)
    PROVE  x[1] \in Int /\ x[2] \in Nat /\ x[2] > 0 /\ x = <<x[1], x[2]>>
BY DEF IsFraction

LEMMA Bezout ==
    ASSUME NEW x, IsFraction(x) PROVE \E u, v \in Int : u * x[1] + v * x[2] = 1
<1>1. /\ x[1] \in Int /\ x[2] \in Nat /\ Abs(x[1]) \in Nat
      /\ gcd[x[2]][Abs(x[1])] = 1
  BY DEF IsFraction, Abs
<1>2. PICK u, v \in Int : 1 = u * Abs(x[1]) + v * x[2]
  <2>1. PICK u, v \in Int : gcd[x[2]][Abs(x[1])] = u * Abs(x[1]) + v * x[2]
    BY <1>1, GcdIsCommon
  <2> QED BY <1>1, <2>1
<1>3. CASE x[1] >= 0
  BY <1>1, <1>2, <1>3 DEF Abs
<1>4. CASE x[1] < 0
  <2>1. u * Abs(x[1]) = (-u) * x[1] /\ -u \in Int
    BY <1>1, <1>4 DEF Abs
  <2> QED BY <1>2, <2>1
<1> QED BY <1>1, <1>3, <1>4

LEMMA FactorOfOne ==
    ASSUME NEW g \in Nat, NEW k \in Int, k * g = 1 PROVE g = 1
<1>1. g # 0
  OBVIOUS
<1>2. k > 0
  <2>1. ASSUME k <= 0 PROVE FALSE
    <3>1. (-k) * g >= 0
      BY <2>1
    <3> QED BY <3>1
  <2> QED BY <2>1
<1>3. (k - 1) * g >= 0
  BY <1>2
<1>4. (k - 1) * g = 1 - g
  OBVIOUS
<1> QED BY <1>1, <1>3, <1>4

LEMMA CoprimeIsFraction ==
    ASSUME NEW n \in Int, NEW d \in Nat, d > 0, NEW u \in Int, NEW v \in Int,
           u * n + v * d = 1
    PROVE  IsFraction(<<n, d>>)
<1> DEFINE g == gcd[d][Abs(n)]
<1>0. Abs(n) \in Nat
  BY DEF Abs
<1>1. PICK k, l \in Nat : Abs(n) = k * g /\ d = l * g
  BY <1>0, GcdIsCommon
<1>2. g \in Nat
  BY <1>0, GcdIsCommon
<1> HIDE DEF g
<1>3. \E j \in Int : n = j * g
  <2>1. CASE n >= 0
    BY <1>1, <2>1 DEF Abs
  <2>2. CASE n < 0
    <3>1. n = (-k) * g /\ -k \in Int
      BY <1>1, <1>2, <2>2 DEF Abs
    <3> QED BY <3>1
  <2> QED BY <2>1, <2>2
<1>4. PICK j \in Int : n = j * g
  BY <1>3
<1>5. (u * j + v * l) * g = 1 /\ u * j + v * l \in Int
  <2>1. u * n = (u * j) * g /\ v * d = (v * l) * g
    BY <1>1, <1>2, <1>4
  <2> QED BY <2>1, <1>2
<1>6. g = 1
  BY <1>2, <1>5, FactorOfOne
<1> QED BY <1>6 DEF IsFraction, g

LEMMA Cancel ==
    ASSUME NEW a \in Int, NEW b \in Int, NEW k \in Int, k # 0, a * k = b * k
    PROVE  a = b
<1>1. (a - b) * k = 0
  OBVIOUS
<1>2. a - b = 0
  BY <1>1
<1> QED BY <1>2

(* x is the number n / d.                                                  *)
Is(x, n, d) ==
    IsFraction(x) /\ n \in Int /\ d \in Nat /\ d > 0 /\ x[1] * d = n * x[2]

LEMMA IsItself == ASSUME NEW x, IsFraction(x) PROVE Is(x, x[1], x[2])
BY FractionType DEF Is

LEMMA IsScaled ==
    ASSUME NEW x, NEW n, NEW d, Is(x, n, d), NEW k \in Nat, k > 0
    PROVE  Is(x, n * k, d * k)
<1>1. x[1] \in Int /\ x[2] \in Int /\ n \in Int /\ d \in Nat /\ x[1] * d = n * x[2]
  BY FractionType DEF Is
<1>2. x[1] * (d * k) = (x[1] * d) * k /\ (n * k) * x[2] = (n * x[2]) * k
  BY <1>1
<1>3. d * k \in Nat /\ d * k > 0 /\ n * k \in Int
  BY <1>1 DEF Is
<1> QED BY <1>1, <1>2, <1>3 DEF Is

(* There is one fraction to a number.                                      *)
LEMMA DividesDenominator ==
    ASSUME NEW x, NEW y, IsFraction(x), IsFraction(y), x[1] * y[2] = y[1] * x[2]
    PROVE  \E k \in Int : x[2] = k * y[2]
<1>1. /\ x[1] \in Int /\ x[2] \in Int /\ y[1] \in Int /\ y[2] \in Int
  BY FractionType
<1>2. PICK u, v \in Int : u * y[1] + v * y[2] = 1
  BY Bezout
<1>3. x[2] = (u * y[1]) * x[2] + (v * y[2]) * x[2]
  <2>1. (u * y[1] + v * y[2]) * x[2] = 1 * x[2]
    BY <1>2
  <2> QED BY <1>1, <2>1
<1>4. (u * y[1]) * x[2] = u * (x[1] * y[2])
  BY <1>1
<1>5. x[2] = (u * x[1] + v * x[2]) * y[2]
  BY <1>1, <1>3, <1>4
<1> QED BY <1>1, <1>5

LEMMA SameFraction ==
    ASSUME NEW x, NEW y, IsFraction(x), IsFraction(y), x[1] * y[2] = y[1] * x[2]
    PROVE  x = y
<1>1. /\ x[1] \in Int /\ x[2] \in Nat /\ y[1] \in Int /\ y[2] \in Nat
      /\ x[2] > 0 /\ y[2] > 0 /\ x = <<x[1], x[2]>> /\ y = <<y[1], y[2]>>
  BY FractionType
<1>2. PICK k \in Int : x[2] = k * y[2]
  BY DividesDenominator
<1>3. PICK l \in Int : y[2] = l * x[2]
  BY DividesDenominator
<1>4. ASSUME NEW a \in Nat, NEW b \in Nat, a > 0, b > 0, NEW j \in Int, a = j * b
      PROVE  b <= a
  <2>1. j > 0
    <3>1. ASSUME j <= 0 PROVE FALSE
      <4>1. (-j) * b >= 0
        BY <1>4, <3>1
      <4> QED BY <4>1, <1>4
    <3> QED BY <3>1
  <2>2. (j - 1) * b >= 0 /\ (j - 1) * b = a - b
    BY <1>4, <2>1
  <2> QED BY <2>2
<1>5. x[2] = y[2]
  <2>1. y[2] <= x[2]
    BY <1>1, <1>2, <1>4
  <2>2. x[2] <= y[2]
    BY <1>1, <1>3, <1>4
  <2> QED BY <1>1, <2>1, <2>2
<1>6. x[1] = y[1]
  BY <1>1, <1>5, Cancel
<1> QED BY <1>1, <1>5, <1>6

LEMMA IsUnique ==
    ASSUME NEW x, NEW y, NEW n, NEW d, Is(x, n, d), Is(y, n, d)
    PROVE  x = y
<1>1. /\ x[1] \in Int /\ x[2] \in Int /\ y[1] \in Int /\ y[2] \in Int
      /\ n \in Int /\ d \in Int /\ d # 0 /\ IsFraction(x) /\ IsFraction(y)
      /\ x[1] * d = n * x[2] /\ y[1] * d = n * y[2]
  BY FractionType DEF Is
<1>2. (x[1] * y[2]) * d = (y[1] * x[2]) * d
  <2>1. (x[1] * y[2]) * d = (n * x[2]) * y[2]
    BY <1>1
  <2>2. (y[1] * x[2]) * d = (n * y[2]) * x[2]
    BY <1>1
  <2> QED BY <1>1, <2>1, <2>2
<1>3. x[1] * y[2] = y[1] * x[2]
  <2>1. x[1] * y[2] \in Int /\ y[1] * x[2] \in Int
    BY <1>1
  <2> QED BY <1>1, <1>2, <2>1, Cancel
<1> QED BY <1>1, <1>3, SameFraction

-----------------------------------------------------------------------------
(* What the operators make of numbers.                                     *)
LEMMA PositiveFracIs ==
    ASSUME NEW n \in Int, NEW d \in Nat, d > 0
    PROVE  LET g == gcd[d][Abs(n)] IN Is(<<n \div g, d \div g>>, n, d)
<1> DEFINE g == gcd[d][Abs(n)]
<1>0. Abs(n) \in Nat
  BY DEF Abs
<1>1. g \in Nat /\ g > 0
  BY <1>0, GcdIsPositive
<1>2. PICK k, l \in Nat : Abs(n) = k * g /\ d = l * g
  BY <1>0, GcdIsCommon
<1>3. PICK u, v \in Int : g = u * Abs(n) + v * d
  BY <1>0, GcdIsCommon
<1> HIDE DEF g
<1>4. PICK j, w \in Int : n = j * g /\ w * n = u * Abs(n)
  <2>1. CASE n >= 0
    <3>1. n = k * g /\ u * n = u * Abs(n)
      BY <1>2, <2>1 DEF Abs
    <3> QED BY <3>1
  <2>2. CASE n < 0
    <3>1. n = (-k) * g /\ -k \in Int /\ (-u) * n = u * Abs(n) /\ -u \in Int
      BY <1>1, <1>2, <2>2 DEF Abs
    <3> QED BY <3>1
  <2> QED BY <2>1, <2>2
<1>5. n \div g = j /\ d \div g = l
  BY <1>1, <1>2, <1>4
<1>6. w * j + v * l = 1
  <2>1. (w * j + v * l) * g = 1 * g
    <3>1. w * n = (w * j) * g /\ v * d = (v * l) * g
      BY <1>1, <1>2, <1>4
    <3> QED BY <1>1, <1>3, <1>4, <3>1
  <2>2. w * j + v * l \in Int
    OBVIOUS
  <2> QED BY <1>1, <2>1, <2>2, Cancel
<1>7. l > 0
  BY <1>1, <1>2
<1>8. IsFraction(<<j, l>>)
  BY <1>6, <1>7, CoprimeIsFraction
<1>9. j * d = n * l
  <2>1. j * d = (j * l) * g /\ n * l = (j * l) * g
    BY <1>1, <1>2, <1>4
  <2> QED BY <2>1
<1> QED BY <1>5, <1>8, <1>9 DEF Is, g

LEMMA FracIs ==
    ASSUME NEW n \in Int, NEW d \in Int, d # 0
    PROVE  /\ d > 0 => Is(Frac(n, d), n, d)
           /\ d < 0 => Is(Frac(n, d), -n, -d)
<1>1. CASE d > 0
  <2>1. Abs(d) = d /\ d \in Nat
    BY <1>1 DEF Abs
  <2>2. LET g == gcd[d][Abs(n)] IN Is(<<n \div g, d \div g>>, n, d)
    BY <1>1, <2>1, PositiveFracIs
  <2>3. Frac(n, d) = LET g == gcd[d][Abs(n)] IN <<n \div g, d \div g>>
    BY <1>1, <2>1 DEF Frac
  <2> QED BY <1>1, <2>2, <2>3
<1>2. CASE d < 0
  <2>1. Abs(d) = -d /\ -d \in Nat /\ -n \in Int /\ Abs(n) = Abs(-n) /\ -d > 0
    BY <1>2 DEF Abs
  <2>2. LET g == gcd[-d][Abs(-n)] IN Is(<<(-n) \div g, (-d) \div g>>, -n, -d)
    BY <2>1, PositiveFracIs
  <2> QED BY <1>2, <2>1, <2>2 DEF Frac
<1> QED BY <1>1, <1>2

LEMMA IsAlso ==
    ASSUME NEW x, NEW n, NEW d, Is(x, n, d), NEW m \in Int, NEW e \in Nat, e > 0,
           n * e = m * d
    PROVE  Is(x, m, e)
<1>1. /\ x[1] \in Int /\ x[2] \in Int /\ n \in Int /\ d \in Int /\ d # 0
      /\ x[1] * d = n * x[2] /\ IsFraction(x)
  BY FractionType DEF Is
<1>2. (x[1] * e) * d = (m * x[2]) * d
  <2>1. (x[1] * e) * d = (n * x[2]) * e
    BY <1>1
  <2>2. (m * x[2]) * d = (n * e) * x[2]
    <3>1. (m * x[2]) * d = (m * d) * x[2]
      BY <1>1
    <3> QED BY <3>1
  <2> QED BY <1>1, <2>1, <2>2
<1>3. x[1] * e = m * x[2]
  <2>1. x[1] * e \in Int /\ m * x[2] \in Int
    BY <1>1
  <2> QED BY <1>1, <1>2, <2>1, Cancel
<1> QED BY <1>1, <1>3 DEF Is

LEMMA IsMultiple ==
    ASSUME NEW x, NEW n, NEW d, Is(x, n, d)
    PROVE  \E h \in Int : n = x[1] * h /\ d = x[2] * h
<1>1. /\ x[1] \in Int /\ x[2] \in Int /\ n \in Int /\ d \in Int
      /\ x[1] * d = n * x[2] /\ IsFraction(x)
  BY FractionType DEF Is
<1>2. PICK u, v \in Int : u * x[1] + v * x[2] = 1
  BY <1>1, Bezout
<1>3. n = x[1] * (u * n + v * d)
  <2>1. n * (u * x[1] + v * x[2]) = n * 1
    BY <1>2
  <2>2. n * (v * x[2]) = v * (x[1] * d)
    BY <1>1
  <2> QED BY <1>1, <2>1, <2>2
<1>4. d = x[2] * (u * n + v * d)
  <2>1. d * (u * x[1] + v * x[2]) = d * 1
    BY <1>2
  <2>2. d * (u * x[1]) = u * (n * x[2])
    BY <1>1
  <2> QED BY <1>1, <2>1, <2>2
<1> QED BY <1>1, <1>3, <1>4

LEMMA IsSum ==
    ASSUME NEW x, NEW y, NEW n, NEW m, NEW d, Is(x, n, d), Is(y, m, d)
    PROVE  Is(x \oplus y, n + m, d)
<1>1. /\ x[1] \in Int /\ x[2] \in Nat /\ y[1] \in Int /\ y[2] \in Nat /\ x[2] > 0 /\ y[2] > 0
      /\ n \in Int /\ m \in Int /\ d \in Nat /\ d > 0 /\ IsFraction(x) /\ IsFraction(y)
      /\ x[1] * d = n * x[2] /\ y[1] * d = m * y[2]
  BY FractionType DEF Is
<1> DEFINE g == gcd[y[2]][x[2]]
<1>2. g \in Nat /\ g > 0
  BY <1>1, GcdIsPositive
<1>3. PICK k, l \in Nat : x[2] = k * g /\ y[2] = l * g
  BY <1>1, GcdIsCommon
<1>4. x \oplus y = Frac(x[1] * (y[2] \div g) + y[1] * (x[2] \div g), (x[2] \div g) * y[2])
  BY DEF \oplus
<1> HIDE DEF g
<1>5. x[2] \div g = k /\ y[2] \div g = l
  BY <1>2, <1>3
<1> DEFINE p == x[1] * l + y[1] * k
           q == k * y[2]
<1>6. p \in Int /\ q \in Nat /\ q > 0 /\ k > 0
  BY <1>1, <1>2, <1>3
<1>7. Is(x \oplus y, p, q)
  <2>1. x \oplus y = Frac(p, q)
    BY <1>4, <1>5
  <2> HIDE DEF p, q
  <2> QED BY <1>6, <2>1, FracIs
<1>8. p * d = (n + m) * q
  <2>1. (p * d) * g = ((n + m) * q) * g
    <3>1. (p * d) * g = (x[1] * d) * y[2] + (y[1] * d) * x[2]
      <4>1. (p * d) * g = (x[1] * d) * (l * g) + (y[1] * d) * (k * g)
        BY <1>1, <1>2
      <4> QED BY <4>1, <1>3
    <3>2. ((n + m) * q) * g = (n + m) * ((k * g) * y[2])
      BY <1>1, <1>2
    <3>3. (n * x[2]) * y[2] + (m * y[2]) * x[2] = (n + m) * (x[2] * y[2])
      BY <1>1
    <3> HIDE DEF p, q
    <3> QED BY <1>1, <1>3, <3>1, <3>2, <3>3
  <2>2. p * d \in Int /\ (n + m) * q \in Int /\ g \in Int /\ g # 0
    BY <1>1, <1>2, <1>6
  <2> HIDE DEF p, q
  <2> QED BY <2>1, <2>2, Cancel
<1> HIDE DEF p, q
<1>9. n + m \in Int
  BY <1>1
<1> QED BY <1>1, <1>7, <1>8, <1>9, IsAlso

Coprime(a, b) == \E u, v \in Int : u * a + v * b = 1

LEMMA CoprimeFactors ==
    ASSUME NEW a \in Int, NEW b \in Int, NEW h \in Int, NEW k \in Int, Coprime(a * h, b * k)
    PROVE  Coprime(a, b)
<1>1. PICK u, v \in Int : u * (a * h) + v * (b * k) = 1
  BY DEF Coprime
<1>2. (u * h) * a + (v * k) * b = 1 /\ u * h \in Int /\ v * k \in Int
  BY <1>1
<1> QED BY <1>2 DEF Coprime

LEMMA CoprimeProduct ==
    ASSUME NEW a \in Int, NEW b \in Int, NEW c \in Int, Coprime(a, b), Coprime(a, c)
    PROVE  Coprime(a, b * c) /\ Coprime(b * c, a)
<1>1. PICK u, v \in Int : u * a + v * b = 1
  BY DEF Coprime
<1>2. PICK w, z \in Int : w * a + z * c = 1
  BY DEF Coprime
<1> DEFINE p == (u * w) * a + (u * z) * c + (v * w) * b
           q == v * z
<1>3. p * a + q * (b * c) = (u * a + v * b) * (w * a + z * c)
  OBVIOUS
<1>4. p \in Int /\ q \in Int
  OBVIOUS
<1> HIDE DEF p, q
<1>5. p * a + q * (b * c) = 1 /\ q * (b * c) + p * a = 1
  BY <1>1, <1>2, <1>3, <1>4
<1> QED BY <1>4, <1>5 DEF Coprime

LEMMA CoprimeSwap == ASSUME NEW a \in Int, NEW b \in Int, Coprime(a, b) PROVE Coprime(b, a)
<1>1. PICK u, v \in Int : u * a + v * b = 1
  BY DEF Coprime
<1>2. v * b + u * a = 1
  BY <1>1
<1> QED BY <1>2 DEF Coprime

LEMMA IsProduct ==
    ASSUME NEW x, NEW y, NEW n, NEW m, NEW d, NEW e, Is(x, n, d), Is(y, m, e)
    PROVE  Is(x \otimes y, n * m, d * e)
<1>1. /\ x[1] \in Int /\ x[2] \in Nat /\ y[1] \in Int /\ y[2] \in Nat /\ x[2] > 0 /\ y[2] > 0
      /\ n \in Int /\ m \in Int /\ d \in Nat /\ d > 0 /\ e \in Nat /\ e > 0
      /\ IsFraction(x) /\ IsFraction(y)
      /\ x[1] * d = n * x[2] /\ y[1] * e = m * y[2]
  BY FractionType DEF Is
<1> DEFINE a == Frac(x[1], y[2])
           b == Frac(y[1], x[2])
<1>2. Is(a, x[1], y[2]) /\ Is(b, y[1], x[2])
  BY <1>1, FracIs
<1>3. x \otimes y = <<a[1] * b[1], a[2] * b[2]>>
  BY DEF \otimes
<1> HIDE DEF a, b
<1>4. /\ a[1] \in Int /\ a[2] \in Nat /\ a[2] > 0 /\ b[1] \in Int /\ b[2] \in Nat /\ b[2] > 0
      /\ IsFraction(a) /\ IsFraction(b)
  BY <1>2, FractionType DEF Is
<1>5. PICK h \in Int : x[1] = a[1] * h /\ y[2] = a[2] * h
  BY <1>2, IsMultiple
<1>6. PICK k \in Int : y[1] = b[1] * k /\ x[2] = b[2] * k
  BY <1>2, IsMultiple
<1>7. /\ Coprime(a[1], a[2]) /\ Coprime(b[1], b[2])
      /\ Coprime(x[1], x[2]) /\ Coprime(y[1], y[2])
  BY <1>1, <1>4, Bezout DEF Coprime
<1>8. Coprime(a[1], b[2]) /\ Coprime(b[1], a[2])
  BY <1>4, <1>5, <1>6, <1>7, CoprimeFactors
<1>9. Coprime(a[1] * b[1], a[2] * b[2])
  <2>1. a[2] * b[2] \in Int
    BY <1>4
  <2>2. a[2] \in Int /\ b[2] \in Int
    BY <1>4
  <2>3. Coprime(a[2] * b[2], a[1])
    BY <1>4, <1>7, <1>8, <2>2, CoprimeProduct
  <2>4. Coprime(a[2] * b[2], b[1])
    BY <1>4, <1>7, <1>8, <2>2, CoprimeProduct
  <2>5. Coprime(a[2] * b[2], a[1] * b[1])
    BY <1>4, <2>1, <2>3, <2>4, CoprimeProduct
  <2> QED BY <1>4, <2>1, <2>5, CoprimeSwap
<1>10. IsFraction(x \otimes y)
  <2>1. a[2] * b[2] \in Nat /\ a[2] * b[2] > 0 /\ a[1] * b[1] \in Int
    BY <1>4
  <2> QED BY <1>3, <1>9, <2>1, CoprimeIsFraction DEF Coprime
<1>11. Is(x \otimes y, x[1] * y[1], x[2] * y[2])
  <2>1. (a[1] * b[1]) * (x[2] * y[2]) = (x[1] * y[1]) * (a[2] * b[2])
    <3>1. (a[1] * b[1]) * ((b[2] * k) * (a[2] * h)) = ((a[1] * h) * (b[1] * k)) * (a[2] * b[2])
      BY <1>4
    <3> QED BY <1>5, <1>6, <3>1
  <2>2. x[2] * y[2] \in Nat /\ x[2] * y[2] > 0 /\ x[1] * y[1] \in Int
    BY <1>1
  <2> QED BY <1>3, <1>10, <2>1, <2>2 DEF Is
<1>12. (x[1] * y[1]) * (d * e) = (n * m) * (x[2] * y[2])
  <2>1. (x[1] * y[1]) * (d * e) = (x[1] * d) * (y[1] * e)
    BY <1>1
  <2>2. (n * x[2]) * (m * y[2]) = (n * m) * (x[2] * y[2])
    BY <1>1
  <2> QED BY <1>1, <2>1, <2>2
<1>13. d * e \in Nat /\ d * e > 0 /\ n * m \in Int
  BY <1>1
<1> QED BY <1>11, <1>12, <1>13, IsAlso

LEMMA IsNegated ==
    ASSUME NEW x, NEW n, NEW d, Is(x, n, d) PROVE Is(<<-x[1], x[2]>>, -n, d)
<1>1. /\ x[1] \in Int /\ x[2] \in Nat /\ x[2] > 0 /\ n \in Int /\ d \in Nat /\ d > 0
      /\ x[1] * d = n * x[2]
  BY FractionType DEF Is
<1>2. IsFraction(<<-x[1], x[2]>>)
  <2>1. Abs(-x[1]) = Abs(x[1])
    BY <1>1 DEF Abs
  <2> QED BY <1>1, <2>1 DEF Is, IsFraction
<1>3. (-x[1]) * d = (-n) * x[2]
  BY <1>1
<1> QED BY <1>1, <1>2, <1>3 DEF Is

LEMMA IsDifference ==
    ASSUME NEW x, NEW y, NEW n, NEW m, NEW d, Is(x, n, d), Is(y, m, d)
    PROVE  Is(x \ominus y, n - m, d)
<1>1. Is(x \oplus <<-y[1], y[2]>>, n + (-m), d)
  BY IsNegated, IsSum
<1>2. n + (-m) = n - m
  BY DEF Is
<1> QED BY <1>1, <1>2 DEF \ominus

LEMMA IsQuotient ==
    ASSUME NEW x, NEW y, NEW n, NEW m, NEW d, Is(x, n, d), Is(y, m, d), m > 0
    PROVE  Is(x \oslash y, n, m)
<1>1. /\ y[1] \in Int /\ y[2] \in Nat /\ y[2] > 0 /\ y[1] * d = m * y[2]
      /\ n \in Int /\ m \in Int /\ m > 0 /\ d \in Nat /\ d > 0
  BY FractionType DEF Is
<1>2. y[1] > 0
  <2>1. m * y[2] > 0
    BY <1>1
  <2>2. ASSUME y[1] <= 0 PROVE FALSE
    <3>1. (-y[1]) * d >= 0
      BY <1>1, <2>2
    <3> QED BY <1>1, <2>1, <3>1
  <2> QED BY <1>1, <2>2
<1>3. Is(Frac(y[2], y[1]), d, m)
  <2>1. Is(Frac(y[2], y[1]), y[2], y[1])
    BY <1>1, <1>2, FracIs
  <2>2. y[2] * m = d * y[1]
    BY <1>1
  <2> QED BY <1>1, <2>1, <2>2, IsAlso
<1>4. Is(x \oslash y, n * d, d * m)
  BY <1>3, IsProduct DEF \oslash
<1>5. (n * d) * m = n * (d * m)
  BY <1>1
<1> QED BY <1>1, <1>4, <1>5, IsAlso

LEMMA IsSigned ==
    ASSUME NEW x, NEW n, NEW d, Is(x, n, d)
    PROVE  (x[1] <= 0 <=> n <= 0) /\ (x[1] < 0 <=> n < 0)
<1>1. /\ x[1] \in Int /\ x[2] \in Nat /\ x[2] > 0 /\ n \in Int /\ d \in Nat /\ d > 0
      /\ x[1] * d = n * x[2]
  BY FractionType DEF Is
<1>2. \A a \in Int, b \in Nat : b > 0 => (a * b <= 0 <=> a <= 0) /\ (a * b < 0 <=> a < 0)
  <2> SUFFICES ASSUME NEW a \in Int, NEW b \in Nat, b > 0
               PROVE  (a * b <= 0 <=> a <= 0) /\ (a * b < 0 <=> a < 0)
    OBVIOUS
  <2>1. CASE a > 0
    <3>1. a * b > 0
      BY <2>1
    <3> QED BY <2>1, <3>1
  <2>2. CASE a = 0
    BY <2>2
  <2>3. CASE a < 0
    <3>1. (-a) * b > 0 /\ (-a) * b = -(a * b)
      BY <2>3
    <3> QED BY <2>3, <3>1
  <2> QED BY <2>1, <2>2, <2>3
<1>3. /\ x[1] * d <= 0 <=> x[1] <= 0
      /\ x[1] * d < 0 <=> x[1] < 0
      /\ n * x[2] <= 0 <=> n <= 0
      /\ n * x[2] < 0 <=> n < 0
  BY <1>1, <1>2
<1> QED BY <1>1, <1>3

LEMMA IsOrdered ==
    ASSUME NEW x, NEW y, NEW n, NEW m, NEW d, Is(x, n, d), Is(y, m, d)
    PROVE  (x \preceq y <=> n <= m) /\ (x \prec y <=> n < m)
<1>1. Is(x \ominus y, n - m, d)
  BY IsDifference
<1>2. n \in Int /\ m \in Int
  BY DEF Is
<1> QED BY <1>1, <1>2, IsSigned DEF \preceq, \prec

LEMMA WholeIs ==
    ASSUME NEW k \in Int, NEW d \in Nat, d > 0
    PROVE  Is(Whole(k), k * d, d)
<1>1. IsFraction(Whole(k))
  <2>1. IsFraction(<<k, 1>>)
    <3>1. 0 * k + 1 * 1 = 1
      OBVIOUS
    <3> QED BY <3>1, CoprimeIsFraction
  <2> QED BY <2>1 DEF Whole
<1> QED BY <1>1 DEF Is, Whole

LEMMA CommonOfTwo ==
    ASSUME NEW x, NEW y, IsFraction(x), IsFraction(y)
    PROVE  \E n, m \in Int, d \in Nat : d > 0 /\ Is(x, n, d) /\ Is(y, m, d)
<1>1. x[1] \in Int /\ x[2] \in Nat /\ x[2] > 0 /\ y[1] \in Int /\ y[2] \in Nat /\ y[2] > 0
  BY FractionType
<1>2. Is(x, x[1] * y[2], x[2] * y[2])
  BY <1>1, IsItself, IsScaled
<1>3. Is(y, y[1] * x[2], y[2] * x[2])
  BY <1>1, IsItself, IsScaled
<1>4. y[2] * x[2] = x[2] * y[2]
  BY <1>1
<1>5. x[1] * y[2] \in Int /\ y[1] * x[2] \in Int /\ x[2] * y[2] \in Nat /\ x[2] * y[2] > 0
  BY <1>1
<1> QED BY <1>2, <1>3, <1>4, <1>5

LEMMA CommonOfThree ==
    ASSUME NEW x, NEW y, NEW z, IsFraction(x), IsFraction(y), IsFraction(z)
    PROVE  \E n, m, l \in Int, d \in Nat : d > 0 /\ Is(x, n, d) /\ Is(y, m, d) /\ Is(z, l, d)
<1>1. PICK n, m \in Int, d \in Nat : d > 0 /\ Is(x, n, d) /\ Is(y, m, d)
  BY CommonOfTwo
<1>2. z[1] \in Int /\ z[2] \in Nat /\ z[2] > 0
  BY FractionType
<1>3. Is(x, n * z[2], d * z[2]) /\ Is(y, m * z[2], d * z[2])
  BY <1>1, <1>2, IsScaled
<1>4. Is(z, z[1] * d, z[2] * d) /\ z[2] * d = d * z[2]
  <2>1. Is(z, z[1], z[2])
    BY IsItself
  <2>2. Is(z, z[1] * d, z[2] * d)
    BY <1>1, <2>1, IsScaled
  <2> QED BY <1>2, <2>2
<1>5. /\ n * z[2] \in Int /\ m * z[2] \in Int /\ z[1] * d \in Int
      /\ d * z[2] \in Nat /\ d * z[2] > 0
  BY <1>1, <1>2
<1> QED BY <1>3, <1>4, <1>5

LEMMA CommonOfFour ==
    ASSUME NEW x, NEW y, NEW z, NEW w,
           IsFraction(x), IsFraction(y), IsFraction(z), IsFraction(w)
    PROVE  \E n, m, l, k \in Int, d \in Nat :
               d > 0 /\ Is(x, n, d) /\ Is(y, m, d) /\ Is(z, l, d) /\ Is(w, k, d)
<1>1. PICK n, m, l \in Int, d \in Nat : d > 0 /\ Is(x, n, d) /\ Is(y, m, d) /\ Is(z, l, d)
  BY CommonOfThree
<1>2. w[1] \in Int /\ w[2] \in Nat /\ w[2] > 0
  BY FractionType
<1>3. Is(x, n * w[2], d * w[2]) /\ Is(y, m * w[2], d * w[2]) /\ Is(z, l * w[2], d * w[2])
  BY <1>1, <1>2, IsScaled
<1>4. Is(w, w[1] * d, w[2] * d) /\ w[2] * d = d * w[2]
  <2>1. Is(w, w[1], w[2])
    BY IsItself
  <2>2. Is(w, w[1] * d, w[2] * d)
    BY <1>1, <2>1, IsScaled
  <2> QED BY <1>2, <2>2
<1>5. /\ n * w[2] \in Int /\ m * w[2] \in Int /\ l * w[2] \in Int /\ w[1] * d \in Int
      /\ d * w[2] \in Nat /\ d * w[2] > 0
  BY <1>1, <1>2
<1> QED BY <1>3, <1>4, <1>5

-----------------------------------------------------------------------------
(* The laws of an ordered field.                                           *)
LEMMA SumIsFraction ==
    ASSUME NEW x, NEW y, IsFraction(x), IsFraction(y)
    PROVE  IsFraction(x \oplus y) /\ IsFraction(x \ominus y) /\ IsFraction(x \otimes y)
<1>1. PICK n, m \in Int, d \in Nat : d > 0 /\ Is(x, n, d) /\ Is(y, m, d)
  BY CommonOfTwo
<1>2. Is(x \oplus y, n + m, d) /\ Is(x \ominus y, n - m, d) /\ Is(x \otimes y, n * m, d * d)
  BY <1>1, IsSum, IsDifference, IsProduct
<1> QED BY <1>2 DEF Is

LEMMA WholeIsFraction == ASSUME NEW k \in Int PROVE IsFraction(Whole(k))
BY WholeIs DEF Is

LEMMA ZeroIs == ASSUME NEW d \in Nat, d > 0 PROVE Is(Zero, 0, d) /\ Is(One, d, d)
<1>1. Is(Whole(0), 0 * d, d) /\ Is(Whole(1), 1 * d, d)
  BY WholeIs
<1> QED BY <1>1 DEF Zero, One

(* Every expression of numbers.                                            *)
Pos(x) == IsFraction(x) /\ Zero \prec x
NonNeg(x) == IsFraction(x) /\ Zero \preceq x

LEMMA SignIs ==
    ASSUME NEW x, NEW n, NEW d, Is(x, n, d)
    PROVE  (Pos(x) <=> n > 0) /\ (NonNeg(x) <=> n >= 0)
<1>1. Is(Zero, 0, d) /\ n \in Int /\ IsFraction(x)
  BY ZeroIs DEF Is
<1> QED BY <1>1, IsOrdered DEF Pos, NonNeg

LEMMA OrderLaws ==
    ASSUME NEW x, NEW y, NEW z, IsFraction(x), IsFraction(y), IsFraction(z)
    PROVE  /\ x \preceq x
           /\ x \prec y <=> ~(y \preceq x)
           /\ x \prec y => x \preceq y
           /\ x \preceq y /\ y \preceq x => x = y
           /\ x \preceq y /\ y \preceq z => x \preceq z
           /\ x \preceq y /\ y \prec z => x \prec z
           /\ x \prec y /\ y \preceq z => x \prec z
<1>1. PICK n, m, l \in Int, d \in Nat : d > 0 /\ Is(x, n, d) /\ Is(y, m, d) /\ Is(z, l, d)
  BY CommonOfThree
<1>2. /\ x \preceq x <=> n <= n
      /\ x \preceq y <=> n <= m
      /\ y \preceq x <=> m <= n
      /\ y \preceq z <=> m <= l
      /\ x \preceq z <=> n <= l
      /\ x \prec y <=> n < m
      /\ y \prec z <=> m < l
      /\ x \prec z <=> n < l
  BY <1>1, IsOrdered
<1>3. n = m => x = y
  BY <1>1, IsUnique
<1> QED BY <1>2, <1>3

LEMMA PosIsNonNeg == ASSUME NEW x, Pos(x) PROVE NonNeg(x) /\ IsFraction(x)
<1>1. IsFraction(Zero)
  BY WholeIsFraction DEF Zero
<1> QED BY <1>1, OrderLaws DEF Pos, NonNeg

LEMMA SumSigns ==
    ASSUME NEW x, NEW y, NonNeg(x), NonNeg(y)
    PROVE  NonNeg(x \oplus y) /\ (Pos(x) \/ Pos(y) => Pos(x \oplus y))
<1>1. PICK n, m \in Int, d \in Nat : d > 0 /\ Is(x, n, d) /\ Is(y, m, d)
  BY CommonOfTwo DEF NonNeg
<1>2. Is(x \oplus y, n + m, d)
  BY <1>1, IsSum
<1> QED BY <1>1, <1>2, SignIs

LEMMA DifferenceSigns ==
    ASSUME NEW x, NEW y, IsFraction(x), IsFraction(y)
    PROVE  (Pos(y \ominus x) <=> x \prec y) /\ (NonNeg(y \ominus x) <=> x \preceq y)
<1>1. PICK n, m \in Int, d \in Nat : d > 0 /\ Is(x, n, d) /\ Is(y, m, d)
  BY CommonOfTwo
<1>2. Is(y \ominus x, m - n, d) /\ (x \prec y <=> n < m) /\ (x \preceq y <=> n <= m)
  BY <1>1, IsDifference, IsOrdered
<1>3. (Pos(y \ominus x) <=> m - n > 0) /\ (NonNeg(y \ominus x) <=> m - n >= 0)
  BY <1>2, SignIs
<1> QED BY <1>2, <1>3

LEMMA ProductSigns ==
    ASSUME NEW x, NEW y, NonNeg(x), NonNeg(y)
    PROVE  NonNeg(x \otimes y) /\ (Pos(x) /\ Pos(y) => Pos(x \otimes y))
<1>1. PICK n, m \in Int, d \in Nat : d > 0 /\ Is(x, n, d) /\ Is(y, m, d)
  BY CommonOfTwo DEF NonNeg
<1>2. Is(x \otimes y, n * m, d * d)
  BY <1>1, IsProduct
<1>3. n >= 0 /\ m >= 0 /\ (Pos(x) <=> n > 0) /\ (Pos(y) <=> m > 0)
  BY <1>1, SignIs
<1>4. n * m >= 0 /\ (n > 0 /\ m > 0 => n * m > 0)
  BY <1>3
<1>5. (NonNeg(x \otimes y) <=> n * m >= 0) /\ (Pos(x \otimes y) <=> n * m > 0)
  BY <1>2, SignIs
<1> QED BY <1>3, <1>4, <1>5

LEMMA QuotientSigns ==
    ASSUME NEW x, NEW y, IsFraction(x), Pos(y)
    PROVE  /\ IsFraction(x \oslash y)
           /\ NonNeg(x) => NonNeg(x \oslash y)
           /\ Pos(x) => Pos(x \oslash y)
<1>1. PICK n, m \in Int, d \in Nat : d > 0 /\ Is(x, n, d) /\ Is(y, m, d)
  BY CommonOfTwo DEF Pos
<1>2. m > 0
  BY <1>1, SignIs
<1>3. Is(x \oslash y, n, m)
  BY <1>1, <1>2, IsQuotient
<1> QED BY <1>1, <1>3, SignIs DEF Is

(* Of a mean that moves towards a number, one part in w of the way.        *)
LEMMA MeanIsPos ==
    ASSUME NEW m, NEW b, NEW w, NonNeg(m), Pos(b), IsFraction(w), One \preceq w
    PROVE  Pos(m \oplus ((b \ominus m) \oslash w))
<1>1. PICK M, B, W \in Int, d \in Nat : d > 0 /\ Is(m, M, d) /\ Is(b, B, d) /\ Is(w, W, d)
  BY CommonOfThree DEF NonNeg, Pos
<1>2. M >= 0 /\ B > 0 /\ W >= d
  <2>1. Is(One, d, d)
    BY <1>1, ZeroIs
  <2> QED BY <1>1, <2>1, SignIs, IsOrdered
<1>3. Is((b \ominus m) \oslash w, B - M, W)
  <2>1. Is(b \ominus m, B - M, d)
    BY <1>1, IsDifference
  <2>2. W > 0
    BY <1>1, <1>2
  <2> QED BY <1>1, <2>1, <2>2, IsQuotient
<1>4. Is((b \ominus m) \oslash w, (B - M) * d, W * d)
  BY <1>1, <1>3, IsScaled
<1>5. Is(m, M * W, d * W) /\ d * W = W * d
  <2>1. W \in Nat /\ W > 0
    BY <1>1, <1>2
  <2>2. Is(m, M * W, d * W)
    BY <1>1, <2>1, IsScaled
  <2> QED BY <2>2
<1>6. Is(m \oplus ((b \ominus m) \oslash w), M * W + (B - M) * d, W * d)
  BY <1>4, <1>5, IsSum
<1>7. M * W + (B - M) * d > 0
  <2>1. M * W + (B - M) * d = M * (W - d) + B * d
    OBVIOUS
  <2>2. M * (W - d) >= 0 /\ B * d > 0
    BY <1>1, <1>2
  <2> QED BY <2>1, <2>2
<1> QED BY <1>6, <1>7, SignIs

LEMMA OneIsPos == Pos(One) /\ IsFraction(One) /\ NonNeg(Zero) /\ IsFraction(Zero)
<1>1. Is(One, 1, 1) /\ Is(Zero, 0, 1)
  BY ZeroIs
<1>2. Pos(One) /\ NonNeg(Zero)
  BY <1>1, SignIs
<1> QED BY <1>1, <1>2 DEF Is

LEMMA ZeroLaws ==
    ASSUME NEW x, IsFraction(x)
    PROVE  /\ x \oplus Zero = x /\ Zero \oplus x = x /\ x \ominus Zero = x
           /\ Zero \otimes x = Zero /\ x \ominus x = Zero
<1>1. PICK n \in Int, d \in Nat : d > 0 /\ Is(x, n, d)
  BY IsItself, FractionType
<1>2. Is(Zero, 0, d) /\ Is(Zero, 0, d * d)
  BY <1>1, ZeroIs
<1>3. /\ Is(x \oplus Zero, n + 0, d) /\ Is(Zero \oplus x, 0 + n, d)
      /\ Is(x \ominus Zero, n - 0, d) /\ Is(Zero \otimes x, 0 * n, d * d)
      /\ Is(x \ominus x, n - n, d)
  BY <1>1, <1>2, IsSum, IsDifference, IsProduct
<1>4. n + 0 = n /\ 0 + n = n /\ n - 0 = n /\ 0 * n = 0 /\ n - n = 0
  OBVIOUS
<1> QED BY <1>1, <1>2, <1>3, <1>4, IsUnique

LEMMA DifferenceLaws ==
    ASSUME NEW x, NEW y, IsFraction(x), IsFraction(y)
    PROVE  x \oplus (y \ominus x) = y /\ (x \oplus y) \ominus x = y
<1>1. PICK n, m \in Int, d \in Nat : d > 0 /\ Is(x, n, d) /\ Is(y, m, d)
  BY CommonOfTwo
<1>2. Is(y \ominus x, m - n, d) /\ Is(x \oplus y, n + m, d)
  BY <1>1, IsSum, IsDifference
<1>3. Is(x \oplus (y \ominus x), n + (m - n), d) /\ Is((x \oplus y) \ominus x, (n + m) - n, d)
  BY <1>1, <1>2, IsSum, IsDifference
<1>4. n + (m - n) = m /\ (n + m) - n = m
  OBVIOUS
<1> QED BY <1>1, <1>3, <1>4, IsUnique

LEMMA SumCommutes ==
    ASSUME NEW x, NEW y, IsFraction(x), IsFraction(y) PROVE x \oplus y = y \oplus x
<1>1. PICK n, m \in Int, d \in Nat : d > 0 /\ Is(x, n, d) /\ Is(y, m, d)
  BY CommonOfTwo
<1>2. Is(x \oplus y, n + m, d) /\ Is(y \oplus x, m + n, d)
  BY <1>1, IsSum
<1> QED BY <1>2, IsUnique

LEMMA SumAssociates ==
    ASSUME NEW x, NEW y, NEW z, IsFraction(x), IsFraction(y), IsFraction(z)
    PROVE  /\ (x \oplus y) \oplus z = x \oplus (y \oplus z)
           /\ (x \oplus y) \ominus z = (x \ominus z) \oplus y
           /\ (x \oplus y) \ominus z = x \oplus (y \ominus z)
<1>1. PICK n, m, l \in Int, d \in Nat : d > 0 /\ Is(x, n, d) /\ Is(y, m, d) /\ Is(z, l, d)
  BY CommonOfThree
<1>2. /\ Is(x \oplus y, n + m, d) /\ Is(y \oplus z, m + l, d)
      /\ Is(x \ominus z, n - l, d) /\ Is(y \ominus z, m - l, d)
  BY <1>1, IsSum, IsDifference
<1>3. /\ Is((x \oplus y) \oplus z, (n + m) + l, d) /\ Is(x \oplus (y \oplus z), n + (m + l), d)
      /\ Is((x \oplus y) \ominus z, (n + m) - l, d) /\ Is((x \ominus z) \oplus y, (n - l) + m, d)
      /\ Is(x \oplus (y \ominus z), n + (m - l), d)
  BY <1>1, <1>2, IsSum, IsDifference
<1>4. (n + m) + l = n + (m + l) /\ (n + m) - l = (n - l) + m /\ (n + m) - l = n + (m - l)
  OBVIOUS
<1> QED BY <1>3, <1>4, IsUnique

LEMMA SumIsMonotone ==
    ASSUME NEW x, NEW y, NEW z, NEW w,
           IsFraction(x), IsFraction(y), IsFraction(z), IsFraction(w),
           x \preceq y, z \preceq w
    PROVE  (x \oplus z) \preceq (y \oplus w)
<1>1. PICK n, m, l, k \in Int, d \in Nat :
          d > 0 /\ Is(x, n, d) /\ Is(y, m, d) /\ Is(z, l, d) /\ Is(w, k, d)
  BY CommonOfFour
<1>2. n <= m /\ l <= k
  BY <1>1, IsOrdered
<1>3. Is(x \oplus z, n + l, d) /\ Is(y \oplus w, m + k, d)
  BY <1>1, IsSum
<1> QED BY <1>2, <1>3, IsOrdered

LEMMA DifferenceIsMonotone ==
    ASSUME NEW x, NEW y, NEW z, IsFraction(x), IsFraction(y), IsFraction(z)
    PROVE  /\ (x \ominus z) \preceq (y \ominus z) <=> x \preceq y
           /\ (x \ominus z) \prec (y \ominus z) <=> x \prec y
<1>1. PICK n, m, l \in Int, d \in Nat : d > 0 /\ Is(x, n, d) /\ Is(y, m, d) /\ Is(z, l, d)
  BY CommonOfThree
<1>2. Is(x \ominus z, n - l, d) /\ Is(y \ominus z, m - l, d)
  BY <1>1, IsDifference
<1>3. /\ (x \ominus z) \preceq (y \ominus z) <=> n - l <= m - l
      /\ (x \ominus z) \prec (y \ominus z) <=> n - l < m - l
      /\ x \preceq y <=> n <= m
      /\ x \prec y <=> n < m
  BY <1>1, <1>2, IsOrdered
<1> QED BY <1>3

LEMMA TimesIsMonotone ==
    ASSUME NEW a \in Int, NEW b \in Int, NEW k \in Int, k > 0
    PROVE  (a * k <= b * k <=> a <= b) /\ (a * k < b * k <=> a < b)
<1>1. CASE a > b
  <2>1. (a - b) * k > 0 /\ (a - b) * k = a * k - b * k
    BY <1>1
  <2> QED BY <1>1, <2>1
<1>2. CASE a = b
  BY <1>2
<1>3. CASE a < b
  <2>1. (b - a) * k > 0 /\ (b - a) * k = b * k - a * k
    BY <1>3
  <2> QED BY <1>3, <2>1
<1> QED BY <1>1, <1>2, <1>3

LEMMA ProductIsMonotone ==
    ASSUME NEW x, NEW y, NEW r, IsFraction(x), IsFraction(y), Pos(r)
    PROVE  /\ (x \otimes r) \preceq (y \otimes r) <=> x \preceq y
           /\ (x \otimes r) \prec (y \otimes r) <=> x \prec y
           /\ (x \oslash r) \preceq (y \oslash r) <=> x \preceq y
<1>1. PICK n, m, k \in Int, d \in Nat : d > 0 /\ Is(x, n, d) /\ Is(y, m, d) /\ Is(r, k, d)
  BY CommonOfThree DEF Pos
<1>2. k > 0
  BY <1>1, SignIs
<1>3. Is(x \otimes r, n * k, d * d) /\ Is(y \otimes r, m * k, d * d)
  BY <1>1, IsProduct
<1>4. Is(x \oslash r, n, k) /\ Is(y \oslash r, m, k)
  BY <1>1, <1>2, IsQuotient
<1>5. /\ (x \otimes r) \preceq (y \otimes r) <=> n * k <= m * k
      /\ (x \otimes r) \prec (y \otimes r) <=> n * k < m * k
      /\ (x \oslash r) \preceq (y \oslash r) <=> n <= m
      /\ x \preceq y <=> n <= m
      /\ x \prec y <=> n < m
  BY <1>1, <1>3, <1>4, IsOrdered
<1> QED BY <1>2, <1>5, TimesIsMonotone

LEMMA SumIsStrict ==
    ASSUME NEW x, NEW y, NEW z, IsFraction(x), IsFraction(y), IsFraction(z)
    PROVE  /\ (z \oplus x) \preceq (z \oplus y) <=> x \preceq y
           /\ (z \oplus x) \prec (z \oplus y) <=> x \prec y
<1>1. PICK n, m, l \in Int, d \in Nat : d > 0 /\ Is(x, n, d) /\ Is(y, m, d) /\ Is(z, l, d)
  BY CommonOfThree
<1>2. Is(z \oplus x, l + n, d) /\ Is(z \oplus y, l + m, d)
  BY <1>1, IsSum
<1>3. /\ (z \oplus x) \preceq (z \oplus y) <=> l + n <= l + m
      /\ (z \oplus x) \prec (z \oplus y) <=> l + n < l + m
      /\ x \preceq y <=> n <= m
      /\ x \prec y <=> n < m
  BY <1>1, <1>2, IsOrdered
<1> QED BY <1>3

LEMMA SumIsMore ==
    ASSUME NEW x, NEW y, IsFraction(x)
    PROVE  (NonNeg(y) => x \preceq (x \oplus y)) /\ (Pos(y) => x \prec (x \oplus y))
<1> SUFFICES ASSUME IsFraction(y)
             PROVE  (NonNeg(y) => x \preceq (x \oplus y)) /\ (Pos(y) => x \prec (x \oplus y))
  BY DEF NonNeg, Pos
<1>1. PICK n, m \in Int, d \in Nat : d > 0 /\ Is(x, n, d) /\ Is(y, m, d)
  BY CommonOfTwo
<1>2. Is(x \oplus y, n + m, d)
  BY <1>1, IsSum
<1>3. /\ x \preceq (x \oplus y) <=> n <= n + m
      /\ x \prec (x \oplus y) <=> n < n + m
      /\ NonNeg(y) <=> m >= 0
      /\ Pos(y) <=> m > 0
  BY <1>1, <1>2, IsOrdered, SignIs
<1> QED BY <1>3

LEMMA QuotientCancels ==
    ASSUME NEW x, NEW r, IsFraction(x), Pos(r) PROVE (x \oslash r) \otimes r = x
<1>1. PICK n, k \in Int, d \in Nat : d > 0 /\ Is(x, n, d) /\ Is(r, k, d)
  BY CommonOfTwo DEF Pos
<1>2. k \in Nat /\ k > 0
  BY <1>1, SignIs
<1>3. Is((x \oslash r) \otimes r, n * k, k * d)
  BY <1>1, <1>2, IsQuotient, IsProduct
<1>4. Is(x, n * k, d * k) /\ d * k = k * d
  BY <1>1, <1>2, IsScaled
<1> QED BY <1>3, <1>4, IsUnique

LEMMA ProductDistributes ==
    ASSUME NEW x, NEW y, NEW r, IsFraction(x), IsFraction(y), IsFraction(r)
    PROVE  (x \oplus y) \otimes r = (x \otimes r) \oplus (y \otimes r)
<1>1. PICK n, m, k \in Int, d \in Nat : d > 0 /\ Is(x, n, d) /\ Is(y, m, d) /\ Is(r, k, d)
  BY CommonOfThree
<1>2. Is(x \oplus y, n + m, d) /\ Is(x \otimes r, n * k, d * d) /\ Is(y \otimes r, m * k, d * d)
  BY <1>1, IsSum, IsProduct
<1>3. /\ Is((x \oplus y) \otimes r, (n + m) * k, d * d)
      /\ Is((x \otimes r) \oplus (y \otimes r), n * k + m * k, d * d)
  BY <1>1, <1>2, IsSum, IsProduct
<1>4. (n + m) * k = n * k + m * k
  OBVIOUS
<1> QED BY <1>3, <1>4, IsUnique

Fractions == {x \in Int \X Nat : IsFraction(x)}

LEMMA FractionsAre == ASSUME NEW x PROVE x \in Fractions <=> IsFraction(x)
BY DEF Fractions, IsFraction

-----------------------------------------------------------------------------
(* A recursive function on m..n, whose value at i is a step G[i] from the  *)
(* one before, is what its definition says.                                *)
Steps(m, n, a, G, f) == [i \in m..n |-> IF i = m THEN a ELSE G[i][f[i - 1]]]

LEMMA StepsAreTyped ==
    ASSUME NEW m \in Int, NEW n \in Int, NEW S, NEW a \in S, NEW G, NEW f,
           f = Steps(m, n, a, G, f),
           \A i \in m + 1..n : \A x \in S : G[i][x] \in S
    PROVE  \A i \in m..n : f[i] \in S
<1> DEFINE I == {k \in Nat : m + k <= n => f[m + k] \in S}
<1>1. \A i \in m..n : f[i] = IF i = m THEN a ELSE G[i][f[i - 1]]
  BY DEF Steps
<1>2. 0 \in I
  <2>1. m <= n => f[m] = a
    BY <1>1
  <2> QED BY <2>1
<1>3. ASSUME NEW k \in Nat, k \in I PROVE k + 1 \in I
  <2> SUFFICES ASSUME m + (k + 1) <= n PROVE f[m + (k + 1)] \in S
    OBVIOUS
  <2>1. f[m + k] \in S /\ m + (k + 1) \in m + 1..n /\ (m + (k + 1)) - 1 = m + k
    BY <1>3
  <2>2. f[m + (k + 1)] = G[m + (k + 1)][f[m + k]]
    BY <1>1, <2>1
  <2> QED BY <2>1, <2>2
<1> HIDE DEF I
<1>4. \A k \in Nat : k \in I
  BY <1>2, <1>3, SimpleInduction
<1>5. ASSUME NEW i \in m..n PROVE f[i] \in S
  <2>1. i - m \in Nat /\ m + (i - m) = i
    OBVIOUS
  <2> QED BY <1>4, <2>1 DEF I
<1> QED BY <1>5

LEMMA StepsExist ==
    ASSUME NEW m \in Int, NEW a, NEW G
    PROVE  \A k \in Nat : \E f : f = Steps(m, m + k, a, G, f)
<1> DEFINE I == {k \in Nat : \E f : f = Steps(m, m + k, a, G, f)}
<1>1. 0 \in I
  <2> DEFINE f == [i \in m..m |-> a]
  <2>1. f = Steps(m, m + 0, a, G, f)
    BY DEF Steps
  <2> QED BY <2>1
<1>2. ASSUME NEW k \in Nat, k \in I PROVE k + 1 \in I
  <2>1. PICK f : f = Steps(m, m + k, a, G, f)
    BY <1>2
  <2> DEFINE g == [i \in m..m + (k + 1) |-> IF i <= m + k THEN f[i] ELSE G[i][f[i - 1]]]
  <2>2. \A i \in m..m + k : f[i] = IF i = m THEN a ELSE G[i][f[i - 1]]
    BY <2>1 DEF Steps
  <2>3. ASSUME NEW i \in m..m + (k + 1)
        PROVE  g[i] = IF i = m THEN a ELSE G[i][g[i - 1]]
    <3>1. CASE i = m
      BY <2>2, <3>1
    <3>2. CASE i # m
      <4>1. g[i - 1] = f[i - 1]
        BY <3>2
      <4>2. g[i] = G[i][f[i - 1]]
        BY <2>2, <3>2
      <4> QED BY <3>2, <4>1, <4>2
    <3> QED BY <3>1, <3>2
  <2>4. g = Steps(m, m + (k + 1), a, G, g)
    BY <2>3 DEF Steps
  <2> QED BY <2>4
<1> HIDE DEF I
<1>3. \A k \in Nat : k \in I
  BY <1>1, <1>2, SimpleInduction
<1> QED BY <1>3 DEF I

LEMMA Recursion ==
    ASSUME NEW m \in Int, NEW n \in Int, m <= n, NEW S, NEW a \in S, NEW G,
           \A i \in m + 1..n : \A x \in S : G[i][x] \in S
    PROVE  \E f : f = Steps(m, n, a, G, f) /\ \A i \in m..n : f[i] \in S
<1>1. PICK k \in Nat : m + k = n
  <2>1. n - m \in Nat /\ m + (n - m) = n
    OBVIOUS
  <2> QED BY <2>1
<1>2. \E f : f = Steps(m, m + k, a, G, f)
  BY StepsExist
<1>3. PICK f : f = Steps(m, n, a, G, f)
  BY <1>1, <1>2
<1> QED BY <1>3, StepsAreTyped

-----------------------------------------------------------------------------
(* Sums of products, and how far sizes spread about their mean. *)
AreFractions(x, y, z, w) ==
    IsFraction(x) /\ IsFraction(y) /\ IsFraction(z) /\ IsFraction(w)

LEMMA CommonOfEight ==
    ASSUME NEW x, NEW y, NEW z, NEW w, NEW p, NEW q, NEW r, NEW s,
           AreFractions(x, y, z, w), AreFractions(p, q, r, s)
    PROVE  \E X, Y, Z, W, P, Q, R, S \in Int, d \in Nat :
               /\ d > 0
               /\ Is(x, X, d) /\ Is(y, Y, d) /\ Is(z, Z, d) /\ Is(w, W, d)
               /\ Is(p, P, d) /\ Is(q, Q, d) /\ Is(r, R, d) /\ Is(s, S, d)
<1>1. PICK X, Y, Z, W \in Int, d \in Nat :
          d > 0 /\ Is(x, X, d) /\ Is(y, Y, d) /\ Is(z, Z, d) /\ Is(w, W, d)
  BY CommonOfFour DEF AreFractions
<1>2. PICK P, Q, R, S \in Int, e \in Nat :
          e > 0 /\ Is(p, P, e) /\ Is(q, Q, e) /\ Is(r, R, e) /\ Is(s, S, e)
  BY CommonOfFour DEF AreFractions
<1>3. /\ Is(x, X * e, d * e) /\ Is(y, Y * e, d * e) /\ Is(z, Z * e, d * e) /\ Is(w, W * e, d * e)
  BY <1>1, <1>2, IsScaled
<1>4. /\ Is(p, P * d, e * d) /\ Is(q, Q * d, e * d) /\ Is(r, R * d, e * d) /\ Is(s, S * d, e * d)
  BY <1>1, <1>2, IsScaled
<1>5. e * d = d * e /\ d * e \in Nat /\ d * e > 0
  BY <1>1, <1>2
<1> WITNESS X * e \in Int, Y * e \in Int, Z * e \in Int, W * e \in Int,
            P * d \in Int, Q * d \in Int, R * d \in Int, S * d \in Int, d * e \in Nat
<1> QED BY <1>3, <1>4, <1>5

LEMMA ProductCommutes ==
    ASSUME NEW x, NEW y, IsFraction(x), IsFraction(y) PROVE x \otimes y = y \otimes x
<1>1. PICK n, m \in Int, d \in Nat : d > 0 /\ Is(x, n, d) /\ Is(y, m, d)
  BY CommonOfTwo
<1>2. Is(x \otimes y, n * m, d * d) /\ Is(y \otimes x, m * n, d * d)
  BY <1>1, IsProduct
<1>3. m * n = n * m
  OBVIOUS
<1> QED BY <1>2, <1>3, IsUnique

LEMMA ProductAssociates ==
    ASSUME NEW x, NEW y, NEW z, IsFraction(x), IsFraction(y), IsFraction(z)
    PROVE  (x \otimes y) \otimes z = x \otimes (y \otimes z)
<1>1. PICK n, m, l \in Int, d \in Nat : d > 0 /\ Is(x, n, d) /\ Is(y, m, d) /\ Is(z, l, d)
  BY CommonOfThree
<1>2. Is(x \otimes y, n * m, d * d) /\ Is(y \otimes z, m * l, d * d)
  BY <1>1, IsProduct
<1>3. /\ Is((x \otimes y) \otimes z, (n * m) * l, (d * d) * d)
      /\ Is(x \otimes (y \otimes z), n * (m * l), d * (d * d))
  BY <1>1, <1>2, IsProduct
<1>4. (n * m) * l = n * (m * l) /\ (d * d) * d = d * (d * d)
  OBVIOUS
<1> QED BY <1>3, <1>4, IsUnique

(* The first factor passes the second.                                     *)
LEMMA FactorsSwap ==
    ASSUME NEW x, NEW y, NEW z, IsFraction(x), IsFraction(y), IsFraction(z)
    PROVE  x \otimes (y \otimes z) = y \otimes (x \otimes z)
<1>1. (x \otimes y) \otimes z = x \otimes (y \otimes z)
  BY ProductAssociates
<1>2. (y \otimes x) \otimes z = y \otimes (x \otimes z)
  BY ProductAssociates
<1> QED BY <1>1, <1>2, ProductCommutes

LEMMA OneLaws ==
    ASSUME NEW x, IsFraction(x) PROVE One \otimes x = x /\ x \otimes One = x /\ x \otimes Zero = Zero
<1>1. PICK n \in Int, d \in Nat : d > 0 /\ Is(x, n, d)
  BY IsItself, FractionType
<1>2. Is(One, d, d)
  BY <1>1, ZeroIs
<1>3. Is(One \otimes x, d * n, d * d)
  BY <1>1, <1>2, IsProduct
<1>6. d * n = n * d
  OBVIOUS
<1>5. Is(x, n * d, d * d)
  BY <1>1, IsScaled
<1>4. One \otimes x = x
  BY <1>3, <1>5, <1>6, IsUnique
<1> QED BY <1>4, OneIsPos, ProductCommutes, ZeroLaws

LEMMA FactorDistributes ==
    ASSUME NEW x, NEW y, NEW r, IsFraction(x), IsFraction(y), IsFraction(r)
    PROVE  /\ r \otimes (x \oplus y) = (r \otimes x) \oplus (r \otimes y)
           /\ r \otimes (x \ominus y) = (r \otimes x) \ominus (r \otimes y)
           /\ (x \ominus y) \otimes r = (x \otimes r) \ominus (y \otimes r)
<1>1. PICK n, m, k \in Int, d \in Nat : d > 0 /\ Is(x, n, d) /\ Is(y, m, d) /\ Is(r, k, d)
  BY CommonOfThree
<1>2. Is(x \oplus y, n + m, d) /\ Is(x \ominus y, n - m, d)
  BY <1>1, IsSum, IsDifference
<1>3. /\ Is(r \otimes x, k * n, d * d) /\ Is(r \otimes y, k * m, d * d)
      /\ Is(r \otimes (x \oplus y), k * (n + m), d * d)
      /\ Is(r \otimes (x \ominus y), k * (n - m), d * d)
  BY <1>1, <1>2, IsProduct
<1>4. /\ Is((r \otimes x) \oplus (r \otimes y), k * n + k * m, d * d)
      /\ Is((r \otimes x) \ominus (r \otimes y), k * n - k * m, d * d)
  BY <1>3, IsSum, IsDifference
<1>5. k * (n + m) = k * n + k * m /\ k * (n - m) = k * n - k * m
  OBVIOUS
<1>6. /\ r \otimes (x \oplus y) = (r \otimes x) \oplus (r \otimes y)
      /\ r \otimes (x \ominus y) = (r \otimes x) \ominus (r \otimes y)
  BY <1>3, <1>4, <1>5, IsUnique
<1>7. /\ (x \ominus y) \otimes r = r \otimes (x \ominus y)
      /\ x \otimes r = r \otimes x /\ y \otimes r = r \otimes y
  BY SumIsFraction, ProductCommutes
<1> QED BY <1>6, <1>7

(* Sums of what is left after what was taken from each.                    *)
LEMMA TakingsAddUp ==
    ASSUME NEW x, NEW y, NEW z, NEW p, NEW q, NEW r,
           IsFraction(x), IsFraction(y), IsFraction(z),
           IsFraction(p), IsFraction(q), IsFraction(r)
    PROVE  (x \ominus (y \oplus z)) \oplus (p \ominus (q \oplus r))
               = (x \oplus p) \ominus ((y \oplus q) \oplus (z \oplus r))
<1>0. AreFractions(x, y, z, x) /\ AreFractions(p, q, r, p)
  BY DEF AreFractions
<1>1. PICK X, Y, Z, U, P, Q, R, V \in Int, d \in Nat :
          /\ d > 0
          /\ Is(x, X, d) /\ Is(y, Y, d) /\ Is(z, Z, d) /\ Is(x, U, d)
          /\ Is(p, P, d) /\ Is(q, Q, d) /\ Is(r, R, d) /\ Is(p, V, d)
  BY <1>0, CommonOfEight
<1>2. /\ Is(y \oplus z, Y + Z, d) /\ Is(q \oplus r, Q + R, d) /\ Is(x \oplus p, X + P, d)
      /\ Is(y \oplus q, Y + Q, d) /\ Is(z \oplus r, Z + R, d)
  BY <1>1, IsSum
<1>3. /\ Is(x \ominus (y \oplus z), X - (Y + Z), d) /\ Is(p \ominus (q \oplus r), P - (Q + R), d)
      /\ Is((y \oplus q) \oplus (z \oplus r), (Y + Q) + (Z + R), d)
  BY <1>1, <1>2, IsSum, IsDifference
<1>4. /\ Is((x \ominus (y \oplus z)) \oplus (p \ominus (q \oplus r)), (X - (Y + Z)) + (P - (Q + R)), d)
      /\ Is((x \oplus p) \ominus ((y \oplus q) \oplus (z \oplus r)), (X + P) - ((Y + Q) + (Z + R)), d)
  BY <1>2, <1>3, IsSum, IsDifference
<1>5. (X - (Y + Z)) + (P - (Q + R)) = (X + P) - ((Y + Q) + (Z + R))
  OBVIOUS
<1> QED BY <1>4, <1>5, IsUnique

LEMMA IsNumerator ==
    ASSUME NEW x, NEW n, NEW m, NEW d, Is(x, n, d), Is(x, m, d) PROVE n = m
<1>1. /\ x[2] \in Int /\ x[2] # 0 /\ n \in Int /\ m \in Int
      /\ x[1] * d = n * x[2] /\ x[1] * d = m * x[2]
  BY FractionType DEF Is
<1> QED BY <1>1, Cancel

LEMMA TakenTwice ==
    ASSUME NEW x, NEW y, NEW z, IsFraction(x), IsFraction(y), IsFraction(z)
    PROVE  (x \ominus y) \ominus z = x \ominus (y \oplus z)
<1>1. PICK n, m, l \in Int, d \in Nat : d > 0 /\ Is(x, n, d) /\ Is(y, m, d) /\ Is(z, l, d)
  BY CommonOfThree
<1>2. Is(x \ominus y, n - m, d) /\ Is(y \oplus z, m + l, d)
  BY <1>1, IsSum, IsDifference
<1>3. Is((x \ominus y) \ominus z, (n - m) - l, d) /\ Is(x \ominus (y \oplus z), n - (m + l), d)
  BY <1>1, <1>2, IsDifference
<1>4. (n - m) - l = n - (m + l)
  OBVIOUS
<1> QED BY <1>3, <1>4, IsUnique

LEMMA Rebalanced ==
    ASSUME NEW x, NEW p, NEW q, NEW a, NEW b, NEW c,
           IsFraction(x), IsFraction(p), IsFraction(q),
           IsFraction(a), IsFraction(b), IsFraction(c), NEW e, IsFraction(e),
           a \oplus b = c \oplus e
    PROVE  (x \ominus c) \oplus ((p \ominus q) \ominus (e \ominus b)) = (x \oplus p) \ominus (a \oplus q)
<1>0. AreFractions(x, p, q, x) /\ AreFractions(a, b, c, e)
  BY DEF AreFractions
<1>1. PICK X, P, Q, Z, A, B, C, E \in Int, d \in Nat :
          /\ d > 0
          /\ Is(x, X, d) /\ Is(p, P, d) /\ Is(q, Q, d) /\ Is(x, Z, d)
          /\ Is(a, A, d) /\ Is(b, B, d) /\ Is(c, C, d) /\ Is(e, E, d)
  BY <1>0, CommonOfEight
<1>2. /\ Is(a \oplus b, A + B, d) /\ Is(c \oplus e, C + E, d) /\ Is(a \oplus q, A + Q, d)
      /\ Is(x \oplus p, X + P, d) /\ Is(x \ominus c, X - C, d) /\ Is(p \ominus q, P - Q, d)
      /\ Is(e \ominus b, E - B, d)
  BY <1>1, IsSum, IsDifference
<1>3. A + B = C + E
  <2>1. Is(a \oplus b, C + E, d) /\ Is(a \oplus b, A + B, d)
    BY <1>2
  <2> QED BY <2>1, IsNumerator
<1>4. Is((p \ominus q) \ominus (e \ominus b), (P - Q) - (E - B), d)
  BY <1>2, IsDifference
<1>5. /\ Is((x \ominus c) \oplus ((p \ominus q) \ominus (e \ominus b)), (X - C) + ((P - Q) - (E - B)), d)
      /\ Is((x \oplus p) \ominus (a \oplus q), (X + P) - (A + Q), d)
  BY <1>2, <1>4, IsSum, IsDifference
<1>6. (X - C) + ((P - Q) - (E - B)) = (X + P) - (A + Q)
  BY <1>3
<1> QED BY <1>5, <1>6, IsUnique

LEMMA SquareIsNonNeg == ASSUME NEW n \in Int PROVE n * n >= 0
<1>1. CASE n >= 0
  BY <1>1
<1>2. CASE n < 0
  BY <1>2
<1> QED BY <1>1, <1>2

LEMMA SquaresAreNonNeg == ASSUME NEW x, IsFraction(x) PROVE NonNeg(x \otimes x)
<1>1. PICK n \in Int, d \in Nat : d > 0 /\ Is(x, n, d)
  BY IsItself, FractionType
<1>2. Is(x \otimes x, n * n, d * d)
  BY <1>1, IsProduct
<1> QED BY <1>2, SquareIsNonNeg, SignIs

(* Cauchy's inequality, for the sum -2u + v.                               *)
LEMMA CauchyInts ==
    ASSUME NEW p \in Int, NEW q \in Int, NEW u \in Int, NEW v \in Int
    PROVE  (p * q) * ((v - (u + u)) * (v - (u + u)))
               <= (4 * q + p) * (p * (u * u) + q * (v * v))
<1> DEFINE s == p * u + 2 * (q * v)
<1>1. s * s >= 0
  BY SquareIsNonNeg
<1>2. (p * q) * ((v - (u + u)) * (v - (u + u))) + s * s
          = (4 * q + p) * (p * (u * u) + q * (v * v))
  OBVIOUS
<1> HIDE DEF s
<1>3. /\ (p * q) * ((v - (u + u)) * (v - (u + u))) \in Int
      /\ (4 * q + p) * (p * (u * u) + q * (v * v)) \in Int
      /\ s \in Int
  BY DEF s
<1>4. s * s \in Int
  BY <1>3
<1> QED BY <1>1, <1>2, <1>3, <1>4

LEMMA Scaled ==
    ASSUME NEW a \in Int, NEW b \in Int, NEW k \in Int, a <= b, k >= 0 PROVE a * k <= b * k
<1>1. CASE k > 0
  BY <1>1, TimesIsMonotone
<1>2. CASE k = 0
  BY <1>2
<1> QED BY <1>1, <1>2

(* Two sizes, one at least twice the other, spread enough whatever their   *)
(* mean m with others, as long as both weigh enough.                       *)
IsSpread(D, a, m, W, X, Y, p, q, V) ==
    /\ D > 0 /\ a > 0 /\ a < D /\ m > 0
    /\ W >= 0 /\ a * W <= D * D
    /\ 2 * X <= Y
    /\ \/ p = D /\ q = D - a
       \/ p = D - a /\ q = D
    /\ p * ((X - m) * (X - m)) + q * ((Y - m) * (Y - m)) <= V * (D * D)
    /\ (5 * D - a) * D <= 100 * (a * (D - a))

LEMMA SpreadInts ==
    ASSUME NEW D \in Int, NEW a \in Int, NEW m \in Int, NEW W \in Int, NEW X \in Int, NEW Y \in Int,
           NEW p \in Int, NEW q \in Int, NEW V \in Int, IsSpread(D, a, m, W, X, Y, p, q, V)
    PROVE  W * (m * m) <= (100 * V) * (D * D)
<1> SUFFICES ASSUME D > 0, a > 0, a < D, m > 0, W >= 0, a * W <= D * D, 2 * X <= Y,
                    \/ p = D /\ q = D - a
                    \/ p = D - a /\ q = D,
                    p * ((X - m) * (X - m)) + q * ((Y - m) * (Y - m)) <= V * (D * D),
                    (5 * D - a) * D <= 100 * (a * (D - a))
             PROVE  W * (m * m) <= (100 * V) * (D * D)
  BY Zenon DEF IsSpread
<1> DEFINE e == D - a
           u == X - m
           v == Y - m
           t == v - (u + u)
           M == p * (u * u) + q * (v * v)
           N == V * (D * D)
<1>1. /\ e \in Int /\ u \in Int /\ v \in Int /\ t \in Int /\ M \in Int /\ N \in Int
      /\ e > 0 /\ p > 0 /\ q > 0 /\ M <= N /\ D * D \in Int /\ m * m \in Int /\ a * W \in Int
      /\ (5 * D - a) \in Int
  <2>1. u \in Int /\ v \in Int /\ e \in Int
    OBVIOUS
  <2> QED BY <2>1
<1>2. M >= 0
  <2>1. u * u >= 0 /\ v * v >= 0 /\ u * u \in Int /\ v * v \in Int
    BY <1>1, SquareIsNonNeg
  <2>2. (u * u) * p >= 0 * p /\ (v * v) * q >= 0 * q
    BY <1>1, <2>1, Scaled
  <2> QED BY <1>1, <2>1, <2>2
<1>3. m * m <= t * t
  <2>1. m <= t
    OBVIOUS
  <2>2. m * m <= t * m /\ t * m <= t * t
    <3>1. t >= 0
      BY <2>1
    <3>2. m * m <= t * m
      BY <1>1, <2>1, Scaled
    <3>3. m * t <= t * t
      BY <1>1, <2>1, <3>1, Scaled
    <3>4. m * t = t * m
      BY <1>1
    <3> QED BY <3>2, <3>3, <3>4
  <2> QED BY <1>1, <2>2
<1>4. (p * q) * (t * t) <= (4 * q + p) * M
  BY <1>1, CauchyInts
<1>5. p * q = e * D /\ 4 * q + p <= 5 * D - a /\ 4 * q + p >= 0
  <2>1. CASE p = D /\ q = D - a
    BY <2>1
  <2>2. CASE p = D - a /\ q = D
    BY <2>2
  <2> QED BY <2>1, <2>2
<1> HIDE DEF e, u, v, t, M, N
<1>6. (e * D) * (m * m) <= (5 * D - a) * N
  <2>1. (m * m) * (e * D) <= (t * t) * (e * D)
    <3>1. e * D \in Int /\ e * D >= 0
      BY <1>1
    <3> QED BY <1>1, <1>3, <3>1, Scaled
  <2>2. (t * t) * (e * D) <= (4 * q + p) * M
    <3>1. (t * t) * (p * q) = (p * q) * (t * t)
      BY <1>1
    <3> QED BY <1>4, <1>5, <3>1
  <2>3. (4 * q + p) * M <= (5 * D - a) * M
    BY <1>1, <1>2, <1>5, Scaled
  <2>4. M * (5 * D - a) <= N * (5 * D - a)
    <3>1. 5 * D - a >= 0
      BY <1>5
    <3> QED BY <1>1, <3>1, Scaled
  <2>5. /\ M * (5 * D - a) = (5 * D - a) * M /\ N * (5 * D - a) = (5 * D - a) * N
        /\ (m * m) * (e * D) = (e * D) * (m * m)
    BY <1>1
  <2>6. /\ (m * m) * (e * D) \in Int /\ (t * t) * (e * D) \in Int /\ (4 * q + p) * M \in Int
        /\ (5 * D - a) * M \in Int /\ (5 * D - a) * N \in Int
    BY <1>1
  <2> QED BY <2>1, <2>2, <2>3, <2>4, <2>5, <2>6
<1>7. N >= 0
  BY <1>1, <1>2
<1>8. (e * (D * D)) * (m * m) <= (100 * (a * e)) * N
  <2>1. ((e * D) * (m * m)) * D <= ((5 * D - a) * N) * D
    BY <1>1, <1>6, Scaled
  <2>2. ((5 * D - a) * D) * N <= (100 * (a * e)) * N
    BY <1>1, <1>7, Scaled DEF e
  <2>3. ((e * D) * (m * m)) * D = (e * (D * D)) * (m * m)
        /\ ((5 * D - a) * N) * D = ((5 * D - a) * D) * N
    BY <1>1
  <2>4. /\ (e * (D * D)) * (m * m) \in Int /\ ((5 * D - a) * D) * N \in Int
        /\ (100 * (a * e)) * N \in Int
    BY <1>1
  <2> QED BY <2>1, <2>2, <2>3, <2>4
<1>9. m * m <= 100 * (a * V)
  <2> DEFINE k == e * (D * D)
  <2>1. k \in Int /\ k > 0 /\ 100 * (a * V) \in Int
    <3>1. D * D > 0
      OBVIOUS
    <3> QED BY <1>1, <3>1
  <2>2. (m * m) * k = (e * (D * D)) * (m * m) /\ (100 * (a * V)) * k = (100 * (a * e)) * N
    BY <1>1 DEF N
  <2> HIDE DEF k
  <2>3. (m * m) * k <= (100 * (a * V)) * k
    BY <1>8, <2>2
  <2> QED BY <1>1, <2>1, <2>3, TimesIsMonotone
<1>10. V >= 0
  <2>1. V < 0 => V * (D * D) < 0
    BY <1>1
  <2> QED BY <1>7, <2>1 DEF N
<1>11. (m * m) * W <= (100 * (a * V)) * W
  BY <1>1, <1>9, Scaled
<1>12. (a * W) * (100 * V) <= (D * D) * (100 * V)
  BY <1>1, <1>10, Scaled
<1>13. /\ (100 * (a * V)) * W = (a * W) * (100 * V) /\ (D * D) * (100 * V) = (100 * V) * (D * D)
       /\ (m * m) * W = W * (m * m)
  BY <1>1
<1>14. /\ (m * m) * W \in Int /\ (a * W) * (100 * V) \in Int /\ (100 * V) * (D * D) \in Int
  BY <1>1
<1> QED BY <1>11, <1>12, <1>13, <1>14

LEMMA Hundredfold ==
    ASSUME NEW x, NEW n, NEW d, Is(x, n, d) PROVE Is(Whole(100) \otimes x, 100 * n, d)
<1>1. Is(Whole(100), 100 * 1, 1)
  BY WholeIs
<1>2. Is(Whole(100) \otimes x, (100 * 1) * n, 1 * d)
  BY <1>1, IsProduct
<1>3. (100 * 1) * n = 100 * n /\ 1 * d = d
  BY DEF Is
<1> QED BY <1>2, <1>3

LEMMA TellsInts ==
    ASSUME NEW a, NEW A, NEW D, Is(a, A, D),
           (Whole(5) \ominus a) \preceq (Whole(100) \otimes (a \otimes (One \ominus a)))
    PROVE  (5 * D - A) * D <= 100 * (A * (D - A))
<1>1. A \in Int /\ D \in Nat /\ D > 0
  BY DEF Is
<1>2. Is(Whole(5), 5 * D, D) /\ Is(One, D, D)
  BY <1>1, WholeIs, ZeroIs
<1>3. Is(Whole(5) \ominus a, 5 * D - A, D) /\ Is(One \ominus a, D - A, D)
  BY <1>2, IsDifference
<1>4. Is(a \otimes (One \ominus a), A * (D - A), D * D)
  BY <1>3, IsProduct
<1>5. Is(Whole(100) \otimes (a \otimes (One \ominus a)), 100 * (A * (D - A)), D * D)
  BY <1>4, Hundredfold
<1>6. Is(Whole(5) \ominus a, (5 * D - A) * D, D * D)
  BY <1>1, <1>3, IsScaled
<1> QED BY <1>5, <1>6, IsOrdered

(* A point of size x and weight p and one of size y and weight q, of       *)
(* several whose weights add up to w and whose mean size is m.             *)
Spreads(a, w, m, x, y, var, p, q) ==
    /\ Pos(a) /\ a \prec One /\ Pos(m) /\ NonNeg(w) /\ (a \otimes w) \preceq One
    /\ IsFraction(x) /\ IsFraction(y) /\ IsFraction(var)
    /\ (Whole(2) \otimes x) \preceq y
    /\ \/ p = One /\ q = One \ominus a
       \/ p = One \ominus a /\ q = One
    /\ (Whole(5) \ominus a) \preceq (Whole(100) \otimes (a \otimes (One \ominus a)))
    /\ ((p \otimes ((x \ominus m) \otimes (x \ominus m)))
            \oplus (q \otimes ((y \ominus m) \otimes (y \ominus m)))) \preceq var

LEMMA SpreadIsEnough ==
    ASSUME NEW a, NEW w, NEW m, NEW x, NEW y, NEW var, NEW p, NEW q,
           Spreads(a, w, m, x, y, var, p, q)
    PROVE  (w \otimes (m \otimes m)) \preceq (Whole(100) \otimes var)
<1> SUFFICES ASSUME Pos(a), a \prec One, Pos(m), NonNeg(w), (a \otimes w) \preceq One,
                    IsFraction(x), IsFraction(y), IsFraction(var), (Whole(2) \otimes x) \preceq y,
                    \/ p = One /\ q = One \ominus a
                    \/ p = One \ominus a /\ q = One,
                    (Whole(5) \ominus a) \preceq (Whole(100) \otimes (a \otimes (One \ominus a))),
                    ((p \otimes ((x \ominus m) \otimes (x \ominus m)))
                         \oplus (q \otimes ((y \ominus m) \otimes (y \ominus m)))) \preceq var
             PROVE  (w \otimes (m \otimes m)) \preceq (Whole(100) \otimes var)
  BY Zenon DEF Spreads
<1>0. AreFractions(a, w, m, x) /\ AreFractions(y, var, a, a)
  BY DEF AreFractions, Pos, NonNeg
<1>1. PICK A, W, M, X, Y, V, B, C \in Int, D \in Nat :
          /\ D > 0
          /\ Is(a, A, D) /\ Is(w, W, D) /\ Is(m, M, D) /\ Is(x, X, D)
          /\ Is(y, Y, D) /\ Is(var, V, D) /\ Is(a, B, D) /\ Is(a, C, D)
  BY <1>0, CommonOfEight
<1>2. Is(One, D, D) /\ Is(One \ominus a, D - A, D)
  BY <1>1, ZeroIs, IsDifference
<1>3. A > 0 /\ A < D /\ M > 0 /\ W >= 0
  <2>1. A > 0 /\ M > 0 /\ W >= 0
    BY <1>1, SignIs
  <2> QED BY <1>1, <1>2, <2>1, IsOrdered
<1>4. A * W <= D * D
  <2>1. Is(a \otimes w, A * W, D * D) /\ Is(One, D * D, D * D)
    <3>1. D * D \in Nat /\ D * D > 0
      BY <1>1
    <3> QED BY <1>1, <3>1, IsProduct, ZeroIs
  <2> QED BY <2>1, IsOrdered
<1>5. 2 * X <= Y
  <2>1. Is(Whole(2), 2 * 1, 1)
    BY WholeIs
  <2>2. Is(Whole(2) \otimes x, (2 * 1) * X, 1 * D)
    BY <1>1, <2>1, IsProduct
  <2>3. (2 * 1) * X = 2 * X /\ 1 * D = D
    BY <1>1
  <2>4. Is(Whole(2) \otimes x, 2 * X, D)
    BY <2>2, <2>3
  <2> QED BY <1>1, <2>4, IsOrdered
<1>6. PICK P, Q \in Int : /\ Is(p, P, D) /\ Is(q, Q, D)
                          /\ \/ P = D /\ Q = D - A
                             \/ P = D - A /\ Q = D
  BY <1>1, <1>2
<1>7. P * ((X - M) * (X - M)) + Q * ((Y - M) * (Y - M)) <= V * (D * D)
  <2>1. Is(x \ominus m, X - M, D) /\ Is(y \ominus m, Y - M, D)
    BY <1>1, IsDifference
  <2>2. /\ Is((x \ominus m) \otimes (x \ominus m), (X - M) * (X - M), D * D)
        /\ Is((y \ominus m) \otimes (y \ominus m), (Y - M) * (Y - M), D * D)
    BY <2>1, IsProduct
  <2>3. /\ Is(p \otimes ((x \ominus m) \otimes (x \ominus m)), P * ((X - M) * (X - M)), D * (D * D))
        /\ Is(q \otimes ((y \ominus m) \otimes (y \ominus m)), Q * ((Y - M) * (Y - M)), D * (D * D))
    BY <1>6, <2>2, IsProduct
  <2>4. Is((p \otimes ((x \ominus m) \otimes (x \ominus m)))
               \oplus (q \otimes ((y \ominus m) \otimes (y \ominus m))),
           P * ((X - M) * (X - M)) + Q * ((Y - M) * (Y - M)), D * (D * D))
    BY <2>3, IsSum
  <2>5. Is(var, V * (D * D), D * (D * D))
    <3>1. D * D \in Nat /\ D * D > 0
      BY <1>1
    <3> QED BY <1>1, <3>1, IsScaled
  <2> QED BY <2>4, <2>5, IsOrdered
<1>8. (5 * D - A) * D <= 100 * (A * (D - A))
  BY <1>1, TellsInts
<1>9. W * (M * M) <= (100 * V) * (D * D)
  <2>1. D \in Int /\ D > 0
    BY <1>1
  <2>2. IsSpread(D, A, M, W, X, Y, P, Q, V)
    BY <1>3, <1>4, <1>5, <1>6, <1>7, <1>8, <2>1, Zenon DEF IsSpread
  <2> QED BY <2>1, <2>2, SpreadInts
<1>10. Is(w \otimes (m \otimes m), W * (M * M), D * (D * D))
  <2>1. Is(m \otimes m, M * M, D * D)
    BY <1>1, IsProduct
  <2> QED BY <1>1, <2>1, IsProduct
<1>11. Is(Whole(100) \otimes var, (100 * V) * (D * D), D * (D * D))
  <2>1. Is(Whole(100) \otimes var, 100 * V, D)
    BY <1>1, Hundredfold
  <2>2. D * D \in Nat /\ D * D > 0
    BY <1>1
  <2> QED BY <2>1, <2>2, IsScaled
<1> QED BY <1>9, <1>10, <1>11, IsOrdered

LEMMA TwiceIsMore ==
    ASSUME NEW x, NEW y, Pos(x), IsFraction(y), (Whole(2) \otimes x) \preceq y
    PROVE  Pos(y \ominus x)
<1>1. PICK n, m \in Int, d \in Nat : d > 0 /\ Is(x, n, d) /\ Is(y, m, d)
  BY CommonOfTwo DEF Pos
<1>2. Is(Whole(2), 2 * 1, 1)
  BY WholeIs
<1>3. Is(Whole(2) \otimes x, (2 * 1) * n, 1 * d)
  BY <1>1, <1>2, IsProduct
<1>4. (2 * 1) * n = 2 * n /\ 1 * d = d
  BY <1>1
<1>5. 2 * n <= m /\ n > 0
  <2>1. Is(Whole(2) \otimes x, 2 * n, d)
    BY <1>3, <1>4
  <2> QED BY <1>1, <2>1, IsOrdered, SignIs
<1>6. Is(y \ominus x, m - n, d)
  BY <1>1, IsDifference
<1> QED BY <1>1, <1>5, <1>6, SignIs
=============================================================================

------------------------------ MODULE Rational ------------------------------
(***************************************************************************)
(* Exact fractions <<num, den>> in lowest terms, den > 0, for the float64s *)
(* of the packages that reckon with measured seconds and bytes.  What they *)
(* compute is modelled without its rounding.                               *)
(***************************************************************************)
EXTENDS Integers

(* Euclid's algorithm: gcd[b][a] of a and b.                               *)
gcd[b \in Nat] == [a \in Nat |-> IF b = 0 THEN a ELSE gcd[a % b][b]]

Abs(n) == IF n < 0 THEN -n ELSE n

IsFraction(x) ==
    x \in Int \X Nat /\ x[2] > 0 /\ gcd[x[2]][Abs(x[1])] = 1

Frac(n, d) ==
    LET g == gcd[Abs(d)][Abs(n)]
    IN  IF d < 0 THEN <<(-n) \div g, (-d) \div g>> ELSE <<n \div g, d \div g>>

Whole(n) == <<n, 1>>
Zero == Whole(0)
One == Whole(1)

(* Factors the operands share are cancelled first, to keep numbers small.  *)
x \oplus y ==
    LET g == gcd[y[2]][x[2]]
    IN  Frac(x[1] * (y[2] \div g) + y[1] * (x[2] \div g), (x[2] \div g) * y[2])

x \ominus y == x \oplus <<-y[1], y[2]>>

x \otimes y ==
    LET a == Frac(x[1], y[2])
        b == Frac(y[1], x[2])
    IN  <<a[1] * b[1], a[2] * b[2]>>

x \oslash y == x \otimes Frac(y[2], y[1])

x \preceq y == (x \ominus y)[1] <= 0
x \prec y == (x \ominus y)[1] < 0

Lesser(x, y) == IF y \prec x THEN y ELSE x
Greater(x, y) == IF x \prec y THEN y ELSE x

(* The conversion to an integer of ticks, toward 0, as ticks again.        *)
Truncated(x, ticks) == Frac((x[1] * ticks) \div x[2], ticks)

Sum(x(_), n) ==
    LET s[i \in 0..n] == IF i = 0 THEN Zero ELSE s[i - 1] \oplus x(i) IN s[n]
=============================================================================

--------------------------- MODULE LoadSimProofs ----------------------------
(***************************************************************************)
(* The loaders of kvloadsim over a recorded network: what a trace carries  *)
(* by a time, when a send over it ends, and so what the Oracle and Cake    *)
(* can do; on any rows, of any rates, sizes and costs.                     *)
(***************************************************************************)
EXTENDS AnalysisProofs

-----------------------------------------------------------------------------
(* The trace: segments that follow each other, each with a rate.           *)
Begin(T, i) == IF i = 1 THEN Zero ELSE T.ends[i - 1]

IsTrace(T) ==
    /\ Last(T) \in Nat \ {0}
    /\ \A i \in 1..Last(T) :
           /\ IsFraction(T.ends[i]) /\ Pos(T.rates[i])
           /\ Begin(T, i) \prec T.ends[i]

(* Segment i is the one that a time belongs to.                            *)
Holds(T, i, t) ==
    i \in 1..Last(T) /\ Begin(T, i) \preceq t /\ (i = Last(T) \/ t \prec T.ends[i])

LEMMA BeginsAre ==
    ASSUME NEW T, IsTrace(T)
    PROVE  \A i \in 1..Last(T) : NonNeg(Begin(T, i)) /\ NonNeg(T.ends[i])
<1> DEFINE S == {k \in Nat : k + 1 \in 1..Last(T) => NonNeg(Begin(T, k + 1))}
<1>1. 0 \in S
  BY OneIsPos DEF Begin
<1>0. ASSUME NEW i \in 1..Last(T), NonNeg(Begin(T, i)) PROVE NonNeg(T.ends[i])
  <2>1. IsFraction(T.ends[i]) /\ IsFraction(Begin(T, i)) /\ Begin(T, i) \prec T.ends[i]
    BY <1>0 DEF IsTrace, NonNeg
  <2>2. Begin(T, i) \preceq T.ends[i]
    BY <2>1, OrderLaws
  <2> QED BY <1>0, <2>1, <2>2, OneIsPos, OrderLaws DEF NonNeg
<1>2. ASSUME NEW k \in Nat, k \in S PROVE k + 1 \in S
  <2> SUFFICES ASSUME (k + 1) + 1 \in 1..Last(T) PROVE NonNeg(Begin(T, (k + 1) + 1))
    OBVIOUS
  <2>1. k + 1 \in 1..Last(T) /\ NonNeg(Begin(T, k + 1))
    BY <1>2 DEF IsTrace
  <2>2. Begin(T, (k + 1) + 1) = T.ends[k + 1]
    BY DEF Begin
  <2> QED BY <1>0, <2>1, <2>2
<1> HIDE DEF S
<1>3. \A k \in Nat : k \in S
  BY <1>1, <1>2, SimpleInduction
<1>4. ASSUME NEW i \in 1..Last(T) PROVE NonNeg(Begin(T, i))
  <2>1. i - 1 \in Nat /\ (i - 1) + 1 = i
    OBVIOUS
  <2> QED BY <1>3, <2>1 DEF S
<1> QED BY <1>0, <1>4

LEMMA EndsAreOrdered ==
    ASSUME NEW T, IsTrace(T), NEW i \in 1..Last(T), NEW j \in 1..Last(T), i < j
    PROVE  T.ends[i] \preceq Begin(T, j)
<1> DEFINE S == {k \in Nat : i + (k + 1) \in 1..Last(T) => T.ends[i] \preceq Begin(T, i + (k + 1))}
<1>0. \A k \in 1..Last(T) : NonNeg(Begin(T, k)) /\ NonNeg(T.ends[k])
  BY BeginsAre
<1>1. 0 \in S
  <2>1. i + 1 # 1 /\ (i + 1) - 1 = i /\ i + (0 + 1) = i + 1
    OBVIOUS
  <2>2. T.ends[i] \preceq T.ends[i]
    BY <1>0, OrderLaws DEF NonNeg
  <2> QED BY <2>1, <2>2 DEF Begin
<1>2. ASSUME NEW k \in Nat, k \in S PROVE k + 1 \in S
  <2> DEFINE l == i + (k + 1)
  <2> SUFFICES ASSUME l + 1 \in 1..Last(T) PROVE T.ends[i] \preceq Begin(T, l + 1)
    OBVIOUS
  <2>1. l \in 1..Last(T) /\ T.ends[i] \preceq Begin(T, l)
    BY <1>2 DEF IsTrace
  <2> HIDE DEF l
  <2>2. Begin(T, l + 1) = T.ends[l]
    BY <2>1 DEF Begin
  <2>3. Begin(T, l) \prec T.ends[l]
    BY <2>1 DEF IsTrace
  <2> QED BY <1>0, <2>1, <2>2, <2>3, OrderLaws DEF NonNeg
<1> HIDE DEF S
<1>3. \A k \in Nat : k \in S
  BY <1>1, <1>2, SimpleInduction
<1>4. j - i - 1 \in Nat /\ i + ((j - i - 1) + 1) = j
  OBVIOUS
<1> QED BY <1>3, <1>4 DEF S

LEMMA SegmentIs ==
    ASSUME NEW T, IsTrace(T), NEW t, NonNeg(t)
    PROVE  Holds(T, Segment(T, t), t)
<1> DEFINE S == {i \in 1..Last(T) : i = Last(T) \/ t \prec T.ends[i]}
<1>1. Last(T) \in S /\ S \subseteq Nat
  BY DEF IsTrace
<1>2. PICK i \in S : \A j \in S : i <= j
  BY <1>1, LeastExists
<1>0. Last(T) \in Nat
  BY DEF IsTrace
<1>3. ASSUME NEW j \in 1..i - 1 PROVE T.ends[j] \preceq t
  <2>1. j \in 1..Last(T) /\ j \notin S
    BY <1>0, <1>2
  <2>2. IsFraction(T.ends[j]) /\ IsFraction(t) /\ ~(t \prec T.ends[j])
    BY <2>1 DEF IsTrace, NonNeg
  <2> QED BY <2>2, OrderLaws
<1> DEFINE Is1(k) == (k = Last(T) \/ t \prec T.ends[k]) /\ \A j \in 1..k - 1 : T.ends[j] \preceq t
<1>4. i \in 1..Last(T) /\ Is1(i)
  BY <1>2, <1>3
<1> DEFINE s == Segment(T, t)
<1>5. s \in 1..Last(T) /\ Is1(s)
  BY <1>4, Zenon DEF Segment
<1> HIDE DEF s
<1>6. Begin(T, s) \preceq t
  <2>1. CASE s = 1
    BY <2>1 DEF Begin, NonNeg
  <2>2. CASE s # 1
    <3>1. s - 1 \in 1..s - 1
      BY <1>0, <1>5, <2>2
    <3> QED BY <1>5, <2>2, <3>1 DEF Begin
  <2> QED BY <2>1, <2>2
<1> QED BY <1>5, <1>6 DEF Holds, s

LEMMA SegmentIsOnly ==
    ASSUME NEW T, IsTrace(T), NEW t, NonNeg(t), NEW i, Holds(T, i, t)
    PROVE  Segment(T, t) = i
<1> DEFINE s == Segment(T, t)
<1>1. Holds(T, s, t)
  BY SegmentIs
<1> HIDE DEF s
<1>2. ASSUME NEW j, NEW k, Holds(T, j, t), Holds(T, k, t), j < k PROVE FALSE
  <2>1. j \in 1..Last(T) /\ k \in 1..Last(T) /\ Last(T) \in Nat
    BY <1>2 DEF Holds, IsTrace
  <2>2. t \prec T.ends[j] /\ Begin(T, k) \preceq t
    BY <1>2, <2>1 DEF Holds
  <2>3. T.ends[j] \preceq Begin(T, k)
    BY <1>2, <2>1, EndsAreOrdered
  <2>4. IsFraction(t) /\ IsFraction(T.ends[j]) /\ IsFraction(Begin(T, k))
    BY <2>1, BeginsAre DEF NonNeg
  <2> QED BY <2>2, <2>3, <2>4, OrderLaws
<1>3. s \in Nat /\ i \in Nat
  BY <1>1 DEF Holds, IsTrace
<1> QED BY <1>1, <1>2, <1>3 DEF s

-----------------------------------------------------------------------------
(* How many bytes a network that is always busy has carried: by the end of *)
(* segment k, and by any time.                                             *)
SegmentBytes(T, k) == (T.ends[k] \ominus Begin(T, k)) \otimes T.rates[k]

IsUpto(T, u) ==
    /\ u[0] = Zero
    /\ \A k \in 1..Last(T) : u[k] = u[k - 1] \oplus SegmentBytes(T, k)

Upto(T) == CHOOSE u : IsUpto(T, u)

BytesIn(T, k, t) == Upto(T)[k - 1] \oplus ((t \ominus Begin(T, k)) \otimes T.rates[k])

Bytes(T, t) == BytesIn(T, Segment(T, t), t)

LEMMA SegmentBytesArePos ==
    ASSUME NEW T, IsTrace(T), NEW k \in 1..Last(T) PROVE Pos(SegmentBytes(T, k))
<1>1. /\ IsFraction(T.ends[k]) /\ IsFraction(Begin(T, k)) /\ Begin(T, k) \prec T.ends[k]
      /\ Pos(T.rates[k])
  BY BeginsAre DEF IsTrace, NonNeg
<1>2. Pos(T.ends[k] \ominus Begin(T, k))
  BY <1>1, DifferenceSigns
<1> QED BY <1>1, <1>2, PosIsNonNeg, ProductSigns DEF SegmentBytes

LEMMA UptoIs ==
    ASSUME NEW T, IsTrace(T)
    PROVE  IsUpto(T, Upto(T)) /\ \A k \in 0..Last(T) : NonNeg(Upto(T)[k])
<1> DEFINE n == Last(T)
           S == {x \in Fractions : NonNeg(x)}
           G == [k \in 1..n |-> [x \in S |-> x \oplus SegmentBytes(T, k)]]
<1>0. n \in Nat /\ Zero \in S
  BY OneIsPos, FractionsAre DEF IsTrace
<1>1. ASSUME NEW k \in 1..n, NEW x \in S
      PROVE  x \oplus SegmentBytes(T, k) \in S
  <2>1. NonNeg(x \oplus SegmentBytes(T, k))
    BY SegmentBytesArePos, PosIsNonNeg, SumSigns
  <2> QED BY <2>1, FractionsAre DEF NonNeg
<1> HIDE DEF S
<1>2. \A k \in 0 + 1..n : \A x \in S : G[k][x] = x \oplus SegmentBytes(T, k) /\ G[k][x] \in S
  BY <1>0, <1>1
<1> HIDE DEF n, G
<1>7. \A k \in 0 + 1..n : \A x \in S : G[k][x] \in S
  BY <1>2
<1>8. 0 \in Int /\ n \in Int /\ 0 <= n
  BY <1>0
<1>3. PICK f : f = Steps(0, n, Zero, G, f) /\ \A k \in 0..n : f[k] \in S
  BY <1>0, <1>7, <1>8, Recursion, Zenon
<1>4. ASSUME NEW u, IsUpto(T, u) PROVE \A k \in 0..n : u[k] \in S
  <2> DEFINE I == {k \in Nat : k <= n => u[k] \in S}
  <2>1. 0 \in I
    BY <1>0, <1>4 DEF IsUpto
  <2>2. ASSUME NEW k \in Nat, k \in I PROVE k + 1 \in I
    <3> SUFFICES ASSUME k + 1 <= n PROVE u[k + 1] \in S
      OBVIOUS
    <3>1. k + 1 \in 1..n /\ (k + 1) - 1 = k /\ u[k] \in S
      BY <1>0, <2>2
    <3>2. u[k + 1] = u[k] \oplus SegmentBytes(T, k + 1)
      BY <1>4, <3>1 DEF IsUpto, n
    <3> QED BY <1>1, <3>1, <3>2
  <2> HIDE DEF I
  <2>3. \A k \in Nat : k \in I
    BY <2>1, <2>2, SimpleInduction
  <2> QED BY <1>0, <2>3 DEF I
<1>5. IsUpto(T, f)
  <2>1. f[0] = Zero
    BY <1>0, <1>3 DEF Steps
  <2>2. ASSUME NEW k \in 1..n PROVE f[k] = f[k - 1] \oplus SegmentBytes(T, k)
    <3>1. k \in 0..n /\ k # 0 /\ k - 1 \in 0..n /\ k \in 0 + 1..n
      BY <1>0
    <3>2. f[k] = G[k][f[k - 1]]
      BY <1>3, <3>1 DEF Steps
    <3> QED BY <1>2, <1>3, <3>1, <3>2
  <2> QED BY <2>1, <2>2 DEF IsUpto, n
<1>6. IsUpto(T, Upto(T))
  BY <1>5, Zenon DEF Upto
<1> QED BY <1>4, <1>6 DEF S, n

(* At the end of a segment it makes no difference which of the two it is   *)
(* taken for.                                                              *)
LEMMA BytesWithin ==
    ASSUME NEW T, IsTrace(T), NEW k \in 1..Last(T), NEW t, NonNeg(t),
           Begin(T, k) \preceq t, k = Last(T) \/ t \preceq T.ends[k]
    PROVE  Bytes(T, t) = BytesIn(T, k, t)
<1>0. /\ IsFraction(t) /\ IsFraction(T.ends[k]) /\ IsFraction(Begin(T, k))
      /\ Last(T) \in Nat /\ Pos(T.rates[k])
  BY BeginsAre DEF IsTrace, NonNeg
<1>1. CASE k = Last(T) \/ t \prec T.ends[k]
  BY <1>1, SegmentIsOnly DEF Holds, Bytes
<1>2. CASE k # Last(T) /\ ~(t \prec T.ends[k])
  <2>1. t = T.ends[k]
    BY <1>0, <1>2, OrderLaws
  <2>2. k + 1 \in 1..Last(T) /\ Begin(T, k + 1) = t /\ (k + 1) - 1 = k
    BY <1>0, <1>2, <2>1 DEF Begin
  <2>3. t \prec T.ends[k + 1] /\ t \preceq t /\ Pos(T.rates[k + 1])
    BY <1>0, <2>2, OrderLaws DEF IsTrace
  <2>4. Segment(T, t) = k + 1
    BY <2>2, <2>3, SegmentIsOnly DEF Holds
  <2>5. Bytes(T, t) = Upto(T)[k] \oplus ((t \ominus t) \otimes T.rates[k + 1])
    BY <2>2, <2>4 DEF Bytes, BytesIn
  <2>6. (t \ominus t) \otimes T.rates[k + 1] = Zero /\ IsFraction(Upto(T)[k])
    BY <1>0, <2>3, UptoIs, ZeroLaws DEF Pos, NonNeg
  <2>7. Bytes(T, t) = Upto(T)[k]
    BY <2>5, <2>6, ZeroLaws
  <2>8. Upto(T)[k] = BytesIn(T, k, t)
    BY <2>1, UptoIs DEF IsUpto, BytesIn, SegmentBytes
  <2> QED BY <2>7, <2>8
<1> QED BY <1>1, <1>2

LEMMA BytesInGrow ==
    ASSUME NEW T, IsTrace(T), NEW k \in 1..Last(T), NEW t, NEW u, NonNeg(t), NonNeg(u)
    PROVE  /\ IsFraction(BytesIn(T, k, t))
           /\ t \prec u => BytesIn(T, k, t) \prec BytesIn(T, k, u)
           /\ Begin(T, k) \preceq t => Upto(T)[k - 1] \preceq BytesIn(T, k, t)
           /\ t \prec T.ends[k] => BytesIn(T, k, t) \prec Upto(T)[k]
<1> DEFINE B == Begin(T, k)
           U == Upto(T)[k - 1]
           r == T.rates[k]
<1>1. /\ IsFraction(B) /\ IsFraction(T.ends[k]) /\ Pos(r) /\ IsFraction(U)
      /\ IsFraction(t) /\ IsFraction(u)
  <2>1. k - 1 \in 0..Last(T)
    BY DEF IsTrace
  <2> QED BY <2>1, BeginsAre, UptoIs DEF IsTrace, NonNeg
<1>2. U \oplus SegmentBytes(T, k) = Upto(T)[k]
  BY UptoIs DEF IsUpto
<1>3. SegmentBytes(T, k) = (T.ends[k] \ominus B) \otimes r
  BY DEF SegmentBytes
<1>4. \A x : BytesIn(T, k, x) = U \oplus ((x \ominus B) \otimes r)
  BY DEF BytesIn
<1> HIDE DEF B, U, r
<1>5. ASSUME NEW x, NEW y, IsFraction(x), IsFraction(y)
      PROVE  /\ IsFraction(U \oplus ((x \ominus B) \otimes r))
             /\ x \prec y => (U \oplus ((x \ominus B) \otimes r)) \prec
                                 (U \oplus ((y \ominus B) \otimes r))
  <2>1. IsFraction(x \ominus B) /\ IsFraction(y \ominus B) /\ IsFraction(r)
    BY <1>1, <1>5, SumIsFraction DEF Pos
  <2>2. IsFraction((x \ominus B) \otimes r) /\ IsFraction((y \ominus B) \otimes r)
    BY <2>1, SumIsFraction
  <2>3. x \prec y => ((x \ominus B) \otimes r) \prec ((y \ominus B) \otimes r)
    BY <1>1, <1>5, <2>1, DifferenceIsMonotone, ProductIsMonotone
  <2> QED BY <1>1, <2>2, <2>3, SumIsFraction, SumIsStrict
<1>6. Begin(T, k) \preceq t => U \preceq (U \oplus ((t \ominus B) \otimes r))
  <2> SUFFICES ASSUME B \preceq t PROVE U \preceq (U \oplus ((t \ominus B) \otimes r))
    BY DEF B
  <2>1. NonNeg(t \ominus B)
    BY <1>1, DifferenceSigns
  <2>2. NonNeg((t \ominus B) \otimes r)
    BY <1>1, <2>1, PosIsNonNeg, ProductSigns
  <2> QED BY <1>1, <2>2, SumIsMore
<1> QED BY <1>1, <1>2, <1>3, <1>4, <1>5, <1>6 DEF U

LEMMA UptoGrows ==
    ASSUME NEW T, IsTrace(T), NEW i \in 0..Last(T), NEW j \in 0..Last(T), i <= j
    PROVE  Upto(T)[i] \preceq Upto(T)[j]
<1> DEFINE S == {k \in Nat : i + k <= Last(T) => Upto(T)[i] \preceq Upto(T)[i + k]}
<1>0. /\ Last(T) \in Nat /\ \A k \in 0..Last(T) : IsFraction(Upto(T)[k])
      /\ IsUpto(T, Upto(T))
  BY UptoIs DEF IsTrace, NonNeg
<1>1. 0 \in S
  BY <1>0, OrderLaws
<1>2. ASSUME NEW k \in Nat, k \in S PROVE k + 1 \in S
  <2> DEFINE l == i + k
  <2> SUFFICES ASSUME l + 1 <= Last(T) PROVE Upto(T)[i] \preceq Upto(T)[l + 1]
    OBVIOUS
  <2>1. l + 1 \in 1..Last(T) /\ l \in 0..Last(T) /\ (l + 1) - 1 = l
        /\ Upto(T)[i] \preceq Upto(T)[l]
    BY <1>0, <1>2
  <2> HIDE DEF l
  <2>2. Upto(T)[l + 1] = Upto(T)[l] \oplus SegmentBytes(T, l + 1)
    BY <1>0, <2>1 DEF IsUpto
  <2>3. Upto(T)[l] \preceq Upto(T)[l + 1]
    BY <1>0, <2>1, <2>2, SegmentBytesArePos, PosIsNonNeg, SumIsMore
  <2> QED BY <1>0, <2>1, <2>3, OrderLaws
<1> HIDE DEF S
<1>3. \A k \in Nat : k \in S
  BY <1>1, <1>2, SimpleInduction
<1>4. j - i \in Nat /\ i + (j - i) = j
  OBVIOUS
<1> QED BY <1>0, <1>3, <1>4 DEF S

(* The later, the more.                                                    *)
LEMMA BytesGrow ==
    ASSUME NEW T, IsTrace(T), NEW t, NEW u, NonNeg(t), NonNeg(u)
    PROVE  /\ IsFraction(Bytes(T, t)) /\ IsFraction(Bytes(T, u))
           /\ t \prec u <=> Bytes(T, t) \prec Bytes(T, u)
           /\ t \preceq u <=> Bytes(T, t) \preceq Bytes(T, u)
<1>1. ASSUME NEW x, NEW y, NonNeg(x), NonNeg(y), x \prec y
      PROVE  Bytes(T, x) \prec Bytes(T, y)
  <2> DEFINE i == Segment(T, x)
             j == Segment(T, y)
  <2>1. Holds(T, i, x) /\ Holds(T, j, y)
    BY <1>1, SegmentIs
  <2>2. Bytes(T, x) = BytesIn(T, i, x) /\ Bytes(T, y) = BytesIn(T, j, y)
    BY DEF Bytes
  <2> HIDE DEF i, j
  <2>3. /\ i \in 1..Last(T) /\ j \in 1..Last(T) /\ Last(T) \in Nat
        /\ IsFraction(x) /\ IsFraction(y)
        /\ IsFraction(T.ends[i]) /\ IsFraction(T.ends[j])
        /\ IsFraction(Begin(T, i)) /\ IsFraction(Begin(T, j))
    BY <1>1, <2>1, BeginsAre DEF Holds, IsTrace, NonNeg
  <2>4. CASE i = j
    BY <1>1, <2>2, <2>3, <2>4, BytesInGrow
  <2>5. CASE i < j
    <3>1. BytesIn(T, i, x) \prec Upto(T)[i]
      BY <1>1, <2>1, <2>3, <2>5, BytesInGrow DEF Holds
    <3>2. Upto(T)[j - 1] \preceq BytesIn(T, j, y)
      BY <1>1, <2>1, <2>3, <2>5, BytesInGrow DEF Holds
    <3>3. i \in 0..Last(T) /\ j - 1 \in 0..Last(T) /\ i <= j - 1
      BY <2>3, <2>5
    <3>4. Upto(T)[i] \preceq Upto(T)[j - 1]
      BY <3>3, UptoGrows
    <3>5. IsFraction(Upto(T)[i]) /\ IsFraction(Upto(T)[j - 1])
      BY <3>3, UptoIs DEF NonNeg
    <3>6. IsFraction(BytesIn(T, i, x)) /\ IsFraction(BytesIn(T, j, y))
      BY <1>1, <2>3, BytesInGrow
    <3>7. BytesIn(T, i, x) \prec Upto(T)[j - 1]
      BY <3>1, <3>4, <3>5, <3>6, OrderLaws
    <3> QED BY <2>2, <3>2, <3>5, <3>6, <3>7, OrderLaws
  <2>6. CASE j < i
    <3>1. y \prec T.ends[j] /\ Begin(T, i) \preceq x
      BY <2>1, <2>3, <2>6 DEF Holds
    <3>2. T.ends[j] \preceq Begin(T, i)
      BY <2>3, <2>6, EndsAreOrdered
    <3>3. y \prec Begin(T, i)
      BY <2>3, <3>1, <3>2, OrderLaws
    <3>4. y \prec x
      BY <2>3, <3>1, <3>3, OrderLaws
    <3> QED BY <1>1, <2>3, <3>4, OrderLaws
  <2> QED BY <2>3, <2>4, <2>5, <2>6
<1>2. ASSUME NEW x, NonNeg(x) PROVE IsFraction(Bytes(T, x))
  <2>1. Segment(T, x) \in 1..Last(T)
    BY <1>2, SegmentIs DEF Holds
  <2> QED BY <1>2, <2>1, BytesInGrow DEF Bytes
<1>3. /\ IsFraction(t) /\ IsFraction(u)
      /\ IsFraction(Bytes(T, t)) /\ IsFraction(Bytes(T, u))
  BY <1>2 DEF NonNeg
<1>4. /\ t \prec u => Bytes(T, t) \prec Bytes(T, u)
      /\ u \prec t => Bytes(T, u) \prec Bytes(T, t)
  BY <1>1
<1>5. t \prec u \/ t = u \/ u \prec t
  BY <1>3, OrderLaws
<1>6. CASE t \prec u
  BY <1>3, <1>4, <1>6, OrderLaws
<1>7. CASE t = u
  BY <1>3, <1>7, OrderLaws
<1>8. CASE u \prec t
  BY <1>3, <1>4, <1>8, OrderLaws
<1> QED BY <1>3, <1>5, <1>6, <1>7, <1>8

-----------------------------------------------------------------------------
(* The turns of SendTime's loop from segment first on.                     *)
Now(T, at, first, i) == IF i = first THEN at ELSE T.ends[i - 1]

Fits(T, at, first, i) == (T.ends[i] \ominus Now(T, at, first, i)) \otimes T.rates[i]

Lefts(T, at, b, first, f) ==
    [i \in first..Last(T) |-> IF i = first THEN b ELSE f[i - 1] \ominus Fits(T, at, first, i - 1)]

Left(T, at, b, first) == CHOOSE f : f = Lefts(T, at, b, first, f)

Finishes(T, at, b, first, i) ==
    /\ i = Last(T) \/ Left(T, at, b, first)[i] \preceq Fits(T, at, first, i)
    /\ \A j \in first..i - 1 : Fits(T, at, first, j) \prec Left(T, at, b, first)[j]

Finish(T, at, b, first) == CHOOSE i \in first..Last(T) : Finishes(T, at, b, first, i)

LEMMA SendTimeIs ==
    ASSUME NEW T, NEW at, NEW b
    PROVE  LET first == Segment(T, at)
               i == Finish(T, at, b, first)
           IN  SendTime(T, at, b) =
                   (Now(T, at, first, i) \oplus (Left(T, at, b, first)[i] \oslash T.rates[i]))
                       \ominus at
BY Zenon DEF SendTime, Finish, Finishes, Left, Lefts, Fits, Now

LEMMA LeftIs ==
    ASSUME NEW T, IsTrace(T), NEW at, NonNeg(at), NEW b, NonNeg(b), NEW first,
           first = Segment(T, at)
    PROVE  LET L == Left(T, at, b, first)
           IN  /\ L[first] = b
               /\ \A i \in first..Last(T) : IsFraction(L[i])
               /\ \A i \in first + 1..Last(T) : L[i] = L[i - 1] \ominus Fits(T, at, first, i - 1)
<1> DEFINE n == Last(T)
           G == [i \in first + 1..n |-> [x \in Fractions |-> x \ominus Fits(T, at, first, i - 1)]]
<1>1. first \in 1..n /\ n \in Nat
  BY SegmentIs DEF Holds, IsTrace
<1>2. ASSUME NEW i \in first..n PROVE IsFraction(Fits(T, at, first, i))
  <2>1. i \in 1..n /\ (i # first => i - 1 \in 1..n)
    BY <1>1
  <2>2. IsFraction(T.ends[i]) /\ IsFraction(Now(T, at, first, i)) /\ IsFraction(T.rates[i])
    BY <2>1 DEF IsTrace, Now, NonNeg, Pos
  <2> QED BY <2>2, SumIsFraction DEF Fits
<1>3. ASSUME NEW i \in first + 1..n, NEW x \in Fractions
      PROVE  /\ G[i][x] = x \ominus Fits(T, at, first, i - 1)
             /\ G[i][x] \in Fractions
  <2>1. i - 1 \in first..n
    BY <1>1
  <2>2. x \ominus Fits(T, at, first, i - 1) \in Fractions
    BY <1>2, <2>1, SumIsFraction, FractionsAre
  <2> QED BY <2>2
<1> HIDE DEF G, n
<1>4. \A i \in first + 1..n : \A x \in Fractions : G[i][x] \in Fractions
  BY <1>3
<1>5. first \in Int /\ n \in Int /\ first <= n /\ b \in Fractions
  BY <1>1, FractionsAre DEF NonNeg
<1>6. ASSUME NEW f, (f = Steps(first, n, b, G, f) /\ \A i \in first..n : f[i] \in Fractions)
      PROVE  f = Lefts(T, at, b, first, f)
  <2>1. ASSUME NEW i \in first..n
        PROVE  (IF i = first THEN b ELSE G[i][f[i - 1]]) =
                   (IF i = first THEN b ELSE f[i - 1] \ominus Fits(T, at, first, i - 1))
    <3>1. CASE i # first
      <4>1. i \in first + 1..n /\ i - 1 \in first..n
        BY <1>5, <3>1
      <4> QED BY <1>3, <1>6, <4>1
    <3> QED BY <3>1
  <2> QED BY <1>6, <2>1 DEF Steps, Lefts, n
<1>7. \E f : f = Steps(first, n, b, G, f) /\ \A i \in first..n : f[i] \in Fractions
  <2>1. ASSUME NEW m \in Int, m <= n, \A i \in m + 1..n : \A x \in Fractions : G[i][x] \in Fractions
        PROVE  \E f : f = Steps(m, n, b, G, f) /\ \A i \in m..n : f[i] \in Fractions
    <3>1. n \in Int /\ b \in Fractions
      BY <1>5
    <3> QED BY <2>1, <3>1, Recursion, Zenon
  <2> QED BY <1>4, <1>5, <2>1
<1>8. \E f : f = Lefts(T, at, b, first, f)
  BY <1>6, <1>7
<1> DEFINE L == Left(T, at, b, first)
<1>9. L = Lefts(T, at, b, first, L)
  BY <1>8, Zenon DEF Left
<1> HIDE DEF L
<1>10. L[first] = b
  BY <1>1, <1>9 DEF Lefts, n
<1>11. ASSUME NEW i \in first + 1..n PROVE L[i] = L[i - 1] \ominus Fits(T, at, first, i - 1)
  <2>1. i \in first..n /\ i # first
    BY <1>1
  <2> QED BY <1>9, <2>1 DEF Lefts, n
<1>12. \A i \in first..n : IsFraction(L[i])
  <2> DEFINE I == {k \in Nat : first + k <= n => IsFraction(L[first + k])}
  <2>1. 0 \in I
    BY <1>1, <1>10 DEF NonNeg
  <2>2. ASSUME NEW k \in Nat, k \in I PROVE k + 1 \in I
    <3> DEFINE l == first + k
    <3> SUFFICES ASSUME l + 1 <= n PROVE IsFraction(L[l + 1])
      BY <1>1
    <3>1. l + 1 \in first + 1..n /\ l \in first..n /\ (l + 1) - 1 = l /\ IsFraction(L[l])
      BY <1>1, <2>2
    <3> HIDE DEF l
    <3> QED BY <1>2, <1>11, <3>1, SumIsFraction
  <2> HIDE DEF I
  <2>3. \A k \in Nat : k \in I
    BY <2>1, <2>2, SimpleInduction
  <2>4. ASSUME NEW i \in first..n PROVE IsFraction(L[i])
    <3>1. i - first \in Nat /\ first + (i - first) = i
      BY <1>1
    <3> QED BY <2>3, <3>1 DEF I
  <2> QED BY <2>4
<1> QED BY <1>10, <1>11, <1>12 DEF L, n

LEMMA FinishIs ==
    ASSUME NEW T, IsTrace(T), NEW at, NonNeg(at), NEW b, NonNeg(b), NEW first,
           first = Segment(T, at)
    PROVE  /\ Finish(T, at, b, first) \in first..Last(T)
           /\ Finishes(T, at, b, first, Finish(T, at, b, first))
<1> DEFINE L == Left(T, at, b, first)
           F(i) == Fits(T, at, first, i)
           S == {i \in first..Last(T) : i = Last(T) \/ L[i] \preceq F(i)}
<1>1. first \in 1..Last(T) /\ Last(T) \in Nat
  BY SegmentIs DEF Holds, IsTrace
<1>2. Last(T) \in S /\ S \subseteq Nat
  BY <1>1
<1>3. PICK i \in S : \A j \in S : i <= j
  BY <1>2, LeastExists
<1>4. ASSUME NEW j \in first..i - 1 PROVE F(j) \prec L[j]
  <2>1. j \in first..Last(T) /\ j \notin S
    BY <1>1, <1>3
  <2>2. IsFraction(L[j])
    BY <2>1, LeftIs
  <2>3. IsFraction(F(j))
    <3>1. j \in 1..Last(T) /\ (j # first => j - 1 \in 1..Last(T))
      BY <1>1, <2>1
    <3>2. IsFraction(T.ends[j]) /\ IsFraction(Now(T, at, first, j)) /\ IsFraction(T.rates[j])
      BY <3>1 DEF IsTrace, Now, NonNeg, Pos
    <3> QED BY <3>2, SumIsFraction DEF Fits
  <2> QED BY <2>1, <2>2, <2>3, OrderLaws
<1>5. Finishes(T, at, b, first, i)
  BY <1>3, <1>4 DEF Finishes
<1> QED BY <1>3, <1>5, Zenon DEF Finish

-----------------------------------------------------------------------------
LEMMA BytesInSteps ==
    ASSUME NEW T, IsTrace(T), NEW k \in 1..Last(T), NEW x, NEW y, IsFraction(x), IsFraction(y)
    PROVE  BytesIn(T, k, x \oplus y) = BytesIn(T, k, x) \oplus (y \otimes T.rates[k])
<1> DEFINE U == Upto(T)[k - 1]
           B == Begin(T, k)
           r == T.rates[k]
<1>1. IsFraction(U) /\ IsFraction(B) /\ IsFraction(r)
  <2>1. k - 1 \in 0..Last(T)
    BY DEF IsTrace
  <2> QED BY <2>1, BeginsAre, UptoIs DEF IsTrace, NonNeg, Pos
<1>2. \A z : BytesIn(T, k, z) = U \oplus ((z \ominus B) \otimes r)
  BY DEF BytesIn
<1> HIDE DEF U, B
<1>3. (x \oplus y) \ominus B = (x \ominus B) \oplus y /\ IsFraction(x \ominus B)
  BY <1>1, SumAssociates, SumIsFraction
<1>4. ((x \ominus B) \oplus y) \otimes r = ((x \ominus B) \otimes r) \oplus (y \otimes r)
  BY <1>1, <1>3, ProductDistributes
<1>5. IsFraction((x \ominus B) \otimes r) /\ IsFraction(y \otimes r)
  BY <1>1, <1>3, SumIsFraction
<1> QED BY <1>1, <1>2, <1>3, <1>4, <1>5, SumAssociates

(* When segment k ends, all before it and its own bytes have been carried. *)
LEMMA BytesAtEnd ==
    ASSUME NEW T, IsTrace(T), NEW k \in 1..Last(T)
    PROVE  /\ BytesIn(T, k, T.ends[k]) = Upto(T)[k]
           /\ BytesIn(T, k, Begin(T, k)) = Upto(T)[k - 1]
<1>1. BytesIn(T, k, T.ends[k]) = Upto(T)[k]
  BY UptoIs DEF IsUpto, BytesIn, SegmentBytes
<1>2. IsFraction(Begin(T, k)) /\ IsFraction(T.rates[k]) /\ IsFraction(Upto(T)[k - 1])
  <2>1. k - 1 \in 0..Last(T)
    BY DEF IsTrace
  <2> QED BY <2>1, BeginsAre, UptoIs DEF IsTrace, NonNeg, Pos
<1> QED BY <1>1, <1>2, ZeroLaws DEF BytesIn

(* SendTime's loop never loses a byte: what segment i still has to send,   *)
(* and what the network had carried when it began to, are the same in sum. *)
LEMMA NoByteIsLost ==
    ASSUME NEW T, IsTrace(T), NEW at, NonNeg(at), NEW b, NonNeg(b), NEW first,
           first = Segment(T, at)
    PROVE  \A i \in first..Last(T) :
               BytesIn(T, i, Now(T, at, first, i)) \oplus Left(T, at, b, first)[i] =
                   Bytes(T, at) \oplus b
<1> DEFINE n == Last(T)
           L == Left(T, at, b, first)
           N(i) == Now(T, at, first, i)
           F(i) == Fits(T, at, first, i)
           all == Bytes(T, at) \oplus b
           I == {k \in Nat : first + k <= n =>
                    BytesIn(T, first + k, N(first + k)) \oplus L[first + k] = all}
<1>1. first \in 1..n /\ n \in Nat
  BY SegmentIs DEF Holds, IsTrace
<1>2. 0 \in I
  <2>1. BytesIn(T, first, N(first)) = Bytes(T, at) /\ L[first] = b /\ first + 0 = first
    BY <1>1, LeftIs DEF Now, Bytes
  <2> QED BY <2>1
<1>3. ASSUME NEW k \in Nat, k \in I PROVE k + 1 \in I
  <2> DEFINE l == first + k
  <2> SUFFICES ASSUME l + 1 <= n
               PROVE  BytesIn(T, l + 1, N(l + 1)) \oplus L[l + 1] = all
    BY <1>1
  <2>1. /\ l \in 1..n /\ l + 1 \in 1..n /\ l \in first..n /\ l + 1 \in first + 1..n
        /\ (l + 1) - 1 = l /\ l + 1 # first /\ l + 1 # 1
        /\ BytesIn(T, l, N(l)) \oplus L[l] = all
    BY <1>1, <1>3
  <2> HIDE DEF l, n, I, all
  <2>2. IsFraction(N(l)) /\ IsFraction(T.ends[l]) /\ IsFraction(T.rates[l]) /\ IsFraction(L[l])
    <3>1. l # first => l - 1 \in 1..n
      BY <1>1, <2>1
    <3> QED BY <2>1, <3>1, LeftIs DEF IsTrace, Now, NonNeg, Pos, n
  <2>3. N(l + 1) = T.ends[l] /\ Begin(T, l + 1) = T.ends[l]
    BY <2>1 DEF Now, Begin
  <2>4. L[l + 1] = L[l] \ominus F(l)
    BY <2>1, LeftIs DEF n
  <2>5. BytesIn(T, l + 1, T.ends[l]) = BytesIn(T, l, T.ends[l])
    BY <2>1, <2>3, BytesAtEnd DEF n
  <2>6. IsFraction(T.ends[l] \ominus N(l)) /\ F(l) = (T.ends[l] \ominus N(l)) \otimes T.rates[l]
    BY <2>2, SumIsFraction DEF Fits
  <2>7. N(l) \oplus (T.ends[l] \ominus N(l)) = T.ends[l]
    BY <2>2, DifferenceLaws
  <2>8. BytesIn(T, l, T.ends[l]) = BytesIn(T, l, N(l)) \oplus F(l)
    BY <2>1, <2>2, <2>6, <2>7, BytesInSteps DEF n
  <2>9. IsFraction(F(l)) /\ IsFraction(L[l] \ominus F(l)) /\ IsFraction(BytesIn(T, l, N(l)))
    <3>1. IsFraction(F(l))
      BY <2>2, <2>6, SumIsFraction
    <3>2. NonNeg(N(l))
      <4>1. l # first => l - 1 \in 1..n
        BY <1>1, <2>1
      <4> QED BY <4>1, BeginsAre DEF Now, n
    <3> QED BY <2>1, <2>2, <3>1, <3>2, SumIsFraction, BytesInGrow DEF n
  <2>10. (BytesIn(T, l, N(l)) \oplus F(l)) \oplus (L[l] \ominus F(l)) = BytesIn(T, l, N(l)) \oplus L[l]
    BY <2>2, <2>9, SumAssociates, DifferenceLaws
  <2> QED BY <2>1, <2>3, <2>4, <2>5, <2>8, <2>10
<1> HIDE DEF I
<1>4. \A k \in Nat : k \in I
  BY <1>2, <1>3, SimpleInduction
<1>5. ASSUME NEW i \in first..n PROVE BytesIn(T, i, N(i)) \oplus L[i] = all
  <2>1. i - first \in Nat /\ first + (i - first) = i
    BY <1>1
  <2> QED BY <1>4, <2>1 DEF I
<1> QED BY <1>5

(* What is sent arrives when the network has carried that many bytes more. *)
LEMMA SendCarries ==
    ASSUME NEW T, IsTrace(T), NEW at, NonNeg(at), NEW b, NonNeg(b)
    PROVE  LET took == SendTime(T, at, b)
           IN  /\ NonNeg(took) /\ NonNeg(at \oplus took) /\ (Pos(b) => Pos(took))
               /\ Bytes(T, at \oplus took) = Bytes(T, at) \oplus b
<1> DEFINE first == Segment(T, at)
           i == Finish(T, at, b, first)
           L == Left(T, at, b, first)
           N(j) == Now(T, at, first, j)
           F(k) == Fits(T, at, first, k)
           r == T.rates[i]
           X == N(i) \oplus (L[i] \oslash r)
           took == SendTime(T, at, b)
<1>0. took = X \ominus at
  BY SendTimeIs
<1>1. /\ first \in 1..Last(T) /\ Last(T) \in Nat /\ Begin(T, first) \preceq at
      /\ i \in first..Last(T) /\ Finishes(T, at, b, first, i)
  BY SegmentIs, FinishIs DEF Holds, IsTrace
<1>2. BytesIn(T, i, N(i)) \oplus L[i] = Bytes(T, at) \oplus b
  BY <1>1, NoByteIsLost
<1>3. /\ L[first] = b /\ IsFraction(L[i])
      /\ \A j \in first + 1..Last(T) : L[j] = L[j - 1] \ominus F(j - 1)
      /\ \A j \in first..Last(T) : IsFraction(L[j])
  BY <1>1, LeftIs
<1> HIDE DEF first, L, i, took
<1>4. ASSUME NEW j \in first..Last(T)
      PROVE  /\ NonNeg(N(j)) /\ IsFraction(F(j)) /\ Begin(T, j) \preceq N(j)
             /\ j \in 1..Last(T) /\ IsFraction(T.ends[j]) /\ Pos(T.rates[j])
  <2>1. j \in 1..Last(T) /\ (j # first => j - 1 \in 1..Last(T) /\ j # 1)
    BY <1>1
  <2>2. IsFraction(T.ends[j]) /\ NonNeg(N(j)) /\ Pos(T.rates[j])
    BY <2>1, BeginsAre DEF IsTrace, Now, NonNeg
  <2>3. IsFraction(F(j))
    BY <2>2, SumIsFraction DEF Fits, NonNeg, Pos
  <2>4. Begin(T, j) \preceq N(j)
    <3>1. CASE j = first
      BY <1>1, <3>1 DEF Now
    <3>2. CASE j # first
      <4>1. Begin(T, j) = T.ends[j - 1] /\ N(j) = T.ends[j - 1] /\ IsFraction(T.ends[j - 1])
        BY <2>1, <3>2 DEF Begin, Now, IsTrace
      <4> QED BY <4>1, OrderLaws
    <3> QED BY <3>1, <3>2
  <2> QED BY <2>1, <2>2, <2>3, <2>4
<1>5. NonNeg(N(i)) /\ Begin(T, i) \preceq N(i) /\ i \in 1..Last(T) /\ IsFraction(T.ends[i])
      /\ Pos(r) /\ IsFraction(F(i)) /\ IsFraction(N(i))
  BY <1>1, <1>4 DEF NonNeg
<1>6. NonNeg(L[i])
  <2>1. CASE i = first
    BY <1>3, <2>1
  <2>2. CASE i # first
    <3>1. i \in first + 1..Last(T) /\ i - 1 \in first..i - 1 /\ i - 1 \in first..Last(T)
      BY <1>1, <2>2
    <3>2. F(i - 1) \prec L[i - 1] /\ L[i] = L[i - 1] \ominus F(i - 1)
      BY <1>1, <1>3, <3>1 DEF Finishes, L
    <3>3. IsFraction(F(i - 1)) /\ IsFraction(L[i - 1])
      BY <1>3, <1>4, <3>1
    <3> QED BY <3>2, <3>3, DifferenceSigns, PosIsNonNeg
  <2> QED BY <2>1, <2>2
<1>7. NonNeg(L[i] \oslash r) /\ (L[i] \oslash r) \otimes r = L[i] /\ IsFraction(L[i] \oslash r)
  BY <1>3, <1>5, <1>6, QuotientSigns, QuotientCancels
<1>8. NonNeg(X) /\ N(i) \preceq X /\ IsFraction(X)
  BY <1>5, <1>7, SumSigns, SumIsMore DEF NonNeg
<1>9. Begin(T, i) \preceq X
  <2>1. IsFraction(Begin(T, i))
    BY <1>5, BeginsAre DEF NonNeg
  <2> QED BY <1>5, <1>8, <2>1, OrderLaws
<1>10. i = Last(T) \/ X \preceq T.ends[i]
  <2> SUFFICES ASSUME i # Last(T) PROVE X \preceq T.ends[i]
    OBVIOUS
  <2> DEFINE room == T.ends[i] \ominus N(i)
  <2>1. L[i] \preceq (room \otimes r)
    BY <1>1 DEF Finishes, Fits, L
  <2>2. IsFraction(room) /\ N(i) \oplus room = T.ends[i]
    BY <1>5, SumIsFraction, DifferenceLaws
  <2> HIDE DEF room
  <2>3. (L[i] \oslash r) \preceq room
    BY <1>5, <1>7, <2>1, <2>2, ProductIsMonotone
  <2>4. (N(i) \oplus (L[i] \oslash r)) \preceq (N(i) \oplus room)
    BY <1>5, <1>7, <2>2, <2>3, SumIsStrict
  <2> QED BY <2>2, <2>4
<1>11. Bytes(T, X) = BytesIn(T, i, X)
  BY <1>5, <1>8, <1>9, <1>10, BytesWithin
<1>12. BytesIn(T, i, X) = BytesIn(T, i, N(i)) \oplus L[i]
  BY <1>5, <1>7, BytesInSteps
<1>13. Bytes(T, X) = Bytes(T, at) \oplus b
  BY <1>2, <1>11, <1>12
<1>14. IsFraction(at) /\ IsFraction(b) /\ IsFraction(Bytes(T, at))
  BY BytesGrow DEF NonNeg
<1>15. at \oplus took = X
  BY <1>0, <1>8, <1>14, DifferenceLaws
<1>16. at \preceq X /\ (Pos(b) => at \prec X)
  <2>1. Bytes(T, at) \preceq Bytes(T, X) /\ (Pos(b) => Bytes(T, at) \prec Bytes(T, X))
    BY <1>13, <1>14, SumIsMore
  <2> QED BY <1>8, <2>1, BytesGrow
<1>17. NonNeg(took) /\ (Pos(b) => Pos(took))
  BY <1>0, <1>8, <1>14, <1>16, DifferenceSigns
<1> HIDE DEF X
<1> QED BY <1>8, <1>13, <1>15, <1>17 DEF took

-----------------------------------------------------------------------------
(* The trace of any rows that FromRows accepts.                            *)
Ends(f, end) == [i \in 0..Len(f) |-> IF i = 0 THEN Zero ELSE end[i - 1] \oplus f[i].seconds]

LEMMA FromRowsIs ==
    ASSUME NEW f
    PROVE  LET end == CHOOSE e : e = Ends(f, e)
           IN  FromRows(f) = [ends  |-> [i \in DOMAIN f |-> end[i]],
                              rates |-> [i \in DOMAIN f |-> f[i].bytes \oslash f[i].seconds]]
BY Zenon DEF FromRows, Ends

LEMMA TraceIsGood == ASSUME RowsInv PROVE IsTrace(FromRows(rows))
<1> DEFINE n == Len(rows)
           T == FromRows(rows)
           G == [i \in 1..n |-> [x \in Fractions |-> x \oplus rows[i].seconds]]
           end == CHOOSE e : e = Ends(rows, e)
<1>1. n \in Nat \ {0} /\ DOMAIN rows = 1..n
  BY DEF RowsInv, IsFile, ValidRows
<1>2. ASSUME NEW i \in 1..n, NEW x \in Fractions
      PROVE  G[i][x] = x \oplus rows[i].seconds /\ G[i][x] \in Fractions
  <2>1. x \oplus rows[i].seconds \in Fractions
    BY RowsArePos, SumIsFraction, FractionsAre DEF Pos
  <2> QED BY <2>1
<1> HIDE DEF G, n
<1>3. \E e : e = Steps(0, n, Zero, G, e) /\ \A i \in 0..n : e[i] \in Fractions
  <2>1. 0 \in Int /\ n \in Int /\ 0 <= n /\ Zero \in Fractions
    BY <1>1, OneIsPos, FractionsAre
  <2>2. \A i \in 0 + 1..n : \A x \in Fractions : G[i][x] \in Fractions
    BY <1>2
  <2> QED BY <2>1, <2>2, Recursion, Zenon
<1>4. ASSUME NEW e, (e = Steps(0, n, Zero, G, e) /\ \A i \in 0..n : e[i] \in Fractions)
      PROVE  e = Ends(rows, e)
  <2>1. ASSUME NEW i \in 0..n
        PROVE  (IF i = 0 THEN Zero ELSE G[i][e[i - 1]]) =
                   (IF i = 0 THEN Zero ELSE e[i - 1] \oplus rows[i].seconds)
    <3>1. CASE i # 0
      <4>1. i \in 1..n /\ i - 1 \in 0..n
        BY <1>1, <3>1
      <4> QED BY <1>2, <1>4, <4>1
    <3> QED BY <3>1
  <2> QED BY <1>4, <2>1 DEF Steps, Ends, n
<1>5. end = Ends(rows, end)
  <2>1. \E e : e = Ends(rows, e)
    BY <1>3, <1>4
  <2> QED BY <2>1, Zenon
<1>6. T = [ends  |-> [i \in DOMAIN rows |-> end[i]],
           rates |-> [i \in DOMAIN rows |-> rows[i].bytes \oslash rows[i].seconds]]
  BY FromRowsIs
<1> HIDE DEF end, T
<1>7. end[0] = Zero /\ \A i \in 1..n : end[i] = end[i - 1] \oplus rows[i].seconds
  BY <1>1, <1>5 DEF Ends, n
<1>8. \A i \in 0..n : IsFraction(end[i])
  <2> DEFINE I == {k \in Nat : k <= n => IsFraction(end[k])}
  <2>1. 0 \in I
    BY <1>7, OneIsPos
  <2>2. ASSUME NEW k \in Nat, k \in I PROVE k + 1 \in I
    <3> SUFFICES ASSUME k + 1 <= n PROVE IsFraction(end[k + 1])
      OBVIOUS
    <3>1. k + 1 \in 1..n /\ (k + 1) - 1 = k /\ IsFraction(end[k])
      BY <1>1, <2>2
    <3> QED BY <1>7, <3>1, RowsArePos, SumIsFraction DEF Pos, n
  <2> HIDE DEF I
  <2>3. \A k \in Nat : k \in I
    BY <2>1, <2>2, SimpleInduction
  <2> QED BY <1>1, <2>3 DEF I
<1>9. Last(T) = n
  <2>1. T.ends = [i \in 1..n |-> end[i]]
    BY <1>1, <1>6
  <2> QED BY <1>1, <2>1 DEF Last
<1>10. ASSUME NEW i \in 1..n
       PROVE  IsFraction(T.ends[i]) /\ Pos(T.rates[i]) /\ Begin(T, i) \prec T.ends[i]
  <2>1. T.ends[i] = end[i] /\ T.rates[i] = rows[i].bytes \oslash rows[i].seconds
    BY <1>1, <1>6
  <2>2. Begin(T, i) = end[i - 1]
    <3>1. CASE i = 1
      BY <1>7, <3>1 DEF Begin
    <3>2. CASE i # 1
      <4>1. i - 1 \in 1..n
        BY <1>1, <3>2
      <4>2. T.ends[i - 1] = end[i - 1]
        BY <1>1, <1>6, <4>1
      <4> QED BY <3>2, <4>2 DEF Begin
    <3> QED BY <3>1, <3>2
  <2>3. Pos(rows[i].bytes) /\ Pos(rows[i].seconds)
    BY RowsArePos DEF n
  <2>4. i \in 0..n /\ i - 1 \in 0..n
    BY <1>1
  <2>5. end[i - 1] \prec end[i]
    BY <1>7, <1>8, <2>3, <2>4, SumIsMore
  <2>6. Pos(rows[i].bytes \oslash rows[i].seconds)
    BY <2>3, PosIsNonNeg, QuotientSigns
  <2> QED BY <1>8, <2>1, <2>2, <2>4, <2>5, <2>6
<1>11. IsTrace(T)
  BY <1>1, <1>9, <1>10 DEF IsTrace
<1> QED BY <1>11 DEF T

-----------------------------------------------------------------------------
(* Of two sends the one that starts later arrives later.                   *)
LEMMA FirstInFirstOut ==
    ASSUME NEW T, IsTrace(T), NEW t, NEW u, NonNeg(t), NonNeg(u), t \preceq u, NEW b, NonNeg(b)
    PROVE  (t \oplus SendTime(T, t, b)) \preceq (u \oplus SendTime(T, u, b))
<1> DEFINE x == t \oplus SendTime(T, t, b)
           y == u \oplus SendTime(T, u, b)
<1>1. /\ NonNeg(x) /\ Bytes(T, x) = Bytes(T, t) \oplus b
      /\ NonNeg(y) /\ Bytes(T, y) = Bytes(T, u) \oplus b
  BY SendCarries
<1> HIDE DEF x, y
<1>2. /\ IsFraction(Bytes(T, t)) /\ IsFraction(Bytes(T, u)) /\ IsFraction(b)
      /\ Bytes(T, t) \preceq Bytes(T, u)
  BY BytesGrow DEF NonNeg
<1>3. b \preceq b
  BY <1>2, OrderLaws
<1>4. Bytes(T, x) \preceq Bytes(T, y)
  BY <1>1, <1>2, <1>3, SumIsMonotone
<1>5. x \preceq y
  BY <1>1, <1>4, BytesGrow
<1> QED BY <1>5 DEF x, y

LEMMA WholeOneMore ==
    ASSUME NEW k \in Int, NEW x, IsFraction(x)
    PROVE  Whole(k + 1) \otimes x = (Whole(k) \otimes x) \oplus x
<1>1. PICK n \in Int, d \in Nat : d > 0 /\ Is(x, n, d)
  BY IsItself, FractionType
<1>2. Is(Whole(k), k * 1, 1) /\ Is(Whole(k + 1), (k + 1) * 1, 1)
  BY WholeIs
<1>3. /\ Is(Whole(k) \otimes x, (k * 1) * n, 1 * d)
      /\ Is(Whole(k + 1) \otimes x, ((k + 1) * 1) * n, 1 * d)
  BY <1>1, <1>2, IsProduct
<1>4. Is(Whole(k) \otimes x, k * n, d) /\ Is(Whole(k + 1) \otimes x, k * n + n, d)
  <2>1. (k * 1) * n = k * n /\ 1 * d = d /\ ((k + 1) * 1) * n = k * n + n
    BY <1>1
  <2> QED BY <1>3, <2>1
<1>5. Is((Whole(k) \otimes x) \oplus x, k * n + n, d)
  BY <1>1, <1>4, IsSum
<1> QED BY <1>4, <1>5, IsUnique

LEMMA WholeNone == ASSUME NEW x, IsFraction(x) PROVE Whole(0) \otimes x = Zero
BY ZeroLaws DEF Zero

LEMMA WholeIsNonNeg ==
    ASSUME NEW k \in Nat, NEW x, NonNeg(x) PROVE NonNeg(Whole(k) \otimes x)
<1>1. Is(Whole(k), k * 1, 1)
  BY WholeIs
<1>2. NonNeg(Whole(k))
  BY <1>1, SignIs
<1> QED BY <1>2, ProductSigns

LEMMA LesserIs ==
    ASSUME NEW x, NEW y, IsFraction(x), IsFraction(y)
    PROVE  /\ Lesser(x, y) \in {x, y} /\ Lesser(x, y) \preceq x /\ Lesser(x, y) \preceq y
           /\ Greater(x, y) \in {x, y} /\ x \preceq Greater(x, y) /\ y \preceq Greater(x, y)
BY OrderLaws DEF Lesser, Greater

-----------------------------------------------------------------------------
(* The loads. *)
LEMMA LoadIsPos ==
    /\ Pos(ChunkBytes) /\ NonNeg(ChunkBytes) /\ IsFraction(ChunkBytes)
    /\ Pos(ChunkCompute) /\ NonNeg(ChunkCompute) /\ IsFraction(ChunkCompute)
    /\ Pos(Interval) /\ NonNeg(Interval)
<1>1. Pos(ChunkBytes) /\ Pos(ChunkCompute) /\ Pos(Interval)
  BY LoadAssumption DEF Pos
<1> QED BY <1>1, PosIsNonNeg

(* The most that the network had carried before a loader has done n of the *)
(* chunks, and when it had recomputed n of them.                           *)
CarriedAfter(n) == Bytes(tr, start) \oplus (Whole(n) \otimes ChunkBytes)
ComputedAfter(n) == start \oplus (Whole(n) \otimes ChunkCompute)

(* The oracle has not needed longer than by loading every chunk, nor than  *)
(* by recomputing every one; and it has only loaded some chunks, m of them, *)
(* and recomputed the others.                                              *)
TimesInv == tr = FromRows(rows) /\ NonNeg(start) /\ NonNeg(now) /\ NonNeg(ideal) /\ done \in Nat

OracleInv ==
    /\ ideal \preceq now
    /\ Bytes(tr, ideal) \preceq CarriedAfter(done)
    /\ ideal \preceq ComputedAfter(done)

SplitInv ==
    \E m \in 0..done :
        CarriedAfter(m) \preceq Bytes(tr, ideal) /\ ComputedAfter(done - m) \preceq ideal

LoadsInv == RowsInv /\ TimesInv /\ OracleInv /\ SplitInv

(* With no chunk done.                                                     *)
LEMMA NoneIsDone ==
    ASSUME NEW T, IsTrace(T), NEW s, NonNeg(s)
    PROVE  /\ Bytes(T, s) \oplus (Whole(0) \otimes ChunkBytes) = Bytes(T, s)
           /\ s \oplus (Whole(0) \otimes ChunkCompute) = s
           /\ s \preceq s /\ Bytes(T, s) \preceq Bytes(T, s)
<1>1. IsFraction(s) /\ IsFraction(Bytes(T, s))
  BY BytesGrow DEF NonNeg
<1> QED BY <1>1, LoadIsPos, WholeNone, ZeroLaws, OrderLaws

LEMMA InitLoads == AInit => LoadsInv
<1> SUFFICES ASSUME AInit PROVE LoadsInv
  OBVIOUS
<1>1. PICK files \in {ReplayFiles, LoadSimFiles} : LInit(files)
  BY DEF AInit
<1>2. rows \in ReplayFiles \cup LoadSimFiles /\ ValidRows(rows)
  BY <1>1 DEF LInit
<1>3. RowsInv
  BY <1>2, FilesAssumption DEF RowsInv
<1>4. TimesInv /\ ideal = start /\ now = start /\ done = 0
  BY <1>1, OneIsPos DEF LInit, TimesInv
<1>5. IsTrace(tr) /\ NonNeg(start) /\ 0 \in 0..0 /\ 0 - 0 = 0
  BY <1>3, <1>4, TraceIsGood DEF TimesInv
<1>6. OracleInv /\ SplitInv
  BY <1>4, <1>5, NoneIsDone DEF OracleInv, SplitInv, CarriedAfter, ComputedAfter
<1> QED BY <1>3, <1>4, <1>6 DEF LoadsInv

LEMMA OneMoreChunk ==
    ASSUME TimesInv, RowsInv, NEW n \in Int
    PROVE  /\ CarriedAfter(n + 1) = CarriedAfter(n) \oplus ChunkBytes
           /\ ComputedAfter(n + 1) = ComputedAfter(n) \oplus ChunkCompute
           /\ IsFraction(CarriedAfter(n)) /\ IsFraction(ComputedAfter(n))
<1>1. IsTrace(tr)
  BY TraceIsGood DEF TimesInv
<1>2. IsFraction(start) /\ IsFraction(Bytes(tr, start))
  BY <1>1, BytesGrow DEF TimesInv, NonNeg
<1>3. IsFraction(Whole(n) \otimes ChunkBytes) /\ IsFraction(Whole(n) \otimes ChunkCompute)
  BY LoadIsPos, WholeIsFraction, SumIsFraction
<1> QED BY <1>2, <1>3, LoadIsPos, WholeOneMore, SumAssociates, SumIsFraction
        DEF CarriedAfter, ComputedAfter

LEMMA ChunkTimes ==
    ASSUME LoadsInv, NEW load \in BOOLEAN, Chunk(load)
    PROVE  /\ NonNeg(now') /\ NonNeg(ideal') /\ ideal' \preceq now'
           /\ now' \in {now \oplus ChunkSendTime(now), now \oplus ChunkCompute}
           /\ ideal' \in {ideal \oplus ChunkSendTime(ideal), ideal \oplus ChunkCompute}
           /\ ideal' \preceq (ideal \oplus ChunkSendTime(ideal))
           /\ ideal' \preceq (ideal \oplus ChunkCompute)
           /\ ideal \preceq ideal'
<1> DEFINE s == ChunkSendTime(ideal)
           w == ChunkSendTime(now)
<1>1. IsTrace(tr) /\ NonNeg(ideal) /\ NonNeg(now) /\ ideal \preceq now
  BY TraceIsGood DEF LoadsInv, TimesInv, OracleInv
<1>2. /\ NonNeg(s) /\ NonNeg(ideal \oplus s)
      /\ NonNeg(w) /\ NonNeg(now \oplus w)
  BY <1>1, LoadIsPos, SendCarries DEF ChunkSendTime
<1>3. (ideal \oplus s) \preceq (now \oplus w)
  BY <1>1, LoadIsPos, FirstInFirstOut DEF ChunkSendTime
<1>4. ideal' = ideal \oplus Lesser(s, ChunkCompute)
  BY DEF Chunk, OracleChunk
<1>5. now' = now \oplus w \/ now' = now \oplus ChunkCompute
  BY DEF Chunk, LoadChunk, RecomputeChunk
<1> HIDE DEF s, w
<1>6. /\ IsFraction(ideal) /\ IsFraction(now) /\ IsFraction(s) /\ IsFraction(w)
      /\ IsFraction(ChunkCompute) /\ NonNeg(ChunkCompute)
  BY <1>1, <1>2, LoadIsPos DEF NonNeg
<1>7. /\ Lesser(s, ChunkCompute) \in {s, ChunkCompute}
      /\ Lesser(s, ChunkCompute) \preceq s /\ Lesser(s, ChunkCompute) \preceq ChunkCompute
  BY <1>6, LesserIs
<1>8. /\ ideal' \in {ideal \oplus s, ideal \oplus ChunkCompute}
      /\ ideal' \preceq (ideal \oplus s) /\ ideal' \preceq (ideal \oplus ChunkCompute)
  BY <1>4, <1>6, <1>7, SumIsStrict
<1>9. NonNeg(ideal \oplus ChunkCompute) /\ NonNeg(now \oplus ChunkCompute)
  BY <1>1, <1>6, SumSigns
<1>10. (ideal \oplus ChunkCompute) \preceq (now \oplus ChunkCompute)
  BY <1>1, <1>6, OrderLaws, SumIsMonotone
<1>11. ideal \preceq (ideal \oplus s) /\ ideal \preceq (ideal \oplus ChunkCompute)
  BY <1>2, <1>6, SumIsMore
<1>12. NonNeg(ideal') /\ NonNeg(now') /\ ideal \preceq ideal'
  BY <1>2, <1>5, <1>8, <1>9, <1>11
<1>13. ideal' \preceq now'
  BY <1>2, <1>3, <1>5, <1>8, <1>9, <1>10, <1>12, OrderLaws DEF NonNeg
<1> QED BY <1>5, <1>8, <1>12, <1>13 DEF s, w

LEMMA ChunkKeepsLoads ==
    ASSUME LoadsInv, NEW load \in BOOLEAN, Chunk(load) PROVE LoadsInv'
<1>1. tr' = tr /\ start' = start /\ rows' = rows /\ done' = done + 1
  BY DEF Chunk
<1>2. IsTrace(tr) /\ NonNeg(ideal) /\ NonNeg(now) /\ NonNeg(start) /\ done \in Nat
  BY TraceIsGood DEF LoadsInv, TimesInv
<1>3. RowsInv' /\ TimesInv'
  BY <1>1, ChunkTimes DEF LoadsInv, RowsInv, TimesInv
<1>4. \A n : CarriedAfter(n)' = CarriedAfter(n) /\ ComputedAfter(n)' = ComputedAfter(n)
  BY <1>1 DEF CarriedAfter, ComputedAfter
<1>5. \A n \in Int : /\ CarriedAfter(n + 1) = CarriedAfter(n) \oplus ChunkBytes
                     /\ ComputedAfter(n + 1) = ComputedAfter(n) \oplus ChunkCompute
                     /\ IsFraction(CarriedAfter(n)) /\ IsFraction(ComputedAfter(n))
  BY OneMoreChunk DEF LoadsInv
<1> DEFINE x == ideal \oplus ChunkSendTime(ideal)
<1>6. NonNeg(x) /\ Bytes(tr, x) = Bytes(tr, ideal) \oplus ChunkBytes
  BY <1>2, LoadIsPos, SendCarries DEF ChunkSendTime
<1>7. /\ NonNeg(ideal') /\ ideal' \preceq now' /\ ideal \preceq ideal'
      /\ ideal' \in {x, ideal \oplus ChunkCompute}
      /\ ideal' \preceq x /\ ideal' \preceq (ideal \oplus ChunkCompute)
  BY ChunkTimes
<1> HIDE DEF x
<1>8. /\ IsFraction(Bytes(tr, ideal)) /\ IsFraction(Bytes(tr, ideal')) /\ IsFraction(Bytes(tr, x))
      /\ IsFraction(ideal) /\ IsFraction(ideal')
      /\ Bytes(tr, ideal') \preceq Bytes(tr, x) /\ Bytes(tr, ideal) \preceq Bytes(tr, ideal')
      /\ IsFraction(ChunkBytes) /\ IsFraction(ChunkCompute)
      /\ ChunkBytes \preceq ChunkBytes /\ ChunkCompute \preceq ChunkCompute
  BY <1>2, <1>6, <1>7, BytesGrow, LoadIsPos, OrderLaws DEF NonNeg
<1>9. OracleInv'
  <2>1. Bytes(tr, ideal) \preceq CarriedAfter(done) /\ ideal \preceq ComputedAfter(done)
    BY DEF LoadsInv, OracleInv
  <2>2. /\ (Bytes(tr, ideal) \oplus ChunkBytes) \preceq CarriedAfter(done + 1)
        /\ (ideal \oplus ChunkCompute) \preceq ComputedAfter(done + 1)
    BY <1>2, <1>5, <1>8, <2>1, SumIsMonotone
  <2>3. IsFraction(CarriedAfter(done + 1)) /\ IsFraction(ComputedAfter(done + 1))
        /\ IsFraction(ideal \oplus ChunkCompute)
    BY <1>2, <1>5, <1>8, SumIsFraction
  <2>4. Bytes(tr, ideal') \preceq CarriedAfter(done + 1)
    BY <1>6, <1>8, <2>2, <2>3, OrderLaws
  <2>5. ideal' \preceq ComputedAfter(done + 1)
    BY <1>7, <1>8, <2>2, <2>3, OrderLaws
  <2> QED BY <1>1, <1>4, <1>7, <2>4, <2>5 DEF OracleInv
<1>10. SplitInv'
  <2>1. PICK m \in 0..done :
            CarriedAfter(m) \preceq Bytes(tr, ideal) /\ ComputedAfter(done - m) \preceq ideal
    BY DEF LoadsInv, SplitInv
  <2>2. ASSUME ideal' = x
       PROVE  \E k \in 0..done + 1 :
                  /\ CarriedAfter(k) \preceq Bytes(tr, ideal')
                  /\ ComputedAfter(done + 1 - k) \preceq ideal'
    <3>1. m + 1 \in 0..done + 1 /\ done + 1 - (m + 1) = done - m /\ done - m \in Int /\ m \in Int
      BY <1>2
    <3>2. CarriedAfter(m + 1) \preceq Bytes(tr, ideal')
      BY <1>5, <1>6, <1>8, <2>1, <2>2, <3>1, SumIsMonotone
    <3>3. ComputedAfter(done - m) \preceq ideal'
      BY <1>5, <1>7, <1>8, <2>1, <3>1, OrderLaws
    <3> QED BY <3>1, <3>2, <3>3
  <2>3. ASSUME ideal' = ideal \oplus ChunkCompute
       PROVE  \E k \in 0..done + 1 :
                  /\ CarriedAfter(k) \preceq Bytes(tr, ideal')
                  /\ ComputedAfter(done + 1 - k) \preceq ideal'
    <3>1. m \in 0..done + 1 /\ done + 1 - m = (done - m) + 1 /\ done - m \in Int /\ m \in Int
      BY <1>2
    <3>2. CarriedAfter(m) \preceq Bytes(tr, ideal')
      BY <1>5, <1>8, <2>1, <3>1, OrderLaws
    <3>3. ComputedAfter((done - m) + 1) \preceq ideal'
      BY <1>5, <1>8, <2>1, <2>3, <3>1, SumIsMonotone
    <3> QED BY <3>1, <3>2, <3>3
  <2>4. PICK k \in 0..done + 1 :
            /\ CarriedAfter(k) \preceq Bytes(tr, ideal')
            /\ ComputedAfter(done + 1 - k) \preceq ideal'
    BY <1>7, <2>2, <2>3
  <2>5. done' - k = done + 1 - k /\ k \in 0..done'
    BY <1>1, <1>2
  <2>6. CarriedAfter(k)' \preceq Bytes(tr', ideal')
    BY <1>1, <2>4 DEF CarriedAfter
  <2>7. ComputedAfter(done - k)' \preceq ideal'
    BY <1>1, <2>4, <2>5 DEF ComputedAfter
  <2> QED BY <2>5, <2>6, <2>7 DEF SplitInv
<1> QED BY <1>3, <1>9, <1>10 DEF LoadsInv

LEMMA NextLoadKeepsLoads == ASSUME LoadsInv, NextLoad PROVE LoadsInv'
<1>1. /\ rows' = rows /\ tr' = tr /\ start' = start \oplus Interval /\ now' = start'
      /\ ideal' = start' /\ done' = 0
  BY DEF NextLoad
<1>2. RowsInv'
  BY <1>1 DEF LoadsInv, RowsInv
<1>3. NonNeg(start')
  BY <1>1, LoadIsPos, SumSigns DEF LoadsInv, TimesInv
<1>4. TimesInv'
  BY <1>1, <1>3 DEF LoadsInv, TimesInv
<1>5. IsTrace(tr') /\ NonNeg(start') /\ 0 \in 0..0 /\ 0 - 0 = 0
  BY <1>1, <1>3, TraceIsGood DEF LoadsInv, TimesInv
<1>6. OracleInv'
  BY <1>1, <1>5, NoneIsDone DEF OracleInv, CarriedAfter, ComputedAfter
<1>7. SplitInv'
  BY <1>1, <1>5, NoneIsDone DEF SplitInv, CarriedAfter, ComputedAfter
<1> QED BY <1>2, <1>4, <1>6, <1>7 DEF LoadsInv

LEMMA LoadsStep == LoadsInv /\ [ANext]_avars => LoadsInv'
<1> SUFFICES ASSUME LoadsInv, [ANext]_avars PROVE LoadsInv'
  OBVIOUS
<1>1. CASE \E load \in BOOLEAN : Chunk(load)
  BY <1>1, ChunkKeepsLoads
<1>2. CASE NextLoad
  BY <1>2, NextLoadKeepsLoads
<1>3. CASE UNCHANGED <<rows, loadvars>>
  BY <1>3 DEF loadvars, LoadsInv, RowsInv, TimesInv, OracleInv, SplitInv,
              CarriedAfter, ComputedAfter
<1> QED BY <1>1, <1>2, <1>3 DEF ANext, Replays, ReplayRow, Loads, LNext, avars

LEMMA LoadsAreInvariant == ASpec => []LoadsInv
BY InitLoads, LoadsStep, PTL DEF ASpec

(* What is left of a time that a send takes, or a load, without its start. *)
LEMMA FromStart ==
    ASSUME NEW x, NEW y, NEW s, IsFraction(x), IsFraction(y), IsFraction(s), x \preceq (s \oplus y)
    PROVE  (x \ominus s) \preceq y
<1>1. IsFraction(s \oplus y) /\ (s \oplus y) \ominus s = y
  BY SumIsFraction, DifferenceLaws
<1> QED BY <1>1, DifferenceIsMonotone

(* What is best for each chunk is best for the whole load.                 *)
THEOREM OracleWins == ASpec => []OracleIsBest
<1>1. LoadsInv => OracleIsBest
  <2> SUFFICES ASSUME LoadsInv PROVE OracleIsBest
    OBVIOUS
  <2>1. ideal \preceq now
    BY DEF LoadsInv, OracleInv
  <2>2. ASSUME done = Chunks PROVE (ideal \ominus start) \preceq FixedLoad(start)
    <3> DEFINE b == Whole(Chunks) \otimes ChunkBytes
               took == SendTime(tr, start, b)
    <3>1. IsTrace(tr) /\ NonNeg(start) /\ NonNeg(ideal)
      BY TraceIsGood DEF LoadsInv, TimesInv
    <3>2. NonNeg(b)
      BY LoadIsPos, ChunksAssumption, WholeIsNonNeg
    <3>3. /\ NonNeg(took) /\ NonNeg(start \oplus took)
          /\ Bytes(tr, start \oplus took) = Bytes(tr, start) \oplus b
      BY <3>1, <3>2, SendCarries
    <3>4. Bytes(tr, ideal) \preceq (Bytes(tr, start) \oplus b)
      BY <2>2 DEF LoadsInv, OracleInv, CarriedAfter
    <3> HIDE DEF b, took
    <3>5. ideal \preceq (start \oplus took)
      BY <3>1, <3>3, <3>4, BytesGrow
    <3>6. (ideal \ominus start) \preceq took
      BY <3>1, <3>3, <3>5, FromStart DEF NonNeg
    <3> QED BY <3>6 DEF FixedLoad, took, b
  <2>3. ASSUME done = Chunks PROVE (ideal \ominus start) \preceq FixedRecompute
    <3>1. ideal \preceq (start \oplus FixedRecompute)
      BY <2>3 DEF LoadsInv, OracleInv, ComputedAfter, FixedRecompute
    <3>2. IsFraction(ideal) /\ IsFraction(start)
      BY DEF LoadsInv, TimesInv, NonNeg
    <3>3. IsFraction(FixedRecompute)
      BY LoadIsPos, ChunksAssumption, WholeIsNonNeg DEF FixedRecompute, NonNeg
    <3> QED BY <3>1, <3>2, <3>3, FromStart
  <2> QED BY <2>1, <2>2, <2>3 DEF OracleIsBest
<1> QED BY <1>1, LoadsAreInvariant, PTL

-----------------------------------------------------------------------------
(* Cake. *)
Timed == RowsInv /\ TimesInv

LEMMA TimedHas ==
    ASSUME Timed
    PROVE  /\ IsTrace(tr) /\ NonNeg(start) /\ IsFraction(start)
           /\ \A n \in Int : IsFraction(CarriedAfter(n)) /\ IsFraction(ComputedAfter(n))
<1>1. IsTrace(tr) /\ NonNeg(start) /\ IsFraction(start)
  BY TraceIsGood DEF Timed, TimesInv, NonNeg
<1> QED BY <1>1, OneMoreChunk DEF Timed

LEMMA AfterGrows ==
    ASSUME Timed, NEW i \in Int, NEW j \in Int, i <= j
    PROVE  CarriedAfter(i) \preceq CarriedAfter(j) /\ ComputedAfter(i) \preceq ComputedAfter(j)
<1> DEFINE S == {k \in Nat : /\ CarriedAfter(i) \preceq CarriedAfter(i + k)
                             /\ ComputedAfter(i) \preceq ComputedAfter(i + k)}
<1>0. \A n \in Int : IsFraction(CarriedAfter(n)) /\ IsFraction(ComputedAfter(n))
  BY TimedHas
<1>1. 0 \in S
  BY <1>0, OrderLaws
<1>2. ASSUME NEW k \in Nat, k \in S PROVE k + 1 \in S
  <2> DEFINE l == i + k
  <2>1. /\ l \in Int /\ i + (k + 1) = l + 1
        /\ CarriedAfter(i) \preceq CarriedAfter(l) /\ ComputedAfter(i) \preceq ComputedAfter(l)
    BY <1>2
  <2> HIDE DEF l
  <2>2. /\ CarriedAfter(l + 1) = CarriedAfter(l) \oplus ChunkBytes
        /\ ComputedAfter(l + 1) = ComputedAfter(l) \oplus ChunkCompute
    BY <2>1, OneMoreChunk DEF Timed
  <2>3. /\ CarriedAfter(l) \preceq CarriedAfter(l + 1)
        /\ ComputedAfter(l) \preceq ComputedAfter(l + 1)
    BY <1>0, <2>1, <2>2, LoadIsPos, SumIsMore
  <2> QED BY <1>0, <2>1, <2>3, OrderLaws
<1> HIDE DEF S
<1>3. \A k \in Nat : k \in S
  BY <1>1, <1>2, SimpleInduction
<1>4. j - i \in Nat /\ i + (j - i) = j
  OBVIOUS
<1> QED BY <1>3, <1>4 DEF S

(* The turns of LoadedBy: n chunks one after another, all of them loaded.  *)
LoadedTurns(n, f) ==
    [i \in 0..n |-> IF i = 0 THEN start ELSE f[i - 1] \oplus ChunkSendTime(f[i - 1])]

LEMMA LoadedByIs ==
    ASSUME NEW n
    PROVE  LET f == CHOOSE f : f = LoadedTurns(n, f) IN LoadedBy(n) = f[n] \ominus start
BY Zenon DEF LoadedBy, LoadedTurns

LEMMA SendOfAChunk ==
    ASSUME Timed, NEW t, NonNeg(t)
    PROVE  /\ NonNeg(t \oplus ChunkSendTime(t)) /\ t \preceq (t \oplus ChunkSendTime(t))
           /\ Bytes(tr, t \oplus ChunkSendTime(t)) = Bytes(tr, t) \oplus ChunkBytes
<1>1. /\ NonNeg(ChunkSendTime(t)) /\ NonNeg(t \oplus ChunkSendTime(t)) /\ IsFraction(t)
      /\ Bytes(tr, t \oplus ChunkSendTime(t)) = Bytes(tr, t) \oplus ChunkBytes
  BY TimedHas, LoadIsPos, SendCarries DEF ChunkSendTime, NonNeg
<1> QED BY <1>1, SumIsMore

LEMMA LoadedByCarries ==
    ASSUME Timed, NEW n \in Nat
    PROVE  /\ IsFraction(LoadedBy(n)) /\ NonNeg(start \oplus LoadedBy(n))
           /\ Bytes(tr, start \oplus LoadedBy(n)) = CarriedAfter(n)
<1> DEFINE S == {x \in Fractions : NonNeg(x)}
           G == [i \in 1..n |-> [x \in S |-> x \oplus ChunkSendTime(x)]]
           f == CHOOSE f : f = LoadedTurns(n, f)
<1>1. ASSUME NEW i \in 1..n, NEW x \in S
      PROVE  G[i][x] = x \oplus ChunkSendTime(x) /\ G[i][x] \in S
  <2>1. x \oplus ChunkSendTime(x) \in S
    BY SendOfAChunk, FractionsAre DEF NonNeg
  <2> QED BY <2>1
<1>2. start \in S
  BY TimedHas, FractionsAre
<1>0. \A x \in S : NonNeg(x)
  OBVIOUS
<1> HIDE DEF S, G
<1>3. \E g : g = Steps(0, n, start, G, g) /\ \A i \in 0..n : g[i] \in S
  <2>1. 0 \in Int /\ n \in Int /\ 0 <= n
    OBVIOUS
  <2>2. \A i \in 0 + 1..n : \A x \in S : G[i][x] \in S
    BY <1>1
  <2> QED BY <1>2, <2>1, <2>2, Recursion, Zenon
<1>4. ASSUME NEW g, (g = Steps(0, n, start, G, g) /\ \A i \in 0..n : g[i] \in S)
      PROVE  g = LoadedTurns(n, g)
  <2>1. ASSUME NEW i \in 0..n
        PROVE  (IF i = 0 THEN start ELSE G[i][g[i - 1]]) =
                   (IF i = 0 THEN start ELSE g[i - 1] \oplus ChunkSendTime(g[i - 1]))
    <3>1. CASE i # 0
      <4>1. i \in 1..n /\ i - 1 \in 0..n
        BY <3>1
      <4> QED BY <1>1, <1>4, <4>1
    <3> QED BY <3>1
  <2> QED BY <1>4, <2>1 DEF Steps, LoadedTurns
<1>5. f = LoadedTurns(n, f)
  <2>1. \E g : g = LoadedTurns(n, g)
    BY <1>3, <1>4
  <2> QED BY <2>1, Zenon
<1>6. LoadedBy(n) = f[n] \ominus start
  BY LoadedByIs
<1> HIDE DEF f
<1> DEFINE I == {k \in Nat : k <= n => NonNeg(f[k]) /\ Bytes(tr, f[k]) = CarriedAfter(k)}
<1>7. 0 \in I
  <2>1. f[0] = start
    BY <1>5 DEF LoadedTurns
  <2> QED BY <2>1, TimedHas, NoneIsDone DEF CarriedAfter
<1>8. ASSUME NEW k \in Nat, k \in I PROVE k + 1 \in I
  <2> SUFFICES ASSUME k + 1 <= n
               PROVE  NonNeg(f[k + 1]) /\ Bytes(tr, f[k + 1]) = CarriedAfter(k + 1)
    OBVIOUS
  <2>1. k + 1 \in 0..n /\ k + 1 # 0 /\ (k + 1) - 1 = k
        /\ NonNeg(f[k]) /\ Bytes(tr, f[k]) = CarriedAfter(k)
    BY <1>8
  <2>2. f[k + 1] = f[k] \oplus ChunkSendTime(f[k])
    BY <1>5, <2>1 DEF LoadedTurns
  <2>3. CarriedAfter(k + 1) = CarriedAfter(k) \oplus ChunkBytes
    BY OneMoreChunk DEF Timed
  <2> QED BY <2>1, <2>2, <2>3, SendOfAChunk
<1> HIDE DEF I
<1>9. \A k \in Nat : k \in I
  BY <1>7, <1>8, SimpleInduction
<1>10. NonNeg(f[n]) /\ Bytes(tr, f[n]) = CarriedAfter(n)
  BY <1>9 DEF I
<1>11. IsFraction(f[n] \ominus start) /\ start \oplus (f[n] \ominus start) = f[n]
  BY <1>10, TimedHas, SumIsFraction, DifferenceLaws DEF NonNeg
<1> QED BY <1>6, <1>10, <1>11

-----------------------------------------------------------------------------
CakeStart(at) ==
    [computed |-> 0, loaded |-> 0, now |-> at,
     nextCompute |-> at \oplus ChunkCompute, nextLoad |-> at \oplus ChunkSendTime(at)]

CakeTurn(c) == IF c.nextCompute \preceq c.nextLoad THEN CakeCompute(c) ELSE CakeLoad(c)

CakeTurns(at, f) ==
    [r \in 0..Chunks |-> IF r = 0 THEN CakeStart(at) ELSE CakeTurn(f[r - 1])]

LEMMA CakeIs ==
    ASSUME NEW at
    PROVE  LET f == CHOOSE f : f = CakeTurns(at, f) IN Cake(at) = f[Chunks].now \ominus at
BY Zenon DEF Cake, CakeTurns, CakeTurn, CakeStart

Times == {x \in Fractions : NonNeg(x)}

Cakes == [computed : Nat, loaded : Nat, now : Times, nextCompute : Times, nextLoad : Times]

(* After any turn each side is done with its chunks, one of them only just *)
(* now, and neither could have done one more before.                       *)
CakeIsGreedy(c) ==
    /\ c \in Cakes
    /\ c.nextCompute = ComputedAfter(c.computed + 1)
    /\ Bytes(tr, c.nextLoad) = CarriedAfter(c.loaded + 1)
    /\ ComputedAfter(c.computed) \preceq c.now
    /\ CarriedAfter(c.loaded) \preceq Bytes(tr, c.now)
    /\ c.now = ComputedAfter(c.computed) \/ Bytes(tr, c.now) = CarriedAfter(c.loaded)
    /\ c.now \preceq c.nextCompute
    /\ c.now \preceq c.nextLoad

LEMMA TimesAre == ASSUME NEW x PROVE x \in Times <=> NonNeg(x)
BY FractionsAre DEF Times, NonNeg

LEMMA CakeStartIsGreedy == ASSUME Timed PROVE CakeIsGreedy(CakeStart(start))
<1> DEFINE c == CakeStart(start)
           nc == start \oplus ChunkCompute
           nl == start \oplus ChunkSendTime(start)
<1>1. IsTrace(tr) /\ NonNeg(start) /\ IsFraction(start)
  BY TimedHas
<1>2. ComputedAfter(0) = start /\ CarriedAfter(0) = Bytes(tr, start)
      /\ start \preceq start /\ Bytes(tr, start) \preceq Bytes(tr, start)
  BY <1>1, NoneIsDone DEF ComputedAfter, CarriedAfter
<1>3. ComputedAfter(0 + 1) = start \oplus ChunkCompute
      /\ CarriedAfter(0 + 1) = Bytes(tr, start) \oplus ChunkBytes
  BY <1>2, OneMoreChunk DEF Timed
<1>4. NonNeg(nc) /\ start \preceq nc
  BY <1>1, LoadIsPos, SumSigns, SumIsMore
<1>5. NonNeg(nl) /\ start \preceq nl /\ Bytes(tr, nl) = Bytes(tr, start) \oplus ChunkBytes
  BY <1>1, SendOfAChunk
<1>6. c = [computed |-> 0, loaded |-> 0, now |-> start, nextCompute |-> nc, nextLoad |-> nl]
  BY DEF CakeStart
<1> HIDE DEF nc, nl, c
<1>7. c \in Cakes /\ c.computed = 0 /\ c.loaded = 0 /\ c.now = start /\ c.nextCompute = nc
      /\ c.nextLoad = nl
  <2>1. start \in Times /\ nc \in Times /\ nl \in Times
    BY <1>1, <1>4, <1>5, TimesAre
  <2> QED BY <1>6, <2>1 DEF Cakes
<1>8. nc = ComputedAfter(0 + 1)
  BY <1>3 DEF nc
<1> QED BY <1>2, <1>3, <1>4, <1>5, <1>7, <1>8 DEF CakeIsGreedy, c

LEMMA CakeTurnIsGreedy ==
    ASSUME Timed, NEW c, CakeIsGreedy(c)
    PROVE  CakeIsGreedy(CakeTurn(c)) /\ CakeTurn(c).computed + CakeTurn(c).loaded = c.computed + c.loaded + 1
<1>1. /\ c \in Cakes /\ c.computed \in Nat /\ c.loaded \in Nat
      /\ NonNeg(c.now) /\ NonNeg(c.nextCompute) /\ NonNeg(c.nextLoad)
      /\ c.nextCompute = ComputedAfter(c.computed + 1)
      /\ Bytes(tr, c.nextLoad) = CarriedAfter(c.loaded + 1)
      /\ ComputedAfter(c.computed) \preceq c.now
      /\ CarriedAfter(c.loaded) \preceq Bytes(tr, c.now)
      /\ c.now \preceq c.nextCompute /\ c.now \preceq c.nextLoad
  BY TimesAre DEF CakeIsGreedy, Cakes
<1>2. /\ IsFraction(c.now) /\ IsFraction(c.nextCompute) /\ IsFraction(c.nextLoad)
      /\ IsFraction(Bytes(tr, c.now)) /\ IsFraction(Bytes(tr, c.nextCompute))
      /\ IsFraction(Bytes(tr, c.nextLoad))
      /\ IsFraction(CarriedAfter(c.loaded)) /\ IsFraction(ComputedAfter(c.computed))
      /\ IsFraction(CarriedAfter(c.loaded + 1)) /\ IsFraction(ComputedAfter(c.computed + 1))
  BY <1>1, TimedHas, BytesGrow DEF NonNeg
<1>3. CASE c.nextCompute \preceq c.nextLoad
  <2> DEFINE d == CakeTurn(c)
             nc == c.nextCompute \oplus ChunkCompute
  <2>1. NonNeg(nc) /\ c.nextCompute \preceq nc /\ nc = ComputedAfter((c.computed + 1) + 1)
    BY <1>1, <1>2, LoadIsPos, SumSigns, SumIsMore, OneMoreChunk DEF Timed
  <2>2. d = [c EXCEPT !.computed = @ + 1, !.now = c.nextCompute, !.nextCompute = nc]
    BY <1>3 DEF CakeTurn, CakeCompute
  <2> HIDE DEF d, nc
  <2>3. d \in Cakes /\ d.computed = c.computed + 1 /\ d.loaded = c.loaded /\ d.now = c.nextCompute
        /\ d.nextCompute = nc /\ d.nextLoad = c.nextLoad
    <3>1. nc \in Times /\ c.nextCompute \in Times /\ c.computed + 1 \in Nat /\ c \in Cakes
      BY <1>1, <2>1, TimesAre
    <3>2. d \in Cakes
      BY <2>2, <3>1 DEF Cakes
    <3> QED BY <2>2, <3>1, <3>2 DEF Cakes
  <2>4. CarriedAfter(c.loaded) \preceq Bytes(tr, c.nextCompute)
    <3>1. Bytes(tr, c.now) \preceq Bytes(tr, c.nextCompute)
      BY <1>1, TimedHas, BytesGrow
    <3> QED BY <1>1, <1>2, <3>1, OrderLaws
  <2>5. c.nextCompute \preceq c.nextCompute
    BY <1>2, OrderLaws
  <2>6. CakeIsGreedy(d)
    BY <1>1, <1>3, <2>1, <2>3, <2>4, <2>5 DEF CakeIsGreedy
  <2>7. d.computed + d.loaded = c.computed + c.loaded + 1
    BY <1>1, <2>3
  <2> QED BY <2>6, <2>7 DEF d
<1>4. CASE ~(c.nextCompute \preceq c.nextLoad)
  <2> DEFINE d == CakeTurn(c)
             nl == c.nextLoad \oplus ChunkSendTime(c.nextLoad)
  <2>1. NonNeg(nl) /\ c.nextLoad \preceq nl /\ Bytes(tr, nl) = CarriedAfter((c.loaded + 1) + 1)
    BY <1>1, <1>2, SendOfAChunk, OneMoreChunk DEF Timed
  <2>2. d = [c EXCEPT !.loaded = @ + 1, !.now = c.nextLoad, !.nextLoad = nl]
    BY <1>4 DEF CakeTurn, CakeLoad
  <2> HIDE DEF d, nl
  <2>3. d \in Cakes /\ d.computed = c.computed /\ d.loaded = c.loaded + 1 /\ d.now = c.nextLoad
        /\ d.nextCompute = c.nextCompute /\ d.nextLoad = nl
    <3>1. nl \in Times /\ c.nextLoad \in Times /\ c.loaded + 1 \in Nat /\ c \in Cakes
      BY <1>1, <2>1, TimesAre
    <3>2. d \in Cakes
      BY <2>2, <3>1 DEF Cakes
    <3> QED BY <2>2, <3>1, <3>2 DEF Cakes
  <2>4. ComputedAfter(c.computed) \preceq c.nextLoad
    BY <1>1, <1>2, OrderLaws
  <2>5. c.nextLoad \preceq c.nextCompute
    BY <1>2, <1>4, OrderLaws
  <2>6. CarriedAfter(c.loaded + 1) \preceq Bytes(tr, c.nextLoad)
    BY <1>1, <1>2, OrderLaws
  <2>7. CakeIsGreedy(d)
    BY <1>1, <2>1, <2>3, <2>4, <2>5, <2>6 DEF CakeIsGreedy
  <2>8. d.computed + d.loaded = c.computed + c.loaded + 1
    BY <1>1, <2>3
  <2> QED BY <2>7, <2>8 DEF d
<1> QED BY <1>3, <1>4

LEMMA CakeEndsGreedy ==
    ASSUME Timed
    PROVE  \E c : /\ CakeIsGreedy(c) /\ c.computed + c.loaded = Chunks
                  /\ Cake(start) = c.now \ominus start
<1> DEFINE G == [r \in 1..Chunks |-> [c \in Cakes |-> CakeTurn(c)]]
           S == {c \in Cakes : CakeIsGreedy(c)}
           f == CHOOSE f : f = CakeTurns(start, f)
<1>0. Chunks \in Nat
  BY ChunksAssumption
<1>1. ASSUME NEW r \in 1..Chunks, NEW c \in S
      PROVE  G[r][c] = CakeTurn(c) /\ G[r][c] \in S
  <2>1. CakeIsGreedy(CakeTurn(c))
    BY <1>1, CakeTurnIsGreedy
  <2> QED BY <2>1 DEF CakeIsGreedy
<1>2. CakeStart(start) \in S
  BY CakeStartIsGreedy DEF CakeIsGreedy
<1>3. \A c \in S : CakeIsGreedy(c)
  OBVIOUS
<1> HIDE DEF G, S
<1>4. \E g : g = Steps(0, Chunks, CakeStart(start), G, g) /\ \A r \in 0..Chunks : g[r] \in S
  <2>1. 0 \in Int /\ Chunks \in Int /\ 0 <= Chunks
    BY <1>0
  <2>2. \A r \in 0 + 1..Chunks : \A c \in S : G[r][c] \in S
    BY <1>1
  <2> QED BY <1>2, <2>1, <2>2, Recursion, Zenon
<1>5. ASSUME NEW g, (g = Steps(0, Chunks, CakeStart(start), G, g) /\ \A r \in 0..Chunks : g[r] \in S)
      PROVE  g = CakeTurns(start, g)
  <2>1. ASSUME NEW r \in 0..Chunks
        PROVE  (IF r = 0 THEN CakeStart(start) ELSE G[r][g[r - 1]]) =
                   (IF r = 0 THEN CakeStart(start) ELSE CakeTurn(g[r - 1]))
    <3>1. CASE r # 0
      <4>1. r \in 1..Chunks /\ r - 1 \in 0..Chunks
        BY <1>0, <3>1
      <4> QED BY <1>1, <1>5, <4>1
    <3> QED BY <3>1
  <2> QED BY <1>5, <2>1 DEF Steps, CakeTurns
<1>6. f = CakeTurns(start, f)
  <2>1. \E g : g = CakeTurns(start, g)
    BY <1>4, <1>5
  <2> QED BY <2>1, Zenon
<1>7. Cake(start) = f[Chunks].now \ominus start
  BY CakeIs
<1> HIDE DEF f
<1> DEFINE I == {r \in Nat : r <= Chunks => CakeIsGreedy(f[r]) /\ f[r].computed + f[r].loaded = r}
<1>8. 0 \in I
  <2>1. f[0] = CakeStart(start)
    BY <1>0, <1>6 DEF CakeTurns
  <2>2. f[0].computed = 0 /\ f[0].loaded = 0
    BY <2>1 DEF CakeStart
  <2> QED BY <2>1, <2>2, CakeStartIsGreedy
<1>9. ASSUME NEW r \in Nat, r \in I PROVE r + 1 \in I
  <2> SUFFICES ASSUME r + 1 <= Chunks
               PROVE  CakeIsGreedy(f[r + 1]) /\ f[r + 1].computed + f[r + 1].loaded = r + 1
    OBVIOUS
  <2>1. r + 1 \in 0..Chunks /\ r + 1 # 0 /\ (r + 1) - 1 = r
        /\ CakeIsGreedy(f[r]) /\ f[r].computed + f[r].loaded = r
    BY <1>0, <1>9
  <2>2. f[r + 1] = CakeTurn(f[r])
    BY <1>6, <2>1 DEF CakeTurns
  <2> QED BY <2>1, <2>2, CakeTurnIsGreedy
<1> HIDE DEF I
<1>10. \A r \in Nat : r \in I
  BY <1>8, <1>9, SimpleInduction
<1>11. CakeIsGreedy(f[Chunks]) /\ f[Chunks].computed + f[Chunks].loaded = Chunks
  BY <1>0, <1>10 DEF I
<1> QED BY <1>7, <1>11

LEMMA GreaterIsOne ==
    ASSUME NEW x, NEW y, NEW z, IsFraction(x), IsFraction(y), IsFraction(z),
           x \preceq z, y \preceq z, z = x \/ z = y
    PROVE  Greater(x, y) = z
BY OrderLaws DEF Greater

LEMMA GreaterIsLeast ==
    ASSUME NEW x, NEW y, NEW z, IsFraction(x), IsFraction(y), IsFraction(z)
    PROVE  /\ IsFraction(Greater(x, y))
           /\ z \preceq x \/ z \preceq y => z \preceq Greater(x, y)
           /\ x \preceq z /\ y \preceq z => Greater(x, y) \preceq z
BY LesserIs, OrderLaws

(* When n chunks are loaded and the others recomputed, side by side.       *)
Split(n) == Greater(LoadedBy(n), Whole(Chunks - n) \otimes ChunkCompute)

LEMMA SplitIs ==
    ASSUME Timed, NEW n \in 0..Chunks, NEW t, NonNeg(t)
    PROVE  /\ IsFraction(Split(n)) /\ IsFraction(t \ominus start)
           /\ CarriedAfter(n) \preceq Bytes(tr, t) /\ ComputedAfter(Chunks - n) \preceq t =>
                  /\ Split(n) \preceq (t \ominus start)
                  /\ Bytes(tr, t) = CarriedAfter(n) \/ t = ComputedAfter(Chunks - n) =>
                         Split(n) = t \ominus start
           /\ Bytes(tr, t) \preceq CarriedAfter(n) \/ t \preceq ComputedAfter(Chunks - n) =>
                  (t \ominus start) \preceq Split(n)
<1> DEFINE x == LoadedBy(n)
           y == Whole(Chunks - n) \otimes ChunkCompute
           z == t \ominus start
<1>0. n \in Nat /\ Chunks - n \in Nat
  BY ChunksAssumption
<1>1. /\ IsTrace(tr) /\ IsFraction(x) /\ NonNeg(start \oplus x)
      /\ Bytes(tr, start \oplus x) = CarriedAfter(n)
  BY <1>0, TimedHas, LoadedByCarries
<1>2. IsFraction(y) /\ start \oplus y = ComputedAfter(Chunks - n)
  BY <1>0, LoadIsPos, WholeIsNonNeg DEF ComputedAfter, NonNeg
<1>3. IsFraction(start) /\ IsFraction(t) /\ IsFraction(z) /\ start \oplus z = t
  BY TimedHas, SumIsFraction, DifferenceLaws DEF NonNeg
<1>4. Split(n) = Greater(x, y)
  BY DEF Split
<1> HIDE DEF x, y, z
<1>5. /\ CarriedAfter(n) \preceq Bytes(tr, t) <=> x \preceq z
      /\ Bytes(tr, t) \preceq CarriedAfter(n) <=> z \preceq x
  <2>1. /\ CarriedAfter(n) \preceq Bytes(tr, t) <=> (start \oplus x) \preceq (start \oplus z)
        /\ Bytes(tr, t) \preceq CarriedAfter(n) <=> (start \oplus z) \preceq (start \oplus x)
    BY <1>1, <1>3, BytesGrow
  <2> QED BY <1>1, <1>3, <2>1, SumIsStrict
<1>6. /\ ComputedAfter(Chunks - n) \preceq t <=> y \preceq z
      /\ t \preceq ComputedAfter(Chunks - n) <=> z \preceq y
  BY <1>2, <1>3, SumIsStrict
<1>7. IsFraction(Bytes(tr, t)) /\ IsFraction(CarriedAfter(n)) /\ IsFraction(ComputedAfter(Chunks - n))
  BY <1>0, <1>1, TimedHas, BytesGrow
<1>8. /\ Bytes(tr, t) = CarriedAfter(n) => z = x
      /\ t = ComputedAfter(Chunks - n) => z = y
  BY <1>1, <1>2, <1>3, <1>5, <1>6, <1>7, OrderLaws
<1>9. /\ IsFraction(Greater(x, y))
      /\ x \preceq z /\ y \preceq z => Greater(x, y) \preceq z
      /\ z \preceq x \/ z \preceq y => z \preceq Greater(x, y)
  BY <1>1, <1>2, <1>3, GreaterIsLeast
<1>10. x \preceq z /\ y \preceq z /\ (z = x \/ z = y) => Greater(x, y) = z
  BY <1>1, <1>2, <1>3, GreaterIsOne
<1>11. IsFraction(Split(n)) /\ IsFraction(z)
  BY <1>3, <1>4, <1>9
<1>12. CarriedAfter(n) \preceq Bytes(tr, t) /\ ComputedAfter(Chunks - n) \preceq t =>
          /\ Split(n) \preceq z
          /\ Bytes(tr, t) = CarriedAfter(n) \/ t = ComputedAfter(Chunks - n) => Split(n) = z
  BY <1>4, <1>5, <1>6, <1>8, <1>9, <1>10
<1>13. Bytes(tr, t) \preceq CarriedAfter(n) \/ t \preceq ComputedAfter(Chunks - n) =>
          z \preceq Split(n)
  BY <1>4, <1>5, <1>6, <1>9
<1> QED BY <1>11, <1>12, <1>13 DEF z

(* Of every way to share the chunks out Cake's is the earliest.            *)
LEMMA CakeIsBest ==
    ASSUME Timed
    PROVE  /\ \E n \in 0..Chunks : Cake(start) = Split(n)
           /\ \A n \in 0..Chunks : Cake(start) \preceq Split(n)
<1>1. PICK c : /\ CakeIsGreedy(c) /\ c.computed + c.loaded = Chunks
               /\ Cake(start) = c.now \ominus start
  BY CakeEndsGreedy
<1>2. /\ c.computed \in Nat /\ c.loaded \in Nat
      /\ NonNeg(c.now) /\ NonNeg(c.nextLoad) /\ NonNeg(c.nextCompute)
  BY <1>1, TimesAre DEF CakeIsGreedy, Cakes
<1>3. c.loaded \in 0..Chunks /\ Chunks - c.loaded = c.computed /\ Chunks \in Nat
  BY <1>1, <1>2, ChunksAssumption
<1>4. /\ ComputedAfter(c.computed) \preceq c.now
      /\ CarriedAfter(c.loaded) \preceq Bytes(tr, c.now)
      /\ c.now = ComputedAfter(c.computed) \/ Bytes(tr, c.now) = CarriedAfter(c.loaded)
      /\ c.now \preceq c.nextCompute /\ c.nextCompute = ComputedAfter(c.computed + 1)
      /\ c.now \preceq c.nextLoad /\ Bytes(tr, c.nextLoad) = CarriedAfter(c.loaded + 1)
  BY <1>1 DEF CakeIsGreedy
<1>5. Cake(start) = Split(c.loaded)
  BY <1>1, <1>2, <1>3, <1>4, SplitIs
<1>6. ASSUME NEW n \in 0..Chunks PROVE Cake(start) \preceq Split(n)
  <2>1. CASE n = c.loaded
    BY <1>2, <1>5, <2>1, SplitIs, OrderLaws
  <2>2. CASE n > c.loaded
    <3>1. CarriedAfter(c.loaded + 1) \preceq CarriedAfter(n)
      BY <1>2, <2>2, AfterGrows
    <3>2. Bytes(tr, c.now) \preceq CarriedAfter(c.loaded + 1)
      BY <1>2, <1>4, TimedHas, BytesGrow
    <3>3. Bytes(tr, c.now) \preceq CarriedAfter(n)
      <4>1. IsFraction(Bytes(tr, c.now))
        BY <1>2, TimedHas, BytesGrow
      <4>2. c.loaded + 1 \in Int /\ n \in Int
        BY <1>2
      <4>3. IsFraction(CarriedAfter(c.loaded + 1)) /\ IsFraction(CarriedAfter(n))
        BY <4>2, TimedHas
      <4> QED BY <3>1, <3>2, <4>1, <4>3, OrderLaws
    <3> QED BY <1>1, <1>2, <3>3, SplitIs
  <2>3. CASE n < c.loaded
    <3>0. c.computed + 1 \in Int /\ Chunks - n \in Int /\ c.computed + 1 <= Chunks - n
      BY <1>2, <1>3, <2>3
    <3>1. ComputedAfter(c.computed + 1) \preceq ComputedAfter(Chunks - n)
      BY <3>0, AfterGrows
    <3>2. c.now \preceq ComputedAfter(Chunks - n)
      <4>1. IsFraction(ComputedAfter(c.computed + 1)) /\ IsFraction(ComputedAfter(Chunks - n))
        BY <3>0, TimedHas
      <4> QED BY <1>2, <1>4, <3>1, <4>1, OrderLaws DEF NonNeg
    <3> QED BY <1>1, <1>2, <3>2, SplitIs
  <2> QED BY <1>2, <2>1, <2>2, <2>3
<1> QED BY <1>3, <1>5, <1>6

(* Cake's loop is optimal, and no loader of one chunk at a time beats it.  *)
THEOREM CakeWins == ASpec => []CakeIsEarliest
<1>1. LoadsInv => CakeIsEarliest
  <2> SUFFICES ASSUME LoadsInv, done = Chunks
               PROVE  /\ Cake(start) \in {Split(n) : n \in 0..Chunks}
                      /\ \A t \in {Split(n) : n \in 0..Chunks} : Cake(start) \preceq t
                      /\ Cake(start) \preceq (ideal \ominus start)
    BY DEF CakeIsEarliest, Split
  <2>1. Timed /\ NonNeg(ideal)
    BY DEF LoadsInv, Timed, TimesInv
  <2>2. PICK n \in 0..Chunks : Cake(start) = Split(n)
    BY <2>1, CakeIsBest
  <2>3. \A k \in 0..Chunks : Cake(start) \preceq Split(k)
    BY <2>1, CakeIsBest
  <2>4. PICK m \in 0..Chunks :
            CarriedAfter(m) \preceq Bytes(tr, ideal) /\ ComputedAfter(Chunks - m) \preceq ideal
    BY DEF LoadsInv, SplitInv
  <2>5. Split(m) \preceq (ideal \ominus start)
    BY <2>1, <2>4, SplitIs
  <2>6. IsFraction(Split(m)) /\ IsFraction(Split(n)) /\ IsFraction(ideal \ominus start)
    BY <2>1, SplitIs
  <2>7. Cake(start) \preceq (ideal \ominus start)
    BY <2>2, <2>3, <2>5, <2>6, OrderLaws
  <2> QED BY <2>2, <2>3, <2>7
<1> QED BY <1>1, LoadsAreInvariant, PTL

-----------------------------------------------------------------------------
(* What the recorded network carries. *)
Till(i, t) == IF i = Last(tr) THEN t ELSE Lesser(t, tr.ends[i])

Overlap(from, to, i) == Greater(Zero, Till(i, to) \ominus Greater(from, Begin(tr, i)))

CarriedTurns(from, to, f) ==
    [i \in 0..Last(tr) |->
        IF i = 0 THEN Zero ELSE f[i - 1] \oplus (Overlap(from, to, i) \otimes tr.rates[i])]

LEMMA CarriedIs ==
    ASSUME NEW from, NEW to
    PROVE  Carried(from, to) = (CHOOSE f : f = CarriedTurns(from, to, f))[Last(tr)]
BY Zenon DEF Carried, Sum, CarriedTurns, Overlap, Till, Begin

(* How far into segment i a time is.                                       *)
Clamp(i, t) == IF t \preceq Begin(tr, i) THEN Begin(tr, i) ELSE Till(i, t)

LEMMA SegmentTimes ==
    ASSUME Timed, NEW i \in 1..Last(tr)
    PROVE  /\ IsFraction(Begin(tr, i)) /\ IsFraction(tr.ends[i])
           /\ Begin(tr, i) \prec tr.ends[i] /\ Begin(tr, i) \preceq tr.ends[i]
           /\ Pos(tr.rates[i]) /\ IsFraction(tr.rates[i])
<1>1. /\ IsFraction(Begin(tr, i)) /\ IsFraction(tr.ends[i])
      /\ Begin(tr, i) \prec tr.ends[i] /\ Pos(tr.rates[i])
  BY TimedHas, BeginsAre DEF IsTrace, NonNeg
<1> QED BY <1>1, OrderLaws DEF Pos

LEMMA TillIs ==
    ASSUME Timed, NEW i \in 1..Last(tr), NEW t, IsFraction(t)
    PROVE  /\ IsFraction(Till(i, t)) /\ Till(i, t) \preceq t
           /\ Begin(tr, i) \preceq t => Begin(tr, i) \preceq Till(i, t)
           /\ \A u : IsFraction(u) /\ t \preceq u => Till(i, t) \preceq Till(i, u)
           /\ Till(i, t) = t \/ (i # Last(tr) /\ Till(i, t) = tr.ends[i])
           /\ i # Last(tr) => Till(i, t) \preceq tr.ends[i]
<1>1. CASE i = Last(tr)
  <2>1. \A u : Till(i, u) = u
    BY <1>1 DEF Till
  <2> QED BY <1>1, <2>1, OrderLaws
<1>2. CASE i # Last(tr)
  <2>1. \A u : Till(i, u) = Lesser(u, tr.ends[i])
    BY <1>2 DEF Till
  <2>2. ASSUME NEW u, IsFraction(u)
        PROVE  /\ Lesser(u, tr.ends[i]) \in {u, tr.ends[i]}
               /\ Lesser(u, tr.ends[i]) \preceq u /\ Lesser(u, tr.ends[i]) \preceq tr.ends[i]
    BY <2>2, SegmentTimes, LesserIs
  <2>3. ASSUME NEW u, IsFraction(u), t \preceq u
        PROVE  Lesser(t, tr.ends[i]) \preceq Lesser(u, tr.ends[i])
    BY <2>2, <2>3, SegmentTimes, OrderLaws
  <2> QED BY <1>2, <2>1, <2>2, <2>3, SegmentTimes
<1> QED BY <1>1, <1>2

LEMMA OverlapIs ==
    ASSUME Timed, NEW i \in 1..Last(tr), NEW from, NEW to, IsFraction(from), IsFraction(to),
           from \preceq to
    PROVE  Overlap(from, to, i) = Clamp(i, to) \ominus Clamp(i, from)
<1> DEFINE B == Begin(tr, i)
           g == Greater(from, B)
           x == Till(i, to)
           y == Till(i, from)
<1>1. IsFraction(B) /\ IsFraction(x) /\ IsFraction(y) /\ IsFraction(Zero)
  BY SegmentTimes, TillIs, OneIsPos
<1>2. /\ x \preceq to /\ y \preceq from /\ y \preceq x
      /\ B \preceq to => B \preceq x
      /\ B \preceq from => B \preceq y
      /\ y = from \/ (i # Last(tr) /\ y = tr.ends[i])
      /\ i # Last(tr) => x \preceq tr.ends[i]
  BY SegmentTimes, TillIs
<1>3. Overlap(from, to, i) = Greater(Zero, x \ominus g)
  BY DEF Overlap
<1>4. /\ Clamp(i, to) = IF to \preceq B THEN B ELSE x
      /\ Clamp(i, from) = IF from \preceq B THEN B ELSE y
  BY DEF Clamp
<1> HIDE DEF B, x, y, g
<1>5. IsFraction(g) /\ g \in {from, B} /\ from \preceq g /\ B \preceq g
  BY <1>1, LesserIs DEF g
<1>6. /\ x \preceq g => Greater(Zero, x \ominus g) = Zero
      /\ g \preceq x => Greater(Zero, x \ominus g) = x \ominus g
  <2>1. IsFraction(x \ominus g) /\ (Zero \preceq (x \ominus g) <=> g \preceq x)
        /\ (Zero \prec (x \ominus g) <=> g \prec x)
    BY <1>1, <1>5, SumIsFraction, DifferenceSigns DEF NonNeg, Pos
  <2>2. /\ x \preceq g => ~(Zero \prec (x \ominus g))
        /\ g \preceq x => Zero \prec (x \ominus g) \/ x \ominus g = Zero
    BY <1>1, <1>5, <2>1, OrderLaws
  <2> QED BY <2>2 DEF Greater
<1>7. \A u : IsFraction(u) => u \ominus u = Zero
  BY ZeroLaws
<1>8. CASE to \preceq B
  <2>1. from \preceq B /\ x \preceq g
    BY <1>1, <1>2, <1>5, <1>8, OrderLaws
  <2> QED BY <1>1, <1>3, <1>4, <1>6, <1>7, <1>8, <2>1
<1>9. CASE ~(to \preceq B) /\ from \preceq B
  <2>1. g = B /\ B \preceq x
    BY <1>1, <1>2, <1>5, <1>9, OrderLaws
  <2> QED BY <1>3, <1>4, <1>6, <1>9, <2>1
<1>10. CASE ~(to \preceq B) /\ ~(from \preceq B)
  <2>1. g = from /\ B \preceq to
    BY <1>1, <1>5, <1>10, OrderLaws
  <2>2. CASE y = from
    BY <1>2, <1>3, <1>4, <1>6, <1>10, <2>1, <2>2
  <2>3. CASE y # from
    <3>1. y = tr.ends[i] /\ x \preceq y
      BY <1>2, <2>3
    <3>2. x = y
      BY <1>1, <1>2, <3>1, OrderLaws
    <3>3. x \preceq g
      BY <1>2, <2>1, <3>2
    <3> QED BY <1>1, <1>3, <1>4, <1>6, <1>7, <1>10, <3>2, <3>3
  <2> QED BY <2>2, <2>3
<1>11. to \preceq B => from \preceq B
  BY <1>1, OrderLaws
<1> QED BY <1>8, <1>9, <1>10

(* What the first k segments have carried by a time.                       *)
Clip(k, t) == IF Segment(tr, t) <= k THEN Bytes(tr, t) ELSE Upto(tr)[k]

LEMMA ClipIs ==
    ASSUME Timed, NEW k \in 1..Last(tr), NEW t, NonNeg(t)
    PROVE  /\ Clip(k, t) = Clip(k - 1, t) \oplus ((Clamp(k, t) \ominus Begin(tr, k)) \otimes tr.rates[k])
           /\ IsFraction(Clip(k - 1, t)) /\ IsFraction(Clamp(k, t))
<1> DEFINE s == Segment(tr, t)
           B == Begin(tr, k)
           r == tr.rates[k]
<1>1. /\ Holds(tr, s, t) /\ s \in 1..Last(tr) /\ Last(tr) \in Nat /\ IsFraction(t)
      /\ Bytes(tr, t) = BytesIn(tr, s, t)
  BY TimedHas, SegmentIs DEF Holds, IsTrace, NonNeg, Bytes
<1>2. /\ IsFraction(B) /\ IsFraction(tr.ends[k]) /\ B \prec tr.ends[k] /\ IsFraction(r)
      /\ IsFraction(Begin(tr, s)) /\ IsFraction(tr.ends[s])
  BY <1>1, SegmentTimes
<1>3. /\ \A j \in 0..Last(tr) : IsFraction(Upto(tr)[j])
      /\ IsFraction(Bytes(tr, t)) /\ IsFraction(Till(k, t))
      /\ k - 1 \in 0..Last(tr)
  BY <1>1, TimedHas, UptoIs, BytesGrow, TillIs DEF NonNeg
<1>4. IsFraction(Clip(k - 1, t)) /\ IsFraction(Clamp(k, t))
  BY <1>2, <1>3 DEF Clip, Clamp
<1> HIDE DEF s, r
<1>5. CASE s < k
  <2>1. s # Last(tr) /\ t \prec tr.ends[s] /\ tr.ends[s] \preceq B
    BY <1>1, <1>5, TimedHas, EndsAreOrdered DEF Holds
  <2>2. t \preceq B
    BY <1>1, <1>2, <2>1, OrderLaws
  <2>3. (Clamp(k, t) \ominus B) \otimes r = Zero
    BY <1>2, <2>2, ZeroLaws DEF Clamp
  <2>4. Clip(k, t) = Bytes(tr, t) /\ Clip(k - 1, t) = Bytes(tr, t)
    BY <1>1, <1>5 DEF Clip, s
  <2> QED BY <1>3, <1>4, <2>3, <2>4, ZeroLaws DEF r
<1>6. CASE s = k
  <2>1. B \preceq t /\ (k = Last(tr) \/ t \prec tr.ends[k])
    BY <1>1, <1>6 DEF Holds
  <2>2. Till(k, t) = t
    BY <1>1, <1>2, <2>1, OrderLaws DEF Till, Lesser
  <2>3. Clamp(k, t) = t
    BY <1>1, <1>2, <2>1, <2>2, OrderLaws DEF Clamp
  <2>4. Clip(k, t) = Bytes(tr, t) /\ Clip(k - 1, t) = Upto(tr)[k - 1]
    BY <1>1, <1>6 DEF Clip, s
  <2> QED BY <1>1, <1>4, <1>6, <2>3, <2>4 DEF BytesIn, r
<1>7. CASE s > k
  <2>1. k # Last(tr) /\ tr.ends[k] \preceq Begin(tr, s) /\ Begin(tr, s) \preceq t
    BY <1>1, <1>7, TimedHas, EndsAreOrdered DEF Holds
  <2>2. tr.ends[k] \preceq t /\ ~(t \preceq B)
    BY <1>1, <1>2, <2>1, OrderLaws
  <2>3. Clamp(k, t) = tr.ends[k]
    BY <1>1, <1>2, <2>1, <2>2, OrderLaws DEF Clamp, Till, Lesser
  <2>4. Clip(k, t) = Upto(tr)[k] /\ Clip(k - 1, t) = Upto(tr)[k - 1]
    BY <1>1, <1>7 DEF Clip, s
  <2>5. Upto(tr)[k] = Upto(tr)[k - 1] \oplus SegmentBytes(tr, k)
    BY TimedHas, UptoIs DEF IsUpto
  <2> QED BY <1>4, <2>3, <2>4, <2>5 DEF SegmentBytes, r
<1> QED BY <1>1, <1>5, <1>6, <1>7

LEMMA PartsJoin ==
    ASSUME NEW p, NEW q, NEW x, NEW y, IsFraction(p), IsFraction(q), IsFraction(x), IsFraction(y)
    PROVE  (p \ominus q) \oplus (x \ominus y) = (p \oplus x) \ominus (q \oplus y)
<1>1. PICK n, m, l, k \in Int, d \in Nat :
          d > 0 /\ Is(p, n, d) /\ Is(q, m, d) /\ Is(x, l, d) /\ Is(y, k, d)
  BY CommonOfFour
<1>2. Is(p \ominus q, n - m, d) /\ Is(x \ominus y, l - k, d)
      /\ Is(p \oplus x, n + l, d) /\ Is(q \oplus y, m + k, d)
  BY <1>1, IsSum, IsDifference
<1>3. /\ Is((p \ominus q) \oplus (x \ominus y), (n - m) + (l - k), d)
      /\ Is((p \oplus x) \ominus (q \oplus y), (n + l) - (m + k), d)
  BY <1>2, IsSum, IsDifference
<1>4. (n - m) + (l - k) = (n + l) - (m + k)
  OBVIOUS
<1> QED BY <1>3, <1>4, IsUnique

LEMMA FromCommonStart ==
    ASSUME NEW x, NEW y, NEW b, NEW r, IsFraction(x), IsFraction(y), IsFraction(b), IsFraction(r)
    PROVE  (x \ominus y) \otimes r = ((x \ominus b) \otimes r) \ominus ((y \ominus b) \otimes r)
<1>1. PICK n, m, l, k \in Int, d \in Nat :
          d > 0 /\ Is(x, n, d) /\ Is(y, m, d) /\ Is(b, l, d) /\ Is(r, k, d)
  BY CommonOfFour
<1>2. Is(x \ominus y, n - m, d) /\ Is(x \ominus b, n - l, d) /\ Is(y \ominus b, m - l, d)
  BY <1>1, IsDifference
<1>3. /\ Is((x \ominus y) \otimes r, (n - m) * k, d * d)
      /\ Is((x \ominus b) \otimes r, (n - l) * k, d * d)
      /\ Is((y \ominus b) \otimes r, (m - l) * k, d * d)
  BY <1>1, <1>2, IsProduct
<1>4. Is(((x \ominus b) \otimes r) \ominus ((y \ominus b) \otimes r), (n - l) * k - (m - l) * k, d * d)
  BY <1>3, IsDifference
<1>5. (n - l) * k - (m - l) * k = (n - m) * k
  OBVIOUS
<1> QED BY <1>3, <1>4, <1>5, IsUnique

LEMMA CarriedIsBytes ==
    ASSUME Timed, NEW from, NEW to, NonNeg(from), NonNeg(to), from \preceq to
    PROVE  Carried(from, to) = Bytes(tr, to) \ominus Bytes(tr, from)
<1> DEFINE n == Last(tr)
           O(i) == Overlap(from, to, i) \otimes tr.rates[i]
           G == [i \in 1..n |-> [x \in Fractions |-> x \oplus O(i)]]
           f == CHOOSE f : f = CarriedTurns(from, to, f)
<1>0. n \in Nat \ {0} /\ IsFraction(from) /\ IsFraction(to)
  BY TimedHas DEF IsTrace, NonNeg
<1>1. ASSUME NEW i \in 1..n
      PROVE  /\ IsFraction(O(i))
             /\ O(i) = (Clamp(i, to) \ominus Clamp(i, from)) \otimes tr.rates[i]
  <2>1. Overlap(from, to, i) = Clamp(i, to) \ominus Clamp(i, from)
    BY <1>0, OverlapIs
  <2>2. IsFraction(Clamp(i, to)) /\ IsFraction(Clamp(i, from)) /\ IsFraction(tr.rates[i])
    BY ClipIs, SegmentTimes
  <2> QED BY <2>1, <2>2, SumIsFraction
<1>2. ASSUME NEW i \in 1..n, NEW x \in Fractions
      PROVE  G[i][x] = x \oplus O(i) /\ G[i][x] \in Fractions
  <2>1. x \oplus O(i) \in Fractions
    BY <1>1, SumIsFraction, FractionsAre
  <2> QED BY <2>1
<1> HIDE DEF G, n, f
<1>3. \E g : g = Steps(0, n, Zero, G, g) /\ \A i \in 0..n : g[i] \in Fractions
  <2>1. 0 \in Int /\ n \in Int /\ 0 <= n /\ Zero \in Fractions
    BY <1>0, OneIsPos, FractionsAre
  <2>2. \A i \in 0 + 1..n : \A x \in Fractions : G[i][x] \in Fractions
    BY <1>2
  <2> QED BY <2>1, <2>2, Recursion, Zenon
<1>4. ASSUME NEW g, (g = Steps(0, n, Zero, G, g) /\ \A i \in 0..n : g[i] \in Fractions)
      PROVE  g = CarriedTurns(from, to, g)
  <2>1. ASSUME NEW i \in 0..n
        PROVE  (IF i = 0 THEN Zero ELSE G[i][g[i - 1]]) =
                   (IF i = 0 THEN Zero ELSE g[i - 1] \oplus O(i))
    <3>1. CASE i # 0
      <4>1. i \in 1..n /\ i - 1 \in 0..n
        BY <1>0, <3>1
      <4> QED BY <1>2, <1>4, <4>1
    <3> QED BY <3>1
  <2> QED BY <1>4, <2>1 DEF Steps, CarriedTurns, n
<1>5. f = CarriedTurns(from, to, f)
  <2>1. \E g : g = CarriedTurns(from, to, g)
    BY <1>3, <1>4
  <2> QED BY <2>1, Zenon DEF f
<1>6. Carried(from, to) = f[n]
  BY CarriedIs DEF f, n
<1> DEFINE I == {k \in Nat : k <= n => f[k] = Clip(k, to) \ominus Clip(k, from)}
<1>7. \A t : NonNeg(t) => Segment(tr, t) \in 1..n
  BY TimedHas, SegmentIs DEF Holds, n
<1>8. 0 \in I
  <2>1. f[0] = Zero
    BY <1>0, <1>5 DEF CarriedTurns, n
  <2>2. Clip(0, to) = Zero /\ Clip(0, from) = Zero
    BY <1>7, TimedHas, UptoIs DEF Clip, IsUpto
  <2>3. Zero \ominus Zero = Zero
    BY OneIsPos, ZeroLaws
  <2> QED BY <2>1, <2>2, <2>3
<1>9. ASSUME NEW k \in Nat, k \in I PROVE k + 1 \in I
  <2> DEFINE l == k + 1
             B == Begin(tr, l)
             r == tr.rates[l]
             x == (Clamp(l, to) \ominus B) \otimes r
             y == (Clamp(l, from) \ominus B) \otimes r
  <2> SUFFICES ASSUME l <= n PROVE f[l] = Clip(l, to) \ominus Clip(l, from)
    OBVIOUS
  <2>1. l \in 1..n /\ l \in 0..n /\ l # 0 /\ l - 1 = k /\ f[k] = Clip(k, to) \ominus Clip(k, from)
    BY <1>0, <1>9
  <2> HIDE DEF l, I
  <2>2. f[l] = f[k] \oplus O(l)
    BY <1>5, <2>1 DEF CarriedTurns, n
  <2>3. /\ Clip(l, to) = Clip(k, to) \oplus x /\ Clip(l, from) = Clip(k, from) \oplus y
        /\ IsFraction(Clip(k, to)) /\ IsFraction(Clip(k, from))
        /\ IsFraction(Clamp(l, to)) /\ IsFraction(Clamp(l, from))
        /\ IsFraction(B) /\ IsFraction(r)
    BY <2>1, ClipIs, SegmentTimes DEF n
  <2>4. O(l) = x \ominus y
    BY <1>1, <2>1, <2>3, FromCommonStart
  <2>5. IsFraction(x) /\ IsFraction(y)
    BY <2>3, SumIsFraction
  <2> HIDE DEF x, y
  <2> QED BY <2>1, <2>2, <2>3, <2>4, <2>5, PartsJoin
<1> HIDE DEF I
<1>10. \A k \in Nat : k \in I
  BY <1>8, <1>9, SimpleInduction
<1>11. f[n] = Clip(n, to) \ominus Clip(n, from)
  BY <1>0, <1>10 DEF I
<1>12. Clip(n, to) = Bytes(tr, to) /\ Clip(n, from) = Bytes(tr, from)
  BY <1>7 DEF Clip
<1> QED BY <1>6, <1>11, <1>12

(* A send takes exactly as long as the recorded network needs to carry its *)
(* bytes, wherever in a segment it starts or ends.                         *)
THEOREM SendsDeliver == ASpec => []SendTimeDelivers
<1>1. LoadsInv => SendTimeDelivers
  <2> SUFFICES ASSUME LoadsInv, NEW bytes \in {ChunkBytes, Whole(Chunks) \otimes ChunkBytes}
               PROVE  LET took == SendTime(tr, now, bytes)
                      IN  Zero \prec took /\ Carried(now, now \oplus took) = bytes
    BY DEF SendTimeDelivers
  <2>1. Timed /\ NonNeg(now) /\ IsTrace(tr)
    BY TimedHas DEF LoadsInv, Timed, TimesInv
  <2>2. Pos(bytes) /\ NonNeg(bytes) /\ IsFraction(bytes)
    <3>1. Is(Whole(Chunks), Chunks * 1, 1)
      BY ChunksAssumption, WholeIs
    <3>2. Pos(Whole(Chunks))
      BY <3>1, ChunksAssumption, SignIs
    <3> QED BY <3>2, LoadIsPos, PosIsNonNeg, ProductSigns
  <2> DEFINE took == SendTime(tr, now, bytes)
  <2>3. /\ NonNeg(took) /\ NonNeg(now \oplus took) /\ Pos(took)
        /\ Bytes(tr, now \oplus took) = Bytes(tr, now) \oplus bytes
    BY <2>1, <2>2, SendCarries
  <2> HIDE DEF took
  <2>4. now \preceq (now \oplus took) /\ IsFraction(Bytes(tr, now))
    BY <2>1, <2>3, SumIsMore, BytesGrow DEF NonNeg
  <2>5. Carried(now, now \oplus took) = (Bytes(tr, now) \oplus bytes) \ominus Bytes(tr, now)
    BY <2>1, <2>3, <2>4, CarriedIsBytes
  <2>6. Carried(now, now \oplus took) = bytes
    BY <2>2, <2>4, <2>5, DifferenceLaws
  <2> QED BY <2>3, <2>6 DEF took, Pos
<1> QED BY <1>1, LoadsAreInvariant, PTL

=============================================================================

--------------------------- MODULE AnalysisProofs ---------------------------
(***************************************************************************)
(* What kvreplay's learners believe, on any recorded rows and with any     *)
(* rates: what the cost model accepts, the least squares line, and, of a   *)
(* network that is a line, that line.  And how often a loader probes.      *)
(***************************************************************************)
EXTENDS Analysis, RationalProofs, SequenceTheorems

-----------------------------------------------------------------------------
(* The learners. *)
IsRate(alpha) == IsFraction(alpha) /\ Zero \prec alpha /\ alpha \preceq One

(* A belief that the cost model accepts.                                   *)
Accepted(l) == NonNeg(l.startup) /\ Pos(l.secondsPerByte)

EWMA == [kind : {"ewma"}, alpha : Fractions, secondsPerByte : Fractions, startup : Fractions]

Line == [kind : {"line"}, alpha : Fractions, secondsPerByte : Fractions, startup : Fractions,
         weight : Fractions, meanBytes : Fractions, meanSeconds : Fractions,
         bytesVar : Fractions, bytesSecondsCov : Fractions]

(* The moments of some points.                                             *)
HasPoints(l) == One \preceq l.weight /\ Pos(l.meanBytes) /\ Pos(l.meanSeconds)

GoodEWMA(l) == l \in EWMA /\ IsRate(l.alpha) /\ Accepted(l)

GoodLine(l) ==
    /\ l \in Line /\ IsRate(l.alpha) /\ Accepted(l)
    /\ NonNeg(l.weight) /\ NonNeg(l.meanBytes) /\ NonNeg(l.meanSeconds)

GoodLearner(l) == GoodEWMA(l) \/ GoodLine(l)

LEMMA DecayIsNonNeg == ASSUME NEW a, IsRate(a) PROVE NonNeg(One \ominus a)
<1>1. IsFraction(One)
  BY WholeIsFraction DEF One
<1> QED BY <1>1, DifferenceSigns DEF IsRate

LEMMA EWMAStaysGood ==
    ASSUME NEW l, GoodEWMA(l), NEW b, NEW s, Pos(b), Pos(s)
    PROVE  GoodEWMA(ObserveEWMA(l, b, s))
<1> DEFINE rate == ((One \ominus l.alpha) \otimes l.secondsPerByte)
                       \oplus (l.alpha \otimes (s \oslash b))
<1>1. l \in EWMA /\ IsRate(l.alpha) /\ NonNeg(l.startup) /\ Pos(l.secondsPerByte)
  BY DEF GoodEWMA, Accepted
<1>2. Pos(rate)
  <2>1. NonNeg((One \ominus l.alpha) \otimes l.secondsPerByte)
    BY <1>1, DecayIsNonNeg, PosIsNonNeg, ProductSigns
  <2>2. Pos(s \oslash b) /\ Pos(l.alpha)
    BY <1>1, PosIsNonNeg, QuotientSigns DEF IsRate, Pos
  <2>3. Pos(l.alpha \otimes (s \oslash b))
    BY <2>2, PosIsNonNeg, ProductSigns
  <2> QED BY <2>1, <2>3, PosIsNonNeg, SumSigns
<1>3. ObserveEWMA(l, b, s) = [l EXCEPT !.secondsPerByte = rate]
  BY DEF ObserveEWMA
<1>4. rate \in Fractions
  BY <1>2, PosIsNonNeg, FractionsAre
<1> HIDE DEF rate
<1>5. [l EXCEPT !.secondsPerByte = rate] \in EWMA
  BY <1>1, <1>4 DEF EWMA
<1>6. /\ [l EXCEPT !.secondsPerByte = rate].alpha = l.alpha
      /\ [l EXCEPT !.secondsPerByte = rate].startup = l.startup
      /\ [l EXCEPT !.secondsPerByte = rate].secondsPerByte = rate
  BY <1>1 DEF EWMA
<1> QED BY <1>1, <1>2, <1>3, <1>5, <1>6 DEF GoodEWMA, Accepted

(* One point moves the means towards it, and its weight is 1.              *)
LEMMA PointIsAdded ==
    ASSUME NEW l, GoodLine(l), NEW b, NEW s, Pos(b), Pos(s)
    PROVE  GoodLine(AddPoint(l, b, s)) /\ HasPoints(AddPoint(l, b, s))
<1> DEFINE decay == One \ominus l.alpha
           weight == (decay \otimes l.weight) \oplus One
           dBytes == b \ominus l.meanBytes
           meanBytes == l.meanBytes \oplus (dBytes \oslash weight)
           meanSeconds == l.meanSeconds \oplus ((s \ominus l.meanSeconds) \oslash weight)
           bytesVar == (decay \otimes l.bytesVar) \oplus (dBytes \otimes (b \ominus meanBytes))
           cov == (decay \otimes l.bytesSecondsCov) \oplus (dBytes \otimes (s \ominus meanSeconds))
           new == [l EXCEPT !.weight = weight, !.meanBytes = meanBytes,
                            !.meanSeconds = meanSeconds, !.bytesVar = bytesVar,
                            !.bytesSecondsCov = cov]
<1>1. /\ l \in Line /\ IsRate(l.alpha) /\ Accepted(l)
      /\ NonNeg(l.weight) /\ NonNeg(l.meanBytes) /\ NonNeg(l.meanSeconds)
  BY DEF GoodLine
<1>2. IsFraction(l.bytesVar) /\ IsFraction(l.bytesSecondsCov)
  BY <1>1, FractionsAre DEF Line
<1>3. AddPoint(l, b, s) = new
  BY DEF AddPoint
<1>4. NonNeg(decay)
  BY <1>1, DecayIsNonNeg
<1>5. IsFraction(weight) /\ One \preceq weight /\ NonNeg(weight)
  <2> DEFINE old == decay \otimes l.weight
  <2>1. NonNeg(old)
    BY <1>1, <1>4, ProductSigns
  <2> HIDE DEF old
  <2>2. PICK n, m \in Int, d \in Nat : d > 0 /\ Is(old, n, d) /\ Is(One, m, d)
    BY <2>1, OneIsPos, CommonOfTwo DEF NonNeg
  <2>3. Is(old \oplus One, n + m, d) /\ n >= 0 /\ m > 0
    BY <2>1, <2>2, IsSum, SignIs, OneIsPos
  <2>4. One \preceq (old \oplus One)
    BY <2>2, <2>3, IsOrdered
  <2>5. IsFraction(old \oplus One) /\ NonNeg(old \oplus One)
    BY <2>1, OneIsPos, SumSigns, PosIsNonNeg
  <2> QED BY <2>4, <2>5 DEF old
<1>6. Pos(meanBytes) /\ Pos(meanSeconds)
  BY <1>1, <1>5, MeanIsPos
<1>7. IsFraction(bytesVar) /\ IsFraction(cov)
  <2>1. IsFraction(decay) /\ IsFraction(b) /\ IsFraction(s) /\ IsFraction(l.meanBytes)
    BY <1>1, <1>4 DEF NonNeg, Pos
  <2>2. IsFraction(dBytes)
    BY <2>1, SumIsFraction
  <2>3. IsFraction(b \ominus meanBytes) /\ IsFraction(s \ominus meanSeconds)
    BY <1>6, <2>1, SumIsFraction DEF Pos
  <2>4. IsFraction(decay \otimes l.bytesVar) /\ IsFraction(decay \otimes l.bytesSecondsCov)
    BY <1>2, <2>1, SumIsFraction
  <2>5. /\ IsFraction(dBytes \otimes (b \ominus meanBytes))
        /\ IsFraction(dBytes \otimes (s \ominus meanSeconds))
    BY <2>2, <2>3, SumIsFraction
  <2> QED BY <2>4, <2>5, SumIsFraction
<1> HIDE DEF decay, weight, dBytes, meanBytes, meanSeconds, bytesVar, cov
<1>8. /\ new \in Line /\ new.alpha = l.alpha /\ new.startup = l.startup
      /\ new.secondsPerByte = l.secondsPerByte /\ new.weight = weight
      /\ new.meanBytes = meanBytes /\ new.meanSeconds = meanSeconds
  <2>1. /\ weight \in Fractions /\ meanBytes \in Fractions /\ meanSeconds \in Fractions
        /\ bytesVar \in Fractions /\ cov \in Fractions
    BY <1>5, <1>6, <1>7, FractionsAre DEF Pos
  <2> QED BY <1>1, <2>1 DEF Line
<1> HIDE DEF new
<1>9. GoodLine(new) /\ HasPoints(new)
  BY <1>1, <1>5, <1>6, <1>8, PosIsNonNeg DEF GoodLine, HasPoints, Accepted
<1> QED BY <1>3, <1>9

LEMMA BelieveIsGood ==
    ASSUME NEW l, GoodLine(l), NEW startup, NonNeg(startup), NEW slope, Pos(slope)
    PROVE  GoodLine(Believe(l, startup, slope))
<1> DEFINE new == Believe(l, startup, slope)
<1>1. startup \in Fractions /\ slope \in Fractions /\ l \in Line
  BY FractionsAre DEF NonNeg, Pos, GoodLine
<1>2. /\ new \in Line /\ new.startup = startup /\ new.secondsPerByte = slope
      /\ new.alpha = l.alpha /\ new.weight = l.weight
      /\ new.meanBytes = l.meanBytes /\ new.meanSeconds = l.meanSeconds
  BY <1>1 DEF Believe, Line
<1> HIDE DEF new
<1>3. GoodLine(new)
  BY <1>2 DEF GoodLine, Accepted
<1> QED BY <1>3 DEF new

LEMMA ThroughMeanIsPos ==
    ASSUME NEW l, HasPoints(l), NEW startup, IsFraction(startup), startup \prec l.meanSeconds
    PROVE  Pos(ThroughMean(l, startup))
<1>1. Pos(l.meanSeconds) /\ Pos(l.meanBytes) /\ IsFraction(l.meanSeconds)
  BY PosIsNonNeg DEF HasPoints
<1>2. Pos(l.meanSeconds \ominus startup)
  BY <1>1, DifferenceSigns
<1> QED BY <1>1, <1>2, PosIsNonNeg, QuotientSigns DEF ThroughMean

LEMMA FallBackIsGood ==
    ASSUME NEW l, GoodLine(l), HasPoints(l) PROVE GoodLine(FallBack(l))
<1>1. NonNeg(l.startup) /\ Pos(l.meanSeconds)
  BY DEF GoodLine, Accepted, HasPoints
<1>2. CASE l.meanSeconds \preceq l.startup
  <2>1. Pos(ThroughMean(l, Zero))
    BY <1>1, OneIsPos, ThroughMeanIsPos DEF Pos
  <2> QED BY <1>2, <2>1, OneIsPos, BelieveIsGood DEF FallBack
<1>3. CASE ~(l.meanSeconds \preceq l.startup)
  <2>1. l.startup \prec l.meanSeconds
    BY <1>1, <1>3, OrderLaws DEF Pos, NonNeg
  <2>2. Pos(ThroughMean(l, l.startup))
    BY <1>1, <2>1, ThroughMeanIsPos DEF NonNeg
  <2> QED BY <1>1, <1>3, <2>2, BelieveIsGood DEF FallBack
<1> QED BY <1>2, <1>3

(* A slope is only fitted where the sizes spread.                          *)
LEMMA SpreadIsPos ==
    ASSUME NEW l, GoodLine(l), HasPoints(l), EnoughSpread(l) PROVE Pos(l.bytesVar)
<1> DEFINE spread == l.weight \otimes (l.meanBytes \otimes l.meanBytes)
<1>1. IsFraction(l.bytesVar)
  BY FractionsAre DEF GoodLine, Line
<1>2. Pos(spread)
  <2>1. IsFraction(l.weight) /\ One \preceq l.weight /\ Pos(l.meanBytes)
    BY DEF GoodLine, HasPoints, NonNeg
  <2>2. Pos(l.weight)
    BY <2>1, OneIsPos, OrderLaws DEF Pos
  <2> QED BY <2>1, <2>2, PosIsNonNeg, ProductSigns
<1>3. spread \preceq (Whole(100) \otimes l.bytesVar)
  BY DEF EnoughSpread
<1> HIDE DEF spread
<1>4. PICK n \in Int, d \in Nat : d > 0 /\ Is(l.bytesVar, n, d)
  BY <1>1, IsItself, FractionType
<1>5. Is(Whole(100), 100, 1)
  <2>1. Is(Whole(100), 100 * 1, 1)
    BY WholeIs
  <2> QED BY <2>1
<1>6. Is(Whole(100) \otimes l.bytesVar, 100 * n, 1 * d)
  BY <1>4, <1>5, IsProduct
<1>7. Pos(Whole(100) \otimes l.bytesVar)
  BY <1>2, <1>3, <1>6, OneIsPos, OrderLaws DEF Pos, Is
<1>8. 100 * n > 0
  BY <1>6, <1>7, SignIs
<1> QED BY <1>4, <1>8, SignIs

LEMMA TakeFitIsGood ==
    ASSUME NEW l, GoodLine(l), HasPoints(l), EnoughSpread(l), Zero \prec l.bytesSecondsCov
    PROVE  GoodLine(TakeFit(l))
<1> DEFINE slope == l.bytesSecondsCov \oslash l.bytesVar
           startup == l.meanSeconds \ominus (slope \otimes l.meanBytes)
<1>1. Pos(slope)
  <2>1. Pos(l.bytesSecondsCov)
    BY FractionsAre DEF GoodLine, Line, Pos
  <2> QED BY <2>1, SpreadIsPos, PosIsNonNeg, QuotientSigns
<1>2. Pos(l.meanSeconds) /\ Pos(l.meanBytes)
  BY DEF HasPoints
<1>3. IsFraction(startup)
  BY <1>1, <1>2, SumIsFraction DEF Pos
<1>4. CASE Zero \preceq startup
  <2>1. TakeFit(l) = Believe(l, startup, slope)
    BY <1>4 DEF TakeFit
  <2> QED BY <1>1, <1>3, <1>4, <2>1, BelieveIsGood DEF NonNeg
<1>5. CASE ~(Zero \preceq startup)
  <2>1. TakeFit(l) = Believe(l, Zero, ThroughMean(l, Zero))
    BY <1>5 DEF TakeFit
  <2>2. Pos(ThroughMean(l, Zero))
    BY <1>2, OneIsPos, ThroughMeanIsPos DEF Pos
  <2> QED BY <2>1, <2>2, OneIsPos, BelieveIsGood
<1> QED BY <1>4, <1>5

LEMMA LearnerStaysGood ==
    ASSUME NEW l, GoodLearner(l), NEW b, NEW s, Pos(b), Pos(s)
    PROVE  GoodLearner(Observe(l, b, s))
<1>1. CASE GoodEWMA(l)
  <2>1. l.kind = "ewma"
    BY <1>1 DEF GoodEWMA, EWMA
  <2> QED BY <1>1, <2>1, EWMAStaysGood DEF Observe, GoodLearner
<1>2. CASE GoodLine(l)
  <2>1. l.kind = "line"
    BY <1>2 DEF GoodLine, Line
  <2>2. GoodLine(Refit(AddPoint(l, b, s)))
    BY <1>2, PointIsAdded, TakeFitIsGood, FallBackIsGood DEF Refit
  <2> QED BY <1>2, <2>1, <2>2 DEF Observe, ObserveLine, GoodLearner
<1> QED BY <1>1, <1>2 DEF GoodLearner

-----------------------------------------------------------------------------
(* kvreplay. *)
RowsInv == IsFile(rows) /\ ValidRows(rows)

LearnersInv ==
    /\ \E S : predictions \in Seq(S)
    /\ \A lr \in DOMAIN learners : GoodLearner(learners[lr])

LEMMA InitRows == AInit => RowsInv
<1> SUFFICES ASSUME AInit PROVE RowsInv
  OBVIOUS
<1>1. PICK files \in {ReplayFiles, LoadSimFiles} : LInit(files)
  BY DEF AInit
<1>2. rows \in ReplayFiles \cup LoadSimFiles /\ ValidRows(rows)
  BY <1>1 DEF LInit
<1> QED BY <1>2, FilesAssumption DEF RowsInv

LEMMA NewLearnersAreGood ==
    ASSUME NEW alpha \in Alphas
    PROVE  GoodLearner(NewLine(alpha, Initial)) /\ GoodLearner(NewEWMA(alpha, Initial))
<1>1. IsRate(alpha) /\ alpha \in Fractions /\ Initial \in Fractions /\ Zero \in Fractions
  BY AlphasAssumption, InitialAssumption, OneIsPos, FractionsAre DEF IsRate
<1>2. Pos(Initial) /\ NonNeg(Zero)
  BY InitialAssumption, OneIsPos DEF Pos
<1>3. GoodLine(NewLine(alpha, Initial))
  BY <1>1, <1>2 DEF NewLine, GoodLine, Line, Accepted
<1>4. GoodEWMA(NewEWMA(alpha, Initial))
  BY <1>1, <1>2 DEF NewEWMA, GoodEWMA, EWMA, Accepted
<1> QED BY <1>3, <1>4 DEF GoodLearner

LEMMA InitLearners == AInit => LearnersInv
<1> SUFFICES ASSUME AInit PROVE LearnersInv
  OBVIOUS
<1>1. /\ predictions = <<>>
      /\ learners = [lr \in {"line", "ewma"} \X Alphas |->
            IF lr[1] = "line" THEN NewLine(lr[2], Initial) ELSE NewEWMA(lr[2], Initial)]
  BY DEF AInit, RInit
<1>2. predictions \in Seq({})
  BY <1>1
<1>3. ASSUME NEW lr \in DOMAIN learners PROVE GoodLearner(learners[lr])
  <2>1. lr[2] \in Alphas
    BY <1>1
  <2>2. /\ learners[lr] = IF lr[1] = "line" THEN NewLine(lr[2], Initial)
                          ELSE NewEWMA(lr[2], Initial)
    BY <1>1
  <2> QED BY <2>1, <2>2, NewLearnersAreGood
<1> QED BY <1>2, <1>3 DEF LearnersInv

LEMMA RowsArePos ==
    ASSUME RowsInv, NEW i \in 1..Len(rows)
    PROVE  Pos(rows[i].bytes) /\ Pos(rows[i].seconds)
<1>1. rows \in Seq([bytes : Numbers, seconds : Numbers])
  BY DEF RowsInv, IsFile
<1>2. i \in DOMAIN rows
  BY <1>1
<1> QED BY <1>2 DEF RowsInv, IsFile, ValidRows, Pos

LEMMA ReplayKeepsLearners ==
    ASSUME RowsInv, LearnersInv, ReplayRow PROVE LearnersInv'
<1>1. PICK S : predictions \in Seq(S)
  BY DEF LearnersInv
<1>2. PICK p : predictions' = Append(predictions, p)
  BY DEF ReplayRow
<1>3. predictions' \in Seq(S \cup {p})
  <2>1. predictions \in Seq(S \cup {p})
    BY <1>1, Seq(S) \subseteq Seq(S \cup {p})
  <2> QED BY <1>2, <2>1
<1> DEFINE i == Read + 1
           new == [lr \in DOMAIN learners |->
                      Observe(learners[lr], rows[i].bytes, rows[i].seconds)]
<1>4. learners' = new
  BY DEF ReplayRow
<1>5. i \in 1..Len(rows)
  <2>1. Len(predictions) \in Nat /\ Len(predictions) < Len(rows)
    BY <1>1 DEF ReplayRow, Read
  <2>2. Len(rows) \in Nat
    BY DEF RowsInv, IsFile
  <2> QED BY <2>1, <2>2 DEF Read
<1> HIDE DEF i
<1>6. ASSUME NEW lr \in DOMAIN new PROVE GoodLearner(new[lr])
  <2>1. GoodLearner(learners[lr])
    BY DEF LearnersInv
  <2>2. GoodLearner(Observe(learners[lr], rows[i].bytes, rows[i].seconds))
    BY <1>5, <2>1, RowsArePos, LearnerStaysGood
  <2> QED BY <2>2
<1> HIDE DEF new
<1> QED BY <1>3, <1>4, <1>6 DEF LearnersInv

LEMMA LearnersStep == RowsInv /\ LearnersInv /\ [ANext]_avars => (RowsInv /\ LearnersInv)'
<1> SUFFICES ASSUME RowsInv, LearnersInv, [ANext]_avars PROVE (RowsInv /\ LearnersInv)'
  OBVIOUS
<1>1. UNCHANGED rows
  BY DEF ANext, Replays, Loads, avars, ReplayRow, LNext, Chunk, NextLoad
<1>2. RowsInv'
  BY <1>1 DEF RowsInv
<1>3. CASE Replays
  BY <1>2, <1>3, ReplayKeepsLearners DEF Replays
<1>4. CASE UNCHANGED replayvars
  BY <1>2, <1>4 DEF LearnersInv, replayvars
<1> QED BY <1>3, <1>4 DEF ANext, Loads, avars

(* Whatever is replayed, no learner ever believes what the cost model would *)
(* reject: not an average that fades, and none of Observe's three branches. *)
THEOREM BeliefsArePositive == ASpec => []BeliefIsPositive
<1>1. AInit => RowsInv /\ LearnersInv
  BY InitRows, InitLearners
<1>2. RowsInv /\ LearnersInv /\ [ANext]_avars => (RowsInv /\ LearnersInv)'
  BY LearnersStep
<1>3. RowsInv /\ LearnersInv => BeliefIsPositive
  BY DEF LearnersInv, GoodLearner, GoodEWMA, GoodLine, Accepted, NonNeg, Pos, BeliefIsPositive
<1> QED BY <1>1, <1>2, <1>3, PTL DEF ASpec

-----------------------------------------------------------------------------
(* The probes of kvloadsim's loaders. *)
ProbesInv ==
    /\ loader \in NewPolicies \cup {AnyLoader}
    /\ sinceLoad \in Nat /\ inARow = sinceLoad
    /\ loader.probeEvery > 0 => sinceLoad <= loader.probeEvery

LEMMA LoaderIsTyped ==
    ASSUME ProbesInv
    PROVE  loader.probeEvery \in Int /\ (loader.probeEvery > 0 => loader # AnyLoader)
BY ProbeAssumption DEF ProbesInv, NewPolicies, AnyLoader

LEMMA ChunkKeepsProbes ==
    ASSUME ProbesInv, NEW load \in BOOLEAN, Chunk(load) PROVE ProbesInv'
<1>1. loader' = loader
  BY DEF Chunk
<1>2. CASE load
  <2>1. sinceLoad' = 0 /\ inARow' = 0
    BY <1>2 DEF Chunk, LoadChunk
  <2> QED BY <1>1, <2>1, LoaderIsTyped DEF ProbesInv
<1>3. CASE ~load
  <2>1. sinceLoad' = sinceLoad + 1 /\ inARow' = inARow + 1
    BY <1>3 DEF Chunk, RecomputeChunk
  <2>2. ASSUME loader.probeEvery > 0 PROVE sinceLoad < loader.probeEvery
    <3>1. ~Decides
      BY <1>3, <2>2, LoaderIsTyped DEF Chunk
    <3> QED BY <2>2, <3>1, LoaderIsTyped DEF Decides, ProbesInv
  <2> QED BY <1>1, <2>1, <2>2, LoaderIsTyped DEF ProbesInv
<1> QED BY <1>2, <1>3

(* However slow a loader that probes believes the network, it recomputes   *)
(* no more than probeEvery chunks in a row, also across loads.             *)
THEOREM ProbesAreSpaced == ASpec => []ProbesStaySpaced
<1>1. AInit => ProbesInv
  <2> SUFFICES ASSUME AInit PROVE ProbesInv
    OBVIOUS
  <2>1. loader \in NewPolicies \cup {AnyLoader} /\ sinceLoad = 0 /\ inARow = 0
    BY DEF AInit, LInit
  <2> QED BY <2>1, ProbeAssumption DEF ProbesInv, NewPolicies, AnyLoader
<1>2. ProbesInv /\ [ANext]_avars => ProbesInv'
  <2> SUFFICES ASSUME ProbesInv, [ANext]_avars PROVE ProbesInv'
    OBVIOUS
  <2>1. CASE \E load \in BOOLEAN : Chunk(load)
    BY <2>1, ChunkKeepsProbes
  <2>2. CASE NextLoad
    BY <2>2 DEF NextLoad, ProbesInv
  <2>3. CASE UNCHANGED loadvars
    BY <2>3 DEF loadvars, ProbesInv
  <2> QED BY <2>1, <2>2, <2>3 DEF ANext, Replays, Loads, LNext, avars
<1>3. ProbesInv => ProbesStaySpaced
  BY DEF ProbesInv, ProbesStaySpaced
<1> QED BY <1>1, <1>2, <1>3, PTL DEF ASpec

-----------------------------------------------------------------------------
(* Sums over rows that fade, as they are brought up to date row by row. *)
(* Powers, and sums over the rows read so far, unfolded.                   *)
PowerTurns(x, n, p) == [i \in 0..n |-> IF i = 0 THEN One ELSE p[i - 1] \otimes x]

SumTurns(X, n, f) == [i \in 0..n |-> IF i = 0 THEN Zero ELSE f[i - 1] \oplus X[i]]

(* The same sum, brought up to date row by row: every row fades the ones   *)
(* before it.                                                              *)
FadedTurns(d, X, n, f) ==
    [i \in 0..n |-> IF i = 0 THEN Zero ELSE (d \otimes f[i - 1]) \oplus X[i]]

Faded(d, X, n) == CHOOSE f : f = FadedTurns(d, X, n, f)

AllFractions(X, n) == \A i \in 1..n : IsFraction(X[i])

LEMMA PowerIs ==
    ASSUME NEW x, NEW n PROVE Power(x, n) = (CHOOSE p : p = PowerTurns(x, n, p))[n]
BY Zenon DEF Power, PowerTurns

LEMMA PowerTurnsExist ==
    ASSUME NEW x, IsFraction(x), NEW n \in Nat
    PROVE  \E p : p = PowerTurns(x, n, p) /\ \A i \in 0..n : IsFraction(p[i])
<1> DEFINE G == [i \in 1..n |-> [y \in Fractions |-> y \otimes x]]
<1>1. ASSUME NEW i \in 1..n, NEW y \in Fractions
      PROVE  G[i][y] = y \otimes x /\ G[i][y] \in Fractions
  <2>1. y \otimes x \in Fractions
    BY SumIsFraction, FractionsAre
  <2> QED BY <2>1
<1> HIDE DEF G
<1>2. \E p : p = Steps(0, n, One, G, p) /\ \A i \in 0..n : p[i] \in Fractions
  <2>1. 0 \in Int /\ n \in Int /\ 0 <= n /\ One \in Fractions
    BY OneIsPos, FractionsAre
  <2>2. \A i \in 0 + 1..n : \A y \in Fractions : G[i][y] \in Fractions
    BY <1>1
  <2> QED BY <2>1, <2>2, Recursion, Zenon
<1>3. PICK p : p = Steps(0, n, One, G, p) /\ \A i \in 0..n : p[i] \in Fractions
  BY <1>2
<1>4. ASSUME NEW i \in 0..n
      PROVE  (IF i = 0 THEN One ELSE G[i][p[i - 1]]) = (IF i = 0 THEN One ELSE p[i - 1] \otimes x)
  <2>1. CASE i # 0
    <3>1. i \in 1..n /\ i - 1 \in 0..n
      BY <2>1
    <3> QED BY <1>1, <1>3, <3>1
  <2> QED BY <2>1
<1>5. p = PowerTurns(x, n, p)
  BY <1>3, <1>4 DEF Steps, PowerTurns
<1> QED BY <1>3, <1>5, FractionsAre

LEMMA PowerTurnsAgree ==
    ASSUME NEW x, NEW n \in Nat, NEW m \in Nat, NEW p, NEW q,
           p = PowerTurns(x, n, p), q = PowerTurns(x, m, q)
    PROVE  \A i \in Nat : i <= n /\ i <= m => p[i] = q[i]
<1> DEFINE I == {i \in Nat : i <= n /\ i <= m => p[i] = q[i]}
<1>0. /\ \A i \in 0..n : p[i] = IF i = 0 THEN One ELSE p[i - 1] \otimes x
      /\ \A i \in 0..m : q[i] = IF i = 0 THEN One ELSE q[i - 1] \otimes x
  BY DEF PowerTurns
<1>1. 0 \in I
  BY <1>0
<1>2. ASSUME NEW k \in Nat, k \in I PROVE k + 1 \in I
  <2> SUFFICES ASSUME k + 1 <= n, k + 1 <= m PROVE p[k + 1] = q[k + 1]
    OBVIOUS
  <2>1. p[k] = q[k] /\ k + 1 \in 0..n /\ k + 1 \in 0..m /\ k + 1 # 0 /\ (k + 1) - 1 = k
    BY <1>2
  <2> QED BY <1>0, <2>1
<1> HIDE DEF I
<1>3. \A i \in Nat : i \in I
  BY <1>1, <1>2, SimpleInduction
<1> QED BY <1>3 DEF I

LEMMA PowerLaws ==
    ASSUME NEW x, IsFraction(x), NEW n \in Nat
    PROVE  /\ IsFraction(Power(x, n)) /\ Power(x, 0) = One
           /\ Power(x, n + 1) = Power(x, n) \otimes x
<1> DEFINE P(k) == CHOOSE p : p = PowerTurns(x, k, p)
<1>1. ASSUME NEW k \in Nat
      PROVE  /\ P(k) = PowerTurns(x, k, P(k)) /\ \A i \in 0..k : IsFraction(P(k)[i])
             /\ Power(x, k) = P(k)[k]
  <2>1. PICK p : p = PowerTurns(x, k, p) /\ \A i \in 0..k : IsFraction(p[i])
    BY PowerTurnsExist
  <2>2. P(k) = PowerTurns(x, k, P(k))
    BY Zenon, <2>1
  <2>3. Power(x, k) = P(k)[k]
    BY PowerIs
  <2> HIDE DEF P
  <2>4. \A i \in Nat : i <= k => P(k)[i] = p[i]
    BY <2>1, <2>2, PowerTurnsAgree
  <2> QED BY <2>1, <2>2, <2>3, <2>4
<1> HIDE DEF P
<1>2. Power(x, 0) = One
  <2>1. Power(x, 0) = P(0)[0] /\ P(0) = PowerTurns(x, 0, P(0))
    BY <1>1
  <2> QED BY <2>1 DEF PowerTurns
<1>3. P(n + 1)[n + 1] = P(n + 1)[n] \otimes x
  <2>1. n + 1 \in Nat /\ P(n + 1) = PowerTurns(x, n + 1, P(n + 1))
    BY <1>1
  <2>2. n + 1 \in 0..n + 1 /\ n + 1 # 0 /\ (n + 1) - 1 = n
    OBVIOUS
  <2> QED BY <2>1, <2>2 DEF PowerTurns
<1>4. P(n + 1)[n] = P(n)[n]
  <2>1. n + 1 \in Nat /\ n <= n /\ n <= n + 1
    OBVIOUS
  <2> QED BY <1>1, <2>1, PowerTurnsAgree
<1>5. n + 1 \in Nat /\ n \in 0..n
  OBVIOUS
<1> QED BY <1>1, <1>2, <1>3, <1>4, <1>5

LEMMA FadedTurnsExist ==
    ASSUME NEW d, IsFraction(d), NEW X, NEW n \in Nat, AllFractions(X, n)
    PROVE  \E f : f = FadedTurns(d, X, n, f) /\ \A i \in 0..n : IsFraction(f[i])
<1> DEFINE G == [i \in 1..n |-> [y \in Fractions |-> (d \otimes y) \oplus X[i]]]
<1>1. ASSUME NEW i \in 1..n, NEW y \in Fractions
      PROVE  G[i][y] = (d \otimes y) \oplus X[i] /\ G[i][y] \in Fractions
  <2>1. IsFraction(y) /\ IsFraction(X[i])
    BY FractionsAre DEF AllFractions
  <2>2. (d \otimes y) \oplus X[i] \in Fractions
    BY <2>1, SumIsFraction, FractionsAre
  <2> QED BY <2>2
<1> HIDE DEF G
<1>2. \E f : f = Steps(0, n, Zero, G, f) /\ \A i \in 0..n : f[i] \in Fractions
  <2>1. 0 \in Int /\ n \in Int /\ 0 <= n /\ Zero \in Fractions
    BY OneIsPos, FractionsAre
  <2>2. \A i \in 0 + 1..n : \A y \in Fractions : G[i][y] \in Fractions
    BY <1>1
  <2> QED BY <2>1, <2>2, Recursion, Zenon
<1>3. PICK f : f = Steps(0, n, Zero, G, f) /\ \A i \in 0..n : f[i] \in Fractions
  BY <1>2
<1>4. ASSUME NEW i \in 0..n
      PROVE  (IF i = 0 THEN Zero ELSE G[i][f[i - 1]])
                 = (IF i = 0 THEN Zero ELSE (d \otimes f[i - 1]) \oplus X[i])
  <2>1. CASE i # 0
    <3>1. i \in 1..n /\ i - 1 \in 0..n
      BY <2>1
    <3> QED BY <1>1, <1>3, <3>1
  <2> QED BY <2>1
<1>5. f = FadedTurns(d, X, n, f)
  BY <1>3, <1>4 DEF Steps, FadedTurns
<1> QED BY <1>3, <1>5, FractionsAre

LEMMA FadedIs ==
    ASSUME NEW d, IsFraction(d), NEW X, NEW n \in Nat, AllFractions(X, n)
    PROVE  /\ Faded(d, X, n)[0] = Zero
           /\ \A i \in 0..n : IsFraction(Faded(d, X, n)[i])
           /\ \A i \in 1..n : Faded(d, X, n)[i] = (d \otimes Faded(d, X, n)[i - 1]) \oplus X[i]
<1> DEFINE f == Faded(d, X, n)
<1>1. \E g : g = FadedTurns(d, X, n, g)
  BY FadedTurnsExist
<1>2. f = FadedTurns(d, X, n, f)
  BY Zenon, <1>1 DEF Faded
<1> HIDE DEF f
<1>3. \A i \in 0..n : f[i] = IF i = 0 THEN Zero ELSE (d \otimes f[i - 1]) \oplus X[i]
  BY <1>2 DEF FadedTurns
<1>4. f[0] = Zero /\ \A i \in 1..n : f[i] = (d \otimes f[i - 1]) \oplus X[i]
  BY <1>3
<1> DEFINE I == {i \in Nat : i <= n => IsFraction(f[i])}
<1>5. 0 \in I
  BY <1>4, OneIsPos
<1>6. ASSUME NEW k \in Nat, k \in I PROVE k + 1 \in I
  <2> SUFFICES ASSUME k + 1 <= n PROVE IsFraction(f[k + 1])
    OBVIOUS
  <2>1. IsFraction(f[k]) /\ k + 1 \in 1..n /\ (k + 1) - 1 = k
    BY <1>6
  <2>2. f[k + 1] = (d \otimes f[k]) \oplus X[k + 1] /\ IsFraction(X[k + 1])
    BY <1>4, <2>1 DEF AllFractions
  <2> QED BY <2>1, <2>2, SumIsFraction
<1> HIDE DEF I
<1>7. \A k \in Nat : k \in I
  BY <1>5, <1>6, SimpleInduction
<1>8. \A i \in 0..n : IsFraction(f[i])
  BY <1>7 DEF I
<1> QED BY <1>4, <1>8 DEF f

(* A sum whose every term is weighted by how often it faded is the one     *)
(* brought up to date row by row.                                          *)
LEMMA SumIsFaded ==
    ASSUME NEW d, IsFraction(d), NEW X, NEW n \in Nat, AllFractions(X, n),
           NEW r \in 0..n, NEW T, NEW g, g = SumTurns(T, r, g),
           \A i \in 1..r : T[i] = Power(d, r - i) \otimes X[i]
    PROVE  g[r] = Faded(d, X, n)[r]
<1> DEFINE f == Faded(d, X, n)
           P(k) == Power(d, r - k)
           I == {k \in Nat : k <= r => g[k] = P(k) \otimes f[k]}
<1>1. /\ f[0] = Zero /\ \A i \in 0..n : IsFraction(f[i])
      /\ \A i \in 1..n : f[i] = (d \otimes f[i - 1]) \oplus X[i]
  BY FadedIs
<1>2. ASSUME NEW k \in 0..r PROVE IsFraction(P(k)) /\ (k < r => P(k) = P(k + 1) \otimes d)
  <2>1. r - k \in Nat /\ IsFraction(P(k))
    BY PowerLaws
  <2>2. ASSUME k < r PROVE P(k) = P(k + 1) \otimes d
    <3>1. r - (k + 1) \in Nat /\ (r - (k + 1)) + 1 = r - k
      BY <2>2
    <3> QED BY <3>1, PowerLaws
  <2> QED BY <2>1, <2>2
<1>3. P(r) = One
  <2>1. r - r = 0
    OBVIOUS
  <2> QED BY <2>1, PowerLaws
<1> HIDE DEF f, P
<1>4. g[0] = Zero /\ \A k \in Nat : k + 1 <= r => g[k + 1] = g[k] \oplus T[k + 1]
  <2>1. \A i \in 0..r : g[i] = IF i = 0 THEN Zero ELSE g[i - 1] \oplus T[i]
    BY DEF SumTurns
  <2>2. ASSUME NEW k \in Nat, k + 1 <= r PROVE g[k + 1] = g[k] \oplus T[k + 1]
    <3>1. k + 1 \in 0..r /\ k + 1 # 0 /\ (k + 1) - 1 = k
      BY <2>2
    <3> QED BY <2>1, <3>1
  <2> QED BY <2>1, <2>2
<1>5. 0 \in I
  <2>1. IsFraction(P(0))
    BY <1>2
  <2> QED BY <1>1, <1>4, <2>1, OneLaws
<1>6. ASSUME NEW k \in Nat, k \in I PROVE k + 1 \in I
  <2> SUFFICES ASSUME k + 1 <= r PROVE g[k + 1] = P(k + 1) \otimes f[k + 1]
    OBVIOUS
  <2> DEFINE l == k + 1
             Q == P(l)
             x == X[l]
             F == f[k]
  <2>1. /\ k \in 0..r /\ k < r /\ l \in 0..r /\ l \in 1..r /\ l \in 1..n /\ l \in 0..n
        /\ k \in 0..n /\ l - 1 = k /\ g[k] = P(k) \otimes f[k]
    BY <1>6
  <2> HIDE DEF l, I
  <2>2. P(k) = Q \otimes d /\ IsFraction(Q) /\ IsFraction(F) /\ IsFraction(x)
    BY <1>1, <1>2, <2>1 DEF AllFractions, l
  <2>3. T[l] = Q \otimes x /\ f[l] = (d \otimes F) \oplus x
    BY <1>1, <2>1 DEF P
  <2>4. g[l] = g[k] \oplus T[l]
    BY <1>4, <2>1 DEF l
  <2> HIDE DEF Q, x, F
  <2>5. (Q \otimes d) \otimes F = Q \otimes (d \otimes F) /\ IsFraction(d \otimes F)
    BY <2>2, ProductAssociates, SumIsFraction
  <2>6. Q \otimes ((d \otimes F) \oplus x) = (Q \otimes (d \otimes F)) \oplus (Q \otimes x)
    BY <2>2, <2>5, FactorDistributes
  <2>7. g[k] = (Q \otimes d) \otimes F
    BY <2>1, <2>2 DEF F
  <2>8. g[l] = Q \otimes f[l]
    BY <2>3, <2>4, <2>5, <2>6, <2>7
  <2> QED BY <2>8 DEF Q, l
<1> HIDE DEF I
<1>7. \A k \in Nat : k \in I
  BY <1>5, <1>6, SimpleInduction
<1>8. g[r] = P(r) \otimes f[r] /\ IsFraction(f[r])
  BY <1>1, <1>7 DEF I
<1> QED BY <1>3, <1>8, OneLaws DEF f

(* Faded sums are linear.                                                  *)
Combines(Z, X, a, Y, c, W, n) ==
    /\ AllFractions(X, n) /\ AllFractions(Y, n) /\ AllFractions(W, n)
    /\ IsFraction(a) /\ IsFraction(c)
    /\ \A i \in 1..n : Z[i] = X[i] \ominus ((a \otimes Y[i]) \oplus (c \otimes W[i]))

LEMMA FadedIsLinear ==
    ASSUME NEW d, IsFraction(d), NEW n \in Nat, NEW X, NEW Y, NEW W, NEW Z,
           NEW a, NEW c, Combines(Z, X, a, Y, c, W, n), NEW r \in 0..n
    PROVE  /\ Faded(d, Z, n)[r] = Faded(d, X, n)[r] \ominus
                  ((a \otimes Faded(d, Y, n)[r]) \oplus (c \otimes Faded(d, W, n)[r]))
           /\ AllFractions(Z, n)
<1> SUFFICES ASSUME AllFractions(X, n), AllFractions(Y, n), AllFractions(W, n),
                    IsFraction(a), IsFraction(c)
             PROVE  /\ Faded(d, Z, n)[r] = Faded(d, X, n)[r] \ominus
                           ((a \otimes Faded(d, Y, n)[r]) \oplus (c \otimes Faded(d, W, n)[r]))
                    /\ AllFractions(Z, n)
  BY DEF Combines
<1> DEFINE x == Faded(d, X, n)
           y == Faded(d, Y, n)
           w == Faded(d, W, n)
           z == Faded(d, Z, n)
           I == {k \in Nat : k <= n => z[k] = x[k] \ominus ((a \otimes y[k]) \oplus (c \otimes w[k]))}
<1>0. AllFractions(Z, n)
  BY SumIsFraction DEF AllFractions, Combines
<1>1. /\ x[0] = Zero /\ \A i \in 0..n : IsFraction(x[i])
      /\ \A i \in 1..n : x[i] = (d \otimes x[i - 1]) \oplus X[i]
  BY FadedIs
<1>2. /\ y[0] = Zero /\ \A i \in 0..n : IsFraction(y[i])
      /\ \A i \in 1..n : y[i] = (d \otimes y[i - 1]) \oplus Y[i]
  BY FadedIs
<1>3. /\ w[0] = Zero /\ \A i \in 0..n : IsFraction(w[i])
      /\ \A i \in 1..n : w[i] = (d \otimes w[i - 1]) \oplus W[i]
  BY FadedIs
<1>4. /\ z[0] = Zero /\ \A i \in 1..n : z[i] = (d \otimes z[i - 1]) \oplus Z[i]
  BY <1>0, FadedIs
<1> HIDE DEF x, y, w, z
<1>5. 0 \in I
  <2>1. a \otimes Zero = Zero /\ c \otimes Zero = Zero /\ Zero \oplus Zero = Zero
        /\ Zero \ominus Zero = Zero
    BY OneLaws, ZeroLaws, OneIsPos
  <2> QED BY <1>1, <1>2, <1>3, <1>4, <2>1
<1>6. ASSUME NEW k \in Nat, k \in I PROVE k + 1 \in I
  <2> SUFFICES ASSUME k + 1 <= n
               PROVE  z[k + 1] = x[k + 1] \ominus ((a \otimes y[k + 1]) \oplus (c \otimes w[k + 1]))
    OBVIOUS
  <2> DEFINE l == k + 1
  <2>1. /\ l \in 1..n /\ k \in 0..n /\ l - 1 = k
        /\ z[k] = x[k] \ominus ((a \otimes y[k]) \oplus (c \otimes w[k]))
    BY <1>6
  <2> HIDE DEF l, I
  <2>2. /\ x[l] = (d \otimes x[k]) \oplus X[l] /\ y[l] = (d \otimes y[k]) \oplus Y[l]
        /\ w[l] = (d \otimes w[k]) \oplus W[l] /\ z[l] = (d \otimes z[k]) \oplus Z[l]
        /\ IsFraction(x[k]) /\ IsFraction(y[k]) /\ IsFraction(w[k])
        /\ IsFraction(X[l]) /\ IsFraction(Y[l]) /\ IsFraction(W[l])
        /\ Z[l] = X[l] \ominus ((a \otimes Y[l]) \oplus (c \otimes W[l]))
    BY <1>1, <1>2, <1>3, <1>4, <2>1 DEF AllFractions, Combines
  <2>3. ASSUME NEW u, NEW U, NEW v, NEW V, NEW t, NEW S,
               IsFraction(u), IsFraction(U), IsFraction(v), IsFraction(V),
               IsFraction(t), IsFraction(S)
        PROVE  (d \otimes (u \ominus ((a \otimes v) \oplus (c \otimes t))))
                   \oplus (U \ominus ((a \otimes V) \oplus (c \otimes S)))
               = ((d \otimes u) \oplus U) \ominus
                     ((a \otimes ((d \otimes v) \oplus V)) \oplus (c \otimes ((d \otimes t) \oplus S)))
    <3>1. /\ IsFraction(a \otimes v) /\ IsFraction(c \otimes t) /\ IsFraction(d \otimes u)
          /\ IsFraction(a \otimes V) /\ IsFraction(c \otimes S)
          /\ IsFraction(d \otimes v) /\ IsFraction(d \otimes t)
          /\ IsFraction(d \otimes (a \otimes v)) /\ IsFraction(d \otimes (c \otimes t))
      BY <2>3, SumIsFraction
    <3>2. IsFraction((a \otimes v) \oplus (c \otimes t))
      BY <3>1, SumIsFraction
    <3>3. d \otimes (u \ominus ((a \otimes v) \oplus (c \otimes t)))
              = (d \otimes u) \ominus (d \otimes ((a \otimes v) \oplus (c \otimes t)))
      BY <2>3, <3>2, FactorDistributes
    <3>4. d \otimes ((a \otimes v) \oplus (c \otimes t))
              = (d \otimes (a \otimes v)) \oplus (d \otimes (c \otimes t))
      BY <3>1, FactorDistributes
    <3>5. /\ a \otimes ((d \otimes v) \oplus V) = (a \otimes (d \otimes v)) \oplus (a \otimes V)
          /\ c \otimes ((d \otimes t) \oplus S) = (c \otimes (d \otimes t)) \oplus (c \otimes S)
      BY <2>3, <3>1, FactorDistributes
    <3>6. a \otimes (d \otimes v) = d \otimes (a \otimes v) /\ c \otimes (d \otimes t) = d \otimes (c \otimes t)
      BY <2>3, FactorsSwap
    <3>7. ((d \otimes u) \ominus ((d \otimes (a \otimes v)) \oplus (d \otimes (c \otimes t))))
              \oplus (U \ominus ((a \otimes V) \oplus (c \otimes S)))
          = ((d \otimes u) \oplus U) \ominus
                (((d \otimes (a \otimes v)) \oplus (a \otimes V))
                    \oplus ((d \otimes (c \otimes t)) \oplus (c \otimes S)))
      <4>1. PICK g, h, i, j, m : /\ g = d \otimes u /\ h = d \otimes (a \otimes v)
                                 /\ i = d \otimes (c \otimes t)
                                 /\ j = a \otimes V /\ m = c \otimes S
        OBVIOUS
      <4>2. /\ IsFraction(g) /\ IsFraction(h) /\ IsFraction(i)
            /\ IsFraction(U) /\ IsFraction(j) /\ IsFraction(m)
        BY <2>3, <3>1, <4>1
      <4>3. (g \ominus (h \oplus i)) \oplus (U \ominus (j \oplus m))
                = (g \oplus U) \ominus ((h \oplus j) \oplus (i \oplus m))
        BY <4>2, TakingsAddUp
      <4> QED BY <4>1, <4>3
    <3> QED BY <3>3, <3>4, <3>5, <3>6, <3>7
  <2>4. z[l] = x[l] \ominus ((a \otimes y[l]) \oplus (c \otimes w[l]))
    <3>1. (d \otimes (x[k] \ominus ((a \otimes y[k]) \oplus (c \otimes w[k]))))
              \oplus (X[l] \ominus ((a \otimes Y[l]) \oplus (c \otimes W[l])))
          = ((d \otimes x[k]) \oplus X[l]) \ominus
                ((a \otimes ((d \otimes y[k]) \oplus Y[l])) \oplus (c \otimes ((d \otimes w[k]) \oplus W[l])))
      BY <2>2, <2>3
    <3> QED BY <2>1, <2>2, <3>1
  <2> QED BY <2>4 DEF l
<1> HIDE DEF I
<1>7. \A k \in Nat : k \in I
  BY <1>5, <1>6, SimpleInduction
<1>8. z[r] = x[r] \ominus ((a \otimes y[r]) \oplus (c \otimes w[r]))
  BY <1>7 DEF I
<1> QED BY <1>0, <1>8 DEF x, y, w, z

(* A faded sum of products of deviations from the means, by faded sums of  *)
(* what deviates.                                                          *)
Covaries(Z, P, X, a, Y, b, O, n) ==
    /\ AllFractions(X, n) /\ AllFractions(Y, n) /\ IsFraction(a) /\ IsFraction(b)
    /\ \A i \in 1..n : /\ O[i] = One /\ P[i] = X[i] \otimes Y[i]
                       /\ Z[i] = (X[i] \ominus a) \otimes (Y[i] \ominus b)

LEMMA CovarianceIs ==
    ASSUME NEW d, IsFraction(d), NEW n \in Nat, NEW X, NEW Y, NEW O, NEW P, NEW Z,
           NEW a, NEW b, Covaries(Z, P, X, a, Y, b, O, n),
           NEW r \in 0..n, b \otimes Faded(d, O, n)[r] = Faded(d, Y, n)[r]
    PROVE  Faded(d, Z, n)[r] = Faded(d, P, n)[r] \ominus (b \otimes Faded(d, X, n)[r])
<1> SUFFICES ASSUME AllFractions(X, n), AllFractions(Y, n), IsFraction(a), IsFraction(b),
                    \A i \in 1..n : /\ O[i] = One /\ P[i] = X[i] \otimes Y[i]
                                    /\ Z[i] = (X[i] \ominus a) \otimes (Y[i] \ominus b)
             PROVE  Faded(d, Z, n)[r] = Faded(d, P, n)[r] \ominus (b \otimes Faded(d, X, n)[r])
  BY DEF Covaries
<1> DEFINE D == [i \in 1..n |-> Y[i] \ominus b]
<1>1. AllFractions(O, n) /\ AllFractions(P, n)
  BY OneIsPos, SumIsFraction DEF AllFractions
<1>2. Combines(D, Y, b, O, Zero, O, n)
  <2> SUFFICES ASSUME NEW i \in 1..n
               PROVE  D[i] = Y[i] \ominus ((b \otimes O[i]) \oplus (Zero \otimes O[i]))
    BY <1>1, OneIsPos DEF Combines
  <2>1. b \otimes One = b /\ Zero \otimes One = Zero /\ b \oplus Zero = b
    BY OneLaws, ZeroLaws, OneIsPos
  <2> QED BY <2>1
<1>3. \A i \in 1..n : D[i] = Y[i] \ominus b
  OBVIOUS
<1> HIDE DEF D
<1>4. /\ AllFractions(D, n)
      /\ Faded(d, D, n)[r] = Faded(d, Y, n)[r] \ominus
             ((b \otimes Faded(d, O, n)[r]) \oplus (Zero \otimes Faded(d, O, n)[r]))
  BY <1>1, <1>2, OneIsPos, FadedIsLinear
<1>5. /\ IsFraction(Faded(d, Y, n)[r]) /\ IsFraction(Faded(d, O, n)[r])
      /\ IsFraction(Faded(d, X, n)[r]) /\ IsFraction(Faded(d, P, n)[r])
  BY <1>1, FadedIs
<1>6. Faded(d, D, n)[r] = Zero
  BY <1>4, <1>5, ZeroLaws
<1>7. Combines(Z, P, b, X, a, D, n)
  <2> SUFFICES ASSUME NEW i \in 1..n
               PROVE  Z[i] = P[i] \ominus ((b \otimes X[i]) \oplus (a \otimes D[i]))
    BY <1>1, <1>4 DEF Combines
  <2>1. PICK x, y, t : x = X[i] /\ y = Y[i] /\ t = D[i]
    OBVIOUS
  <2>2. IsFraction(x) /\ IsFraction(y) /\ t = y \ominus b /\ IsFraction(t)
    BY <1>3, <2>1, SumIsFraction DEF AllFractions
  <2>3. (x \ominus a) \otimes t = (x \otimes t) \ominus (a \otimes t)
    BY <2>2, FactorDistributes
  <2>4. x \otimes (y \ominus b) = (x \otimes y) \ominus (x \otimes b) /\ x \otimes b = b \otimes x
    BY <2>2, FactorDistributes, ProductCommutes
  <2>5. IsFraction(x \otimes y) /\ IsFraction(b \otimes x) /\ IsFraction(a \otimes t)
    BY <2>2, SumIsFraction
  <2>6. ((x \otimes y) \ominus (b \otimes x)) \ominus (a \otimes t)
            = (x \otimes y) \ominus ((b \otimes x) \oplus (a \otimes t))
    BY <2>5, TakenTwice
  <2> QED BY <2>1, <2>2, <2>3, <2>4, <2>6
<1>8. Faded(d, Z, n)[r] = Faded(d, P, n)[r] \ominus
          ((b \otimes Faded(d, X, n)[r]) \oplus (a \otimes Zero))
  <2>1. Faded(d, Z, n)[r] = Faded(d, P, n)[r] \ominus
            ((b \otimes Faded(d, X, n)[r]) \oplus (a \otimes Faded(d, D, n)[r]))
    BY <1>7, FadedIsLinear
  <2> QED BY <1>6, <2>1
<1>9. a \otimes Zero = Zero /\ IsFraction(b \otimes Faded(d, X, n)[r])
  BY <1>5, OneLaws, SumIsFraction
<1> QED BY <1>8, <1>9, ZeroLaws

(* What one point does to a weighted mean, and to two of them and their    *)
(* covariance.                                                             *)
LEMMA MeanMoves ==
    ASSUME NEW d, NEW w, NEW x, NEW m,
           IsFraction(d), IsFraction(w), IsFraction(x), IsFraction(m), Pos((d \otimes w) \oplus One)
    PROVE  LET v == (d \otimes w) \oplus One
               a == m \oplus ((x \ominus m) \oslash v)
           IN  IsFraction(a) /\ a \otimes v = (d \otimes (m \otimes w)) \oplus x
<1> DEFINE v == (d \otimes w) \oplus One
           t == (x \ominus m) \oslash v
<1>1. /\ IsFraction(v) /\ Pos(v) /\ IsFraction(x \ominus m) /\ IsFraction(d \otimes w)
      /\ IsFraction(m \otimes w) /\ IsFraction(d \otimes (m \otimes w))
  BY SumIsFraction DEF Pos
<1>2. IsFraction(t) /\ t \otimes v = x \ominus m
  BY <1>1, QuotientSigns, QuotientCancels
<1>3. m \otimes v = (d \otimes (m \otimes w)) \oplus m
  <2>1. m \otimes v = (m \otimes (d \otimes w)) \oplus (m \otimes One)
    BY <1>1, OneIsPos, FactorDistributes
  <2> QED BY <2>1, FactorsSwap, OneLaws
<1> HIDE DEF v, t
<1>4. IsFraction(m \oplus t) /\ (m \oplus t) \otimes v = (m \otimes v) \oplus (t \otimes v)
  BY <1>1, <1>2, SumIsFraction, ProductDistributes
<1>5. ((d \otimes (m \otimes w)) \oplus m) \oplus (x \ominus m)
          = (d \otimes (m \otimes w)) \oplus (m \oplus (x \ominus m))
  BY <1>1, SumAssociates
<1>6. m \oplus (x \ominus m) = x
  BY DifferenceLaws
<1> QED BY <1>2, <1>3, <1>4, <1>5, <1>6 DEF v, t

LEMMA CovarianceMoves ==
    ASSUME NEW d, NEW w, NEW x, NEW y, NEW m, NEW k, NEW c, NEW q,
           IsFraction(d), IsFraction(w), IsFraction(x), IsFraction(y),
           IsFraction(m), IsFraction(k), IsFraction(c), IsFraction(q),
           c \otimes ((d \otimes w) \oplus One) = (d \otimes (k \otimes w)) \oplus y
    PROVE  (d \otimes (q \ominus (k \otimes (m \otimes w)))) \oplus ((x \ominus m) \otimes (y \ominus c))
               = ((d \otimes q) \oplus (x \otimes y)) \ominus (c \otimes ((d \otimes (m \otimes w)) \oplus x))
<1>1. PICK A, B, C, E, xy, xc, dq :
          /\ A = c \otimes (d \otimes (m \otimes w)) /\ B = m \otimes c
          /\ C = d \otimes (k \otimes (m \otimes w)) /\ E = m \otimes y
          /\ xy = x \otimes y /\ xc = x \otimes c /\ dq = d \otimes q
  OBVIOUS
<1>2. /\ IsFraction(m \otimes w) /\ IsFraction(k \otimes w) /\ IsFraction(d \otimes w)
      /\ IsFraction(xy) /\ IsFraction(xc) /\ IsFraction(dq) /\ IsFraction(B) /\ IsFraction(E)
      /\ IsFraction(y \ominus c) /\ IsFraction(x \ominus m)
  BY <1>1, SumIsFraction
<1>3. /\ IsFraction(k \otimes (m \otimes w)) /\ IsFraction(d \otimes (m \otimes w))
      /\ IsFraction(d \otimes (k \otimes w)) /\ IsFraction(c \otimes (d \otimes w))
  BY <1>2, SumIsFraction
<1>4. IsFraction(A) /\ IsFraction(C)
  BY <1>1, <1>3, SumIsFraction
<1>5. d \otimes (q \ominus (k \otimes (m \otimes w))) = dq \ominus C
  BY <1>1, <1>3, FactorDistributes
<1>6. (x \ominus m) \otimes (y \ominus c) = (xy \ominus xc) \ominus (E \ominus B)
  <2>1. (x \ominus m) \otimes (y \ominus c) = (x \otimes (y \ominus c)) \ominus (m \otimes (y \ominus c))
    BY <1>2, FactorDistributes
  <2>2. x \otimes (y \ominus c) = xy \ominus xc /\ m \otimes (y \ominus c) = E \ominus B
    BY <1>1, FactorDistributes
  <2> QED BY <2>1, <2>2
<1>7. c \otimes ((d \otimes (m \otimes w)) \oplus x) = A \oplus xc
  <2>1. c \otimes ((d \otimes (m \otimes w)) \oplus x) = A \oplus (c \otimes x)
    BY <1>1, <1>3, FactorDistributes
  <2> QED BY <1>1, <2>1, ProductCommutes
<1>8. A \oplus B = C \oplus E
  <2>1. c \otimes ((d \otimes w) \oplus One) = (c \otimes (d \otimes w)) \oplus c
    <3>1. c \otimes ((d \otimes w) \oplus One) = (c \otimes (d \otimes w)) \oplus (c \otimes One)
      BY <1>2, OneIsPos, FactorDistributes
    <3> QED BY <3>1, OneLaws
  <2>2. m \otimes ((c \otimes (d \otimes w)) \oplus c) = (m \otimes (c \otimes (d \otimes w))) \oplus B
    BY <1>1, <1>3, FactorDistributes
  <2>3. m \otimes ((d \otimes (k \otimes w)) \oplus y) = (m \otimes (d \otimes (k \otimes w))) \oplus E
    BY <1>1, <1>3, FactorDistributes
  <2>4. m \otimes (c \otimes (d \otimes w)) = A
    <3>1. m \otimes (c \otimes (d \otimes w)) = c \otimes (m \otimes (d \otimes w))
      BY <1>2, FactorsSwap
    <3>2. m \otimes (d \otimes w) = d \otimes (m \otimes w)
      BY FactorsSwap
    <3> QED BY <1>1, <3>1, <3>2
  <2>5. m \otimes (d \otimes (k \otimes w)) = C
    <3>1. m \otimes (d \otimes (k \otimes w)) = d \otimes (m \otimes (k \otimes w))
      BY <1>2, FactorsSwap
    <3>2. m \otimes (k \otimes w) = k \otimes (m \otimes w)
      BY FactorsSwap
    <3> QED BY <1>1, <3>1, <3>2
  <2> QED BY <2>1, <2>2, <2>3, <2>4, <2>5
<1>9. (dq \ominus C) \oplus ((xy \ominus xc) \ominus (E \ominus B)) = (dq \oplus xy) \ominus (A \oplus xc)
  BY <1>2, <1>4, <1>8, Rebalanced
<1>10. d \otimes q = dq /\ x \otimes y = xy
  BY <1>1
<1> QED BY <1>5, <1>6, <1>7, <1>9, <1>10

-----------------------------------------------------------------------------
(* What a line learner keeps, and which line it takes from that. *)
Ones(n) == [i \in 1..n |-> One]

Products(X, Y, n) == [i \in 1..n |-> X[i] \otimes Y[i]]

(* The moments that a line keeps are those of the first r of the points    *)
(* X[i], Y[i].                                                             *)
Moments(l, X, Y, n, r) ==
    LET d == One \ominus l.alpha
        x == Faded(d, X, n)[r]
    IN  /\ l.weight = Faded(d, Ones(n), n)[r]
        /\ l.meanBytes \otimes l.weight = x
        /\ l.meanSeconds \otimes l.weight = Faded(d, Y, n)[r]
        /\ l.bytesVar = Faded(d, Products(X, X, n), n)[r] \ominus (l.meanBytes \otimes x)
        /\ l.bytesSecondsCov = Faded(d, Products(X, Y, n), n)[r] \ominus (l.meanSeconds \otimes x)

LEMMA PointsAreFractions ==
    ASSUME NEW n \in Nat, NEW X, NEW Y, AllFractions(X, n), AllFractions(Y, n)
    PROVE  AllFractions(Ones(n), n) /\ AllFractions(Products(X, Y, n), n)
BY OneIsPos, SumIsFraction DEF AllFractions, Ones, Products

LEMMA MomentsMove ==
    ASSUME NEW l, GoodLine(l), NEW n \in Nat, NEW X, NEW Y, AllFractions(X, n), AllFractions(Y, n),
           NEW r \in 1..n, Moments(l, X, Y, n, r - 1)
    PROVE  Moments(AddPoint(l, X[r], Y[r]), X, Y, n, r)
<1> DEFINE d == One \ominus l.alpha
           v == (d \otimes l.weight) \oplus One
           m == l.meanBytes \oplus ((X[r] \ominus l.meanBytes) \oslash v)
           c == l.meanSeconds \oplus ((Y[r] \ominus l.meanSeconds) \oslash v)
           u == (d \otimes l.bytesVar) \oplus ((X[r] \ominus l.meanBytes) \otimes (X[r] \ominus m))
           k == (d \otimes l.bytesSecondsCov)
                    \oplus ((X[r] \ominus l.meanBytes) \otimes (Y[r] \ominus c))
           new == AddPoint(l, X[r], Y[r])
           F(Z) == Faded(d, Z, n)[r]
           G(Z) == Faded(d, Z, n)[r - 1]
<1>1. /\ l \in Line /\ IsRate(l.alpha) /\ NonNeg(l.weight)
      /\ IsFraction(l.weight) /\ IsFraction(l.meanBytes) /\ IsFraction(l.meanSeconds)
      /\ IsFraction(X[r]) /\ IsFraction(Y[r])
  BY DEF GoodLine, NonNeg, AllFractions
<1>2. NonNeg(d) /\ IsFraction(d)
  BY <1>1, DecayIsNonNeg DEF NonNeg
<1>3. Pos(v)
  <2>1. NonNeg(d \otimes l.weight)
    BY <1>1, <1>2, ProductSigns
  <2>2. Pos(One) /\ NonNeg(One)
    BY OneIsPos, PosIsNonNeg
  <2>3. Pos((d \otimes l.weight) \oplus One)
    BY <2>1, <2>2, SumSigns, Zenon
  <2> QED BY <2>3
<1>4. /\ new.alpha = l.alpha /\ new.weight = v /\ new.meanBytes = m /\ new.meanSeconds = c
      /\ new.bytesVar = u /\ new.bytesSecondsCov = k
  BY <1>1 DEF AddPoint, Line
<1>5. ASSUME NEW Z, AllFractions(Z, n)
      PROVE  IsFraction(G(Z)) /\ F(Z) = (d \otimes G(Z)) \oplus Z[r]
  <2>1. r - 1 \in 0..n
    OBVIOUS
  <2> QED BY <1>2, <1>5, <2>1, FadedIs
<1>6. /\ AllFractions(Ones(n), n) /\ Ones(n)[r] = One
      /\ AllFractions(Products(X, X, n), n) /\ Products(X, X, n)[r] = X[r] \otimes X[r]
      /\ AllFractions(Products(X, Y, n), n) /\ Products(X, Y, n)[r] = X[r] \otimes Y[r]
  BY PointsAreFractions DEF Ones, Products
<1>7. /\ l.weight = G(Ones(n)) /\ l.meanBytes \otimes l.weight = G(X)
      /\ l.meanSeconds \otimes l.weight = G(Y)
      /\ l.bytesVar = G(Products(X, X, n)) \ominus (l.meanBytes \otimes (l.meanBytes \otimes l.weight))
      /\ l.bytesSecondsCov = G(Products(X, Y, n))
                                 \ominus (l.meanSeconds \otimes (l.meanBytes \otimes l.weight))
  BY DEF Moments
<1>8. m \otimes v = (d \otimes (l.meanBytes \otimes l.weight)) \oplus X[r] /\ IsFraction(m)
  BY <1>1, <1>2, <1>3, MeanMoves
<1>9. c \otimes v = (d \otimes (l.meanSeconds \otimes l.weight)) \oplus Y[r] /\ IsFraction(c)
  BY <1>1, <1>2, <1>3, MeanMoves
<1> HIDE DEF m, c, d
<1>10. v = F(Ones(n)) /\ m \otimes v = F(X) /\ c \otimes v = F(Y)
  BY <1>5, <1>6, <1>7, <1>8, <1>9
<1>11. u = F(Products(X, X, n)) \ominus (m \otimes F(X))
  <2> DEFINE q == G(Products(X, X, n))
  <2>1. IsFraction(q) /\ F(Products(X, X, n)) = (d \otimes q) \oplus (X[r] \otimes X[r])
    BY <1>5, <1>6
  <2>2. l.bytesVar = q \ominus (l.meanBytes \otimes (l.meanBytes \otimes l.weight))
    BY <1>7
  <2> HIDE DEF q
  <2>3. F(X) = (d \otimes (l.meanBytes \otimes l.weight)) \oplus X[r]
    BY <1>8, <1>10
  <2>4. (d \otimes (q \ominus (l.meanBytes \otimes (l.meanBytes \otimes l.weight))))
            \oplus ((X[r] \ominus l.meanBytes) \otimes (X[r] \ominus m))
        = ((d \otimes q) \oplus (X[r] \otimes X[r]))
              \ominus (m \otimes ((d \otimes (l.meanBytes \otimes l.weight)) \oplus X[r]))
    BY <1>1, <1>2, <1>8, <2>1, CovarianceMoves
  <2> QED BY <2>1, <2>2, <2>3, <2>4
<1>12. k = F(Products(X, Y, n)) \ominus (c \otimes F(X))
  <2> DEFINE q == G(Products(X, Y, n))
  <2>1. IsFraction(q) /\ F(Products(X, Y, n)) = (d \otimes q) \oplus (X[r] \otimes Y[r])
    BY <1>5, <1>6
  <2>2. l.bytesSecondsCov = q \ominus (l.meanSeconds \otimes (l.meanBytes \otimes l.weight))
    BY <1>7
  <2> HIDE DEF q
  <2>3. F(X) = (d \otimes (l.meanBytes \otimes l.weight)) \oplus X[r]
    BY <1>8, <1>10
  <2>4. (d \otimes (q \ominus (l.meanSeconds \otimes (l.meanBytes \otimes l.weight))))
            \oplus ((X[r] \ominus l.meanBytes) \otimes (Y[r] \ominus c))
        = ((d \otimes q) \oplus (X[r] \otimes Y[r]))
              \ominus (c \otimes ((d \otimes (l.meanBytes \otimes l.weight)) \oplus X[r]))
    BY <1>1, <1>2, <1>9, <2>1, CovarianceMoves
  <2> QED BY <2>1, <2>2, <2>3, <2>4
<1>13. One \ominus new.alpha = d
  BY <1>4 DEF d
<1>14. /\ new.weight = Faded(d, Ones(n), n)[r]
       /\ new.meanBytes \otimes new.weight = Faded(d, X, n)[r]
       /\ new.meanSeconds \otimes new.weight = Faded(d, Y, n)[r]
       /\ new.bytesVar = Faded(d, Products(X, X, n), n)[r]
                             \ominus (new.meanBytes \otimes Faded(d, X, n)[r])
       /\ new.bytesSecondsCov = Faded(d, Products(X, Y, n), n)[r]
                                    \ominus (new.meanSeconds \otimes Faded(d, X, n)[r])
  BY <1>4, <1>10, <1>11, <1>12
<1> HIDE DEF new
<1>15. Moments(new, X, Y, n, r)
  BY <1>13, <1>14 DEF Moments
<1> QED BY <1>15 DEF new

(* A line through the mean point is the optimum, or there is a reason.     *)
Fitted(l) ==
    /\ l.startup \oplus (l.secondsPerByte \otimes l.meanBytes) = l.meanSeconds
    /\ \/ l.secondsPerByte \otimes l.bytesVar = l.bytesSecondsCov
       \/ (Whole(100) \otimes l.bytesVar) \prec (l.weight \otimes (l.meanBytes \otimes l.meanBytes))
       \/ l.bytesSecondsCov \preceq Zero
       \/ (l.meanSeconds \otimes l.bytesVar) \prec (l.meanBytes \otimes l.bytesSecondsCov)

SamePoints(l, k) ==
    /\ k.alpha = l.alpha /\ k.weight = l.weight
    /\ k.meanBytes = l.meanBytes /\ k.meanSeconds = l.meanSeconds
    /\ k.bytesVar = l.bytesVar /\ k.bytesSecondsCov = l.bytesSecondsCov

LEMMA BelieveKeepsPoints ==
    ASSUME NEW l, l \in Line, NEW startup, NEW slope
    PROVE  /\ SamePoints(l, Believe(l, startup, slope))
           /\ Believe(l, startup, slope).startup = startup
           /\ Believe(l, startup, slope).secondsPerByte = slope
BY DEF Believe, Line, SamePoints

LEMMA ThroughMeanFits ==
    ASSUME NEW l, HasPoints(l), NEW startup, IsFraction(startup)
    PROVE  startup \oplus (ThroughMean(l, startup) \otimes l.meanBytes) = l.meanSeconds
<1>1. IsFraction(l.meanSeconds) /\ Pos(l.meanBytes)
  BY DEF HasPoints, Pos
<1>2. IsFraction(l.meanSeconds \ominus startup)
  BY <1>1, SumIsFraction
<1>3. ThroughMean(l, startup) \otimes l.meanBytes = l.meanSeconds \ominus startup
  BY <1>1, <1>2, QuotientCancels DEF ThroughMean
<1> QED BY <1>1, <1>3, DifferenceLaws

LEMMA FallBackFits ==
    ASSUME NEW l, GoodLine(l), HasPoints(l), ~EnoughSpread(l) \/ ~(Zero \prec l.bytesSecondsCov)
    PROVE  Fitted(FallBack(l)) /\ SamePoints(l, FallBack(l))
<1>1. PICK startup : /\ IsFraction(startup)
                     /\ FallBack(l) = Believe(l, startup, ThroughMean(l, startup))
  <2>1. IsFraction(l.startup) /\ IsFraction(Zero)
    BY OneIsPos DEF GoodLine, Accepted, NonNeg
  <2> QED BY <2>1 DEF FallBack
<1> DEFINE k == FallBack(l)
<1>2. /\ SamePoints(l, k) /\ k.startup = startup /\ k.secondsPerByte = ThroughMean(l, startup)
  BY <1>1, BelieveKeepsPoints DEF GoodLine
<1> HIDE DEF k
<1>3. k.startup \oplus (k.secondsPerByte \otimes k.meanBytes) = k.meanSeconds
  BY <1>1, <1>2, ThroughMeanFits DEF SamePoints
<1>4. IsFraction(l.bytesVar) /\ IsFraction(l.bytesSecondsCov)
      /\ IsFraction(l.weight) /\ IsFraction(l.meanBytes) /\ IsFraction(Whole(100))
  BY WholeIsFraction, FractionsAre DEF GoodLine, Line
<1>5. CASE ~EnoughSpread(l)
  <2>1. /\ IsFraction(Whole(100) \otimes l.bytesVar)
        /\ IsFraction(l.weight \otimes (l.meanBytes \otimes l.meanBytes))
    BY <1>4, SumIsFraction
  <2>2. (Whole(100) \otimes l.bytesVar) \prec (l.weight \otimes (l.meanBytes \otimes l.meanBytes))
    BY <1>5, <2>1, OrderLaws DEF EnoughSpread
  <2> QED BY <1>2, <1>3, <2>2 DEF Fitted, SamePoints, k
<1>6. CASE ~(Zero \prec l.bytesSecondsCov)
  <2>1. l.bytesSecondsCov \preceq Zero
    BY <1>4, <1>6, OneIsPos, OrderLaws
  <2> QED BY <1>2, <1>3, <2>1 DEF Fitted, SamePoints, k
<1> QED BY <1>5, <1>6

LEMMA TakeFitFits ==
    ASSUME NEW l, GoodLine(l), HasPoints(l), EnoughSpread(l)
    PROVE  Fitted(TakeFit(l)) /\ SamePoints(l, TakeFit(l))
<1> DEFINE slope == l.bytesSecondsCov \oslash l.bytesVar
           startup == l.meanSeconds \ominus (slope \otimes l.meanBytes)
           k == TakeFit(l)
<1>1. /\ Pos(l.bytesVar) /\ IsFraction(l.bytesSecondsCov) /\ l \in Line
      /\ IsFraction(l.meanSeconds) /\ IsFraction(l.meanBytes) /\ IsFraction(Zero)
  BY SpreadIsPos, FractionsAre, OneIsPos DEF GoodLine, Line
<1>2. slope \otimes l.bytesVar = l.bytesSecondsCov /\ IsFraction(slope)
  BY <1>1, QuotientCancels, QuotientSigns
<1>3. IsFraction(slope \otimes l.meanBytes) /\ IsFraction(startup)
  <2>1. IsFraction(slope \otimes l.meanBytes)
    BY <1>1, <1>2, SumIsFraction
  <2> QED BY <1>1, <2>1, SumIsFraction
<1>4. TakeFit(l) = IF Zero \preceq startup THEN Believe(l, startup, slope)
                   ELSE Believe(l, Zero, ThroughMean(l, Zero))
  BY DEF TakeFit
<1> HIDE DEF slope
<1>5. CASE Zero \preceq startup
  <2>1. SamePoints(l, k) /\ k.startup = startup /\ k.secondsPerByte = slope
    BY <1>1, <1>4, <1>5, BelieveKeepsPoints
  <2>2. startup \oplus (slope \otimes l.meanBytes) = l.meanSeconds
    <3>1. (slope \otimes l.meanBytes) \oplus startup = l.meanSeconds
      BY <1>1, <1>3, DifferenceLaws
    <3> QED BY <1>3, <3>1, SumCommutes
  <2> HIDE DEF k, startup
  <2> QED BY <1>2, <2>1, <2>2 DEF Fitted, SamePoints, k
<1>6. CASE ~(Zero \preceq startup)
  <2>1. /\ SamePoints(l, k) /\ k.startup = Zero /\ k.secondsPerByte = ThroughMean(l, Zero)
    BY <1>1, <1>4, <1>6, BelieveKeepsPoints
  <2>2. Zero \oplus (ThroughMean(l, Zero) \otimes l.meanBytes) = l.meanSeconds
    BY <1>1, ThroughMeanFits
  <2>3. l.meanSeconds \prec (slope \otimes l.meanBytes)
    <3>1. ~((slope \otimes l.meanBytes) \preceq l.meanSeconds)
      <4>1. NonNeg(startup) <=> (slope \otimes l.meanBytes) \preceq l.meanSeconds
        BY <1>1, <1>3, DifferenceSigns
      <4> QED BY <1>3, <1>6, <4>1 DEF NonNeg
    <3> QED BY <1>1, <1>3, <3>1, OrderLaws
  <2>4. (l.meanSeconds \otimes l.bytesVar) \prec ((slope \otimes l.meanBytes) \otimes l.bytesVar)
    BY <1>1, <1>3, <2>3, ProductIsMonotone
  <2>5. (slope \otimes l.meanBytes) \otimes l.bytesVar = l.meanBytes \otimes l.bytesSecondsCov
    <3>1. IsFraction(l.bytesVar)
      BY <1>1 DEF Pos
    <3>2. (slope \otimes l.meanBytes) \otimes l.bytesVar = slope \otimes (l.meanBytes \otimes l.bytesVar)
      BY <1>1, <1>2, <3>1, ProductAssociates
    <3>3. slope \otimes (l.meanBytes \otimes l.bytesVar) = l.meanBytes \otimes (slope \otimes l.bytesVar)
      BY <1>1, <1>2, <3>1, FactorsSwap
    <3> QED BY <1>2, <3>2, <3>3
  <2> HIDE DEF k, startup
  <2> QED BY <2>1, <2>2, <2>4, <2>5 DEF Fitted, SamePoints, k
<1> QED BY <1>5, <1>6

LEMMA RefitFits ==
    ASSUME NEW l, GoodLine(l), HasPoints(l) PROVE Fitted(Refit(l)) /\ SamePoints(l, Refit(l))
BY FallBackFits, TakeFitFits DEF Refit

(* The normal equations of a line that goes through the mean point.        *)
LEMMA ResidualIs ==
    ASSUME NEW a, NEW k, NEW m, NEW w, IsFraction(a), IsFraction(k), IsFraction(m), IsFraction(w)
    PROVE  ((a \oplus (k \otimes m)) \otimes w) \ominus ((a \otimes w) \oplus (k \otimes (m \otimes w)))
               = Zero
<1>1. IsFraction(k \otimes m) /\ IsFraction((a \oplus (k \otimes m)) \otimes w)
  BY SumIsFraction
<1>2. (a \oplus (k \otimes m)) \otimes w = (a \otimes w) \oplus ((k \otimes m) \otimes w)
  BY <1>1, ProductDistributes
<1>3. (k \otimes m) \otimes w = k \otimes (m \otimes w)
  BY ProductAssociates
<1> QED BY <1>1, <1>2, <1>3, ZeroLaws

LEMMA Balanced ==
    ASSUME NEW x, NEW y, NEW z, NEW w,
           IsFraction(x), IsFraction(y), IsFraction(z), IsFraction(w),
           x \ominus y = z \ominus (w \oplus y)
    PROVE  z \ominus (w \oplus x) = Zero
<1>1. PICK n, m, l, k \in Int, d \in Nat :
          d > 0 /\ Is(x, n, d) /\ Is(y, m, d) /\ Is(z, l, d) /\ Is(w, k, d)
  BY CommonOfFour
<1>2. Is(w \oplus y, k + m, d) /\ Is(w \oplus x, k + n, d) /\ Is(x \ominus y, n - m, d)
  BY <1>1, IsSum, IsDifference
<1>3. Is(x \ominus y, l - (k + m), d) /\ Is(z \ominus (w \oplus x), l - (k + n), d)
  BY <1>1, <1>2, IsDifference
<1>4. n - m = l - (k + m)
  BY <1>2, <1>3, IsNumerator
<1>5. l - (k + n) = 0
  BY <1>4
<1> QED BY <1>1, <1>3, <1>5, ZeroIs, IsUnique

LEMMA TiltIs ==
    ASSUME NEW a, NEW k, NEW m, NEW p, NEW q, NEW f, IsFraction(a), IsFraction(k), IsFraction(m),
           IsFraction(p), IsFraction(q), IsFraction(f),
           k \otimes (p \ominus (m \otimes f)) = q \ominus ((a \oplus (k \otimes m)) \otimes f)
    PROVE  q \ominus ((a \otimes f) \oplus (k \otimes p)) = Zero
<1>1. PICK x, y, w : x = k \otimes p /\ y = k \otimes (m \otimes f) /\ w = a \otimes f
  OBVIOUS
<1>2. IsFraction(k \otimes m) /\ IsFraction(m \otimes f)
  BY SumIsFraction
<1>3. IsFraction(x) /\ IsFraction(y) /\ IsFraction(w)
  BY <1>1, <1>2, SumIsFraction
<1>4. k \otimes (p \ominus (m \otimes f)) = x \ominus y
  BY <1>1, <1>2, FactorDistributes
<1>5. (a \oplus (k \otimes m)) \otimes f = w \oplus y
  <2>1. (a \oplus (k \otimes m)) \otimes f = (a \otimes f) \oplus ((k \otimes m) \otimes f)
    BY <1>2, ProductDistributes
  <2>2. (k \otimes m) \otimes f = k \otimes (m \otimes f)
    BY ProductAssociates
  <2> QED BY <1>1, <2>1, <2>2
<1>6. q \ominus (w \oplus x) = Zero
  BY <1>3, <1>4, <1>5, Balanced
<1> QED BY <1>1, <1>6

LEMMA MeanOfProduct ==
    ASSUME NEW m, NEW w, IsFraction(m), Pos(w) PROVE (m \otimes w) \oslash w = m
<1>1. PICK n, k \in Int, d \in Nat : d > 0 /\ Is(m, n, d) /\ Is(w, k, d)
  BY CommonOfTwo DEF Pos
<1>2. k \in Nat /\ k > 0
  BY <1>1, SignIs
<1>3. Is(m \otimes w, n * k, d * d) /\ Is(w, k * d, d * d)
  BY <1>1, IsProduct, IsScaled
<1>4. k * d > 0
  BY <1>1, <1>2
<1>5. Is((m \otimes w) \oslash w, n * k, k * d)
  BY <1>3, <1>4, IsQuotient
<1>6. Is(m, n * k, d * k) /\ d * k = k * d
  BY <1>1, <1>2, IsScaled
<1> QED BY <1>5, <1>6, IsUnique

LEMMA SumTurnsExist ==
    ASSUME NEW n \in Nat, NEW T, AllFractions(T, n) PROVE \E f : f = SumTurns(T, n, f)
<1> DEFINE G == [i \in 1..n |-> [y \in Fractions |-> y \oplus T[i]]]
<1>1. ASSUME NEW i \in 1..n, NEW y \in Fractions
      PROVE  G[i][y] = y \oplus T[i] /\ G[i][y] \in Fractions
  <2>1. y \oplus T[i] \in Fractions
    BY SumIsFraction, FractionsAre DEF AllFractions
  <2> QED BY <2>1
<1> HIDE DEF G
<1>2. \E f : f = Steps(0, n, Zero, G, f) /\ \A i \in 0..n : f[i] \in Fractions
  <2>1. 0 \in Int /\ n \in Int /\ 0 <= n /\ Zero \in Fractions
    BY OneIsPos, FractionsAre
  <2>2. \A i \in 0 + 1..n : \A y \in Fractions : G[i][y] \in Fractions
    BY <1>1
  <2> QED BY <2>1, <2>2, Recursion, Zenon
<1>3. PICK f : f = Steps(0, n, Zero, G, f) /\ \A i \in 0..n : f[i] \in Fractions
  BY <1>2
<1>4. ASSUME NEW i \in 0..n
      PROVE  (IF i = 0 THEN Zero ELSE G[i][f[i - 1]]) = (IF i = 0 THEN Zero ELSE f[i - 1] \oplus T[i])
  <2>1. CASE i # 0
    <3>1. i \in 1..n /\ i - 1 \in 0..n
      BY <2>1
    <3> QED BY <1>1, <1>3, <3>1
  <2> QED BY <2>1
<1>5. f = SumTurns(T, n, f)
  BY <1>3, <1>4 DEF Steps, SumTurns
<1> QED BY <1>5

LEMMA WeightedIs ==
    ASSUME NEW alpha, IsFraction(alpha), NEW n \in Nat, NEW X, AllFractions(X, n), Read \in 0..n
    PROVE  Weighted(alpha, X) = Faded(One \ominus alpha, X, n)[Read]
<1> DEFINE d == One \ominus alpha
           T == [i \in 1..Read |-> Power(d, Read - i) \otimes X[i]]
           W(s) == [i \in 0..Read |-> IF i = 0 THEN Zero
                                      ELSE s[i - 1] \oplus (Power(d, Read - i) \otimes X[i])]
           s == CHOOSE f : f = W(f)
<1>1. Weighted(alpha, X) = s[Read]
  BY Zenon DEF Weighted, Sum
<1>2. IsFraction(d)
  BY OneIsPos, SumIsFraction
<1>3. ASSUME NEW f PROVE W(f) = SumTurns(T, Read, f)
  <2>1. ASSUME NEW i \in 0..Read
        PROVE  (IF i = 0 THEN Zero ELSE f[i - 1] \oplus (Power(d, Read - i) \otimes X[i]))
                   = (IF i = 0 THEN Zero ELSE f[i - 1] \oplus T[i])
    <3>1. i = 0 \/ i \in 1..Read
      OBVIOUS
    <3> QED BY <3>1
  <2> QED BY <2>1 DEF SumTurns
<1>4. \E f : f = SumTurns(T, Read, f)
  <2>1. ASSUME NEW i \in 1..Read PROVE IsFraction(T[i])
    <3>1. Read - i \in Nat /\ i \in 1..n
      OBVIOUS
    <3>2. IsFraction(Power(d, Read - i)) /\ IsFraction(X[i])
      BY <1>2, <3>1, PowerLaws DEF AllFractions
    <3>3. IsFraction(Power(d, Read - i) \otimes X[i])
      BY <3>2, SumIsFraction
    <3> QED BY <3>3
  <2> HIDE DEF T
  <2>2. AllFractions(T, Read) /\ Read \in Nat
    BY <2>1 DEF AllFractions
  <2> QED BY <2>2, SumTurnsExist
<1>5. \E f : f = W(f)
  BY <1>3, <1>4
<1>6. s = W(s)
  BY Zenon, <1>5
<1> HIDE DEF s
<1>7. s = SumTurns(T, Read, s)
  BY <1>3, <1>6
<1>8. \A i \in 1..Read : T[i] = Power(d, Read - i) \otimes X[i]
  OBVIOUS
<1> HIDE DEF T, W
<1>9. s[Read] = Faded(d, X, n)[Read]
  BY <1>2, <1>7, <1>8, SumIsFaded
<1> QED BY <1>1, <1>9

(* A line that has seen the first r of the points B[i], S[i].              *)
Seen(l, B, S, n, r) ==
    /\ GoodLine(l) /\ HasPoints(l)
    /\ n \in Nat /\ r \in 0..n /\ AllFractions(B, n) /\ AllFractions(S, n)
    /\ Moments(l, B, S, n, r)

LEMMA SeenTypes ==
    ASSUME NEW l, NEW B, NEW S, NEW n, NEW r, Seen(l, B, S, n, r)
    PROVE  /\ n \in Nat /\ r \in 0..n /\ AllFractions(B, n) /\ AllFractions(S, n)
           /\ AllFractions(Ones(n), n) /\ AllFractions(Products(B, B, n), n)
           /\ AllFractions(Products(B, S, n), n)
           /\ IsFraction(One \ominus l.alpha)
           /\ IsFraction(l.startup) /\ IsFraction(l.secondsPerByte) /\ Pos(l.weight)
           /\ IsFraction(l.meanBytes) /\ IsFraction(l.meanSeconds)
           /\ IsFraction(l.bytesVar) /\ IsFraction(l.bytesSecondsCov)
<1>1. n \in Nat /\ r \in 0..n /\ AllFractions(B, n) /\ AllFractions(S, n)
      /\ GoodLine(l) /\ HasPoints(l)
  BY DEF Seen
<1>2. /\ IsFraction(l.startup) /\ IsFraction(l.secondsPerByte) /\ IsFraction(l.weight)
      /\ IsFraction(l.meanBytes) /\ IsFraction(l.meanSeconds) /\ IsFraction(l.alpha)
      /\ IsFraction(l.bytesVar) /\ IsFraction(l.bytesSecondsCov)
  BY <1>1, FractionsAre DEF GoodLine, Line
<1>3. Pos(l.weight)
  BY <1>1, <1>2, OneIsPos, OrderLaws DEF HasPoints, Pos
<1>4. IsFraction(One \ominus l.alpha)
  BY <1>2, OneIsPos, SumIsFraction
<1> QED BY <1>1, <1>2, <1>3, <1>4, PointsAreFractions

LEMMA MeansAre ==
    ASSUME NEW l, NEW B, NEW S, NEW n, NEW r, Seen(l, B, S, n, r)
    PROVE  LET d == One \ominus l.alpha
               w == Faded(d, Ones(n), n)[r]
           IN  /\ w = l.weight
               /\ Faded(d, B, n)[r] = l.meanBytes \otimes w
               /\ Faded(d, S, n)[r] = l.meanSeconds \otimes w
               /\ Faded(d, B, n)[r] \oslash w = l.meanBytes
               /\ Faded(d, S, n)[r] \oslash w = l.meanSeconds
<1> DEFINE d == One \ominus l.alpha
<1>1. /\ Faded(d, Ones(n), n)[r] = l.weight
      /\ Faded(d, B, n)[r] = l.meanBytes \otimes l.weight
      /\ Faded(d, S, n)[r] = l.meanSeconds \otimes l.weight
  BY DEF Seen, Moments
<1>2. /\ (l.meanBytes \otimes l.weight) \oslash l.weight = l.meanBytes
      /\ (l.meanSeconds \otimes l.weight) \oslash l.weight = l.meanSeconds
  BY SeenTypes, MeanOfProduct
<1> QED BY <1>1, <1>2

(* The residuals of such a line are those of the rows.                     *)
IsResidual(R, l, B, S, n) ==
    \A i \in 1..n : R[i] = S[i] \ominus (l.startup \oplus (l.secondsPerByte \otimes B[i]))

LEMMA ResidualFades ==
    ASSUME NEW l, NEW B, NEW S, NEW n, NEW r, Seen(l, B, S, n, r), Fitted(l),
           NEW R, IsResidual(R, l, B, S, n)
    PROVE  Faded(One \ominus l.alpha, R, n)[r] = Zero
<1> DEFINE d == One \ominus l.alpha
           a == l.startup
           k == l.secondsPerByte
           w == Faded(d, Ones(n), n)[r]
<1>1. /\ n \in Nat /\ r \in 0..n /\ AllFractions(B, n) /\ AllFractions(S, n)
      /\ AllFractions(Ones(n), n) /\ IsFraction(d) /\ IsFraction(a) /\ IsFraction(k)
      /\ IsFraction(l.meanBytes) /\ IsFraction(l.weight)
  BY SeenTypes DEF Pos
<1>2. Combines(R, S, a, Ones(n), k, B, n)
  <2> SUFFICES ASSUME NEW i \in 1..n
               PROVE  R[i] = S[i] \ominus ((a \otimes Ones(n)[i]) \oplus (k \otimes B[i]))
    BY <1>1 DEF Combines
  <2>1. a \otimes Ones(n)[i] = a
    BY <1>1, OneLaws DEF Ones
  <2> QED BY <2>1 DEF IsResidual
<1>3. w = l.weight /\ Faded(d, B, n)[r] = l.meanBytes \otimes w
      /\ Faded(d, S, n)[r] = l.meanSeconds \otimes w
  BY MeansAre
<1>4. l.meanSeconds = a \oplus (k \otimes l.meanBytes)
  BY DEF Fitted
<1> HIDE DEF d, a, k
<1>5. Faded(d, R, n)[r] = Faded(d, S, n)[r]
          \ominus ((a \otimes Faded(d, Ones(n), n)[r]) \oplus (k \otimes Faded(d, B, n)[r]))
  BY <1>1, <1>2, FadedIsLinear
<1> HIDE DEF w
<1>6. ((a \oplus (k \otimes l.meanBytes)) \otimes w)
          \ominus ((a \otimes w) \oplus (k \otimes (l.meanBytes \otimes w))) = Zero
  BY <1>1, <1>3, ResidualIs
<1>7. Faded(d, R, n)[r] = Zero
  BY <1>3, <1>4, <1>5, <1>6 DEF w
<1> QED BY <1>7 DEF d

LEMMA TiltFades ==
    ASSUME NEW l, NEW B, NEW S, NEW n, NEW r, Seen(l, B, S, n, r), Fitted(l),
           l.secondsPerByte \otimes l.bytesVar = l.bytesSecondsCov,
           NEW R, IsResidual(R, l, B, S, n), NEW T, \A i \in 1..n : T[i] = B[i] \otimes R[i]
    PROVE  Faded(One \ominus l.alpha, T, n)[r] = Zero
<1> DEFINE d == One \ominus l.alpha
           a == l.startup
           k == l.secondsPerByte
           p == Faded(d, Products(B, B, n), n)[r]
           q == Faded(d, Products(B, S, n), n)[r]
           f == Faded(d, B, n)[r]
<1>1. /\ n \in Nat /\ r \in 0..n /\ AllFractions(B, n) /\ AllFractions(S, n)
      /\ AllFractions(Products(B, B, n), n) /\ AllFractions(Products(B, S, n), n)
      /\ IsFraction(d) /\ IsFraction(a) /\ IsFraction(k) /\ IsFraction(l.meanBytes)
  BY SeenTypes
<1>2. IsFraction(p) /\ IsFraction(q) /\ IsFraction(f)
  BY <1>1, FadedIs
<1>3. Combines(T, Products(B, S, n), a, B, k, Products(B, B, n), n)
  <2> SUFFICES ASSUME NEW i \in 1..n
               PROVE  T[i] = Products(B, S, n)[i]
                          \ominus ((a \otimes B[i]) \oplus (k \otimes Products(B, B, n)[i]))
    BY <1>1 DEF Combines
  <2>1. PICK b, s : b = B[i] /\ s = S[i]
    OBVIOUS
  <2>2. IsFraction(b) /\ IsFraction(s)
    BY <1>1, <2>1 DEF AllFractions
  <2>3. T[i] = b \otimes (s \ominus (a \oplus (k \otimes b)))
    BY <2>1 DEF IsResidual
  <2>4. Products(B, S, n)[i] = b \otimes s /\ Products(B, B, n)[i] = b \otimes b
    BY <2>1 DEF Products
  <2> HIDE DEF a, k
  <2>5. IsFraction(k \otimes b)
    BY <1>1, <2>2, SumIsFraction
  <2>6. IsFraction(a \oplus (k \otimes b))
    BY <1>1, <2>5, SumIsFraction
  <2>7. b \otimes (s \ominus (a \oplus (k \otimes b)))
            = (b \otimes s) \ominus (b \otimes (a \oplus (k \otimes b)))
    BY <2>2, <2>6, FactorDistributes
  <2>8. b \otimes (a \oplus (k \otimes b)) = (b \otimes a) \oplus (b \otimes (k \otimes b))
    BY <1>1, <2>2, <2>5, FactorDistributes
  <2>9. b \otimes a = a \otimes b /\ b \otimes (k \otimes b) = k \otimes (b \otimes b)
    BY <1>1, <2>2, ProductCommutes, FactorsSwap
  <2> QED BY <2>1, <2>3, <2>4, <2>7, <2>8, <2>9
<1>4. l.meanSeconds = a \oplus (k \otimes l.meanBytes)
  BY DEF Fitted
<1>5. l.bytesVar = p \ominus (l.meanBytes \otimes f)
      /\ l.bytesSecondsCov = q \ominus (l.meanSeconds \otimes f)
  BY DEF Seen, Moments
<1>6. k \otimes (p \ominus (l.meanBytes \otimes f)) = q \ominus ((a \oplus (k \otimes l.meanBytes)) \otimes f)
  BY <1>4, <1>5
<1> HIDE DEF d, a, k
<1>7. Faded(d, T, n)[r] = q \ominus ((a \otimes f) \oplus (k \otimes p))
  BY <1>1, <1>3, FadedIsLinear
<1> HIDE DEF p, q, f
<1>8. q \ominus ((a \otimes f) \oplus (k \otimes p)) = Zero
  BY <1>1, <1>2, <1>6, TiltIs
<1> QED BY <1>7, <1>8 DEF d

LEMMA VarianceIs ==
    ASSUME NEW l, NEW B, NEW S, NEW n, NEW r, Seen(l, B, S, n, r), NEW Z,
           \A i \in 1..n : Z[i] = (B[i] \ominus l.meanBytes) \otimes (B[i] \ominus l.meanBytes)
    PROVE  Faded(One \ominus l.alpha, Z, n)[r] = l.bytesVar
<1> DEFINE d == One \ominus l.alpha
<1>1. /\ n \in Nat /\ r \in 0..n /\ AllFractions(B, n) /\ IsFraction(d) /\ IsFraction(l.meanBytes)
  BY SeenTypes
<1>2. l.meanBytes \otimes Faded(d, Ones(n), n)[r] = Faded(d, B, n)[r]
  BY MeansAre
<1>3. Covaries(Z, Products(B, B, n), B, l.meanBytes, B, l.meanBytes, Ones(n), n)
  BY <1>1 DEF Covaries, Ones, Products
<1>4. l.bytesVar = Faded(d, Products(B, B, n), n)[r] \ominus (l.meanBytes \otimes Faded(d, B, n)[r])
  BY DEF Seen, Moments
<1> HIDE DEF d
<1>5. Faded(d, Z, n)[r]
          = Faded(d, Products(B, B, n), n)[r] \ominus (l.meanBytes \otimes Faded(d, B, n)[r])
  BY <1>1, <1>2, <1>3, CovarianceIs
<1> QED BY <1>4, <1>5 DEF d

LEMMA CovarianceIsSeen ==
    ASSUME NEW l, NEW B, NEW S, NEW n, NEW r, Seen(l, B, S, n, r), NEW Z,
           \A i \in 1..n : Z[i] = (B[i] \ominus l.meanBytes) \otimes (S[i] \ominus l.meanSeconds)
    PROVE  Faded(One \ominus l.alpha, Z, n)[r] = l.bytesSecondsCov
<1> DEFINE d == One \ominus l.alpha
<1>1. /\ n \in Nat /\ r \in 0..n /\ AllFractions(B, n) /\ AllFractions(S, n) /\ IsFraction(d)
      /\ IsFraction(l.meanBytes) /\ IsFraction(l.meanSeconds)
  BY SeenTypes
<1>2. l.meanSeconds \otimes Faded(d, Ones(n), n)[r] = Faded(d, S, n)[r]
  BY MeansAre
<1>3. Covaries(Z, Products(B, S, n), B, l.meanBytes, S, l.meanSeconds, Ones(n), n)
  BY <1>1 DEF Covaries, Ones, Products
<1>4. l.bytesSecondsCov
          = Faded(d, Products(B, S, n), n)[r] \ominus (l.meanSeconds \otimes Faded(d, B, n)[r])
  BY DEF Seen, Moments
<1> HIDE DEF d
<1>5. Faded(d, Z, n)[r]
          = Faded(d, Products(B, S, n), n)[r] \ominus (l.meanSeconds \otimes Faded(d, B, n)[r])
  BY <1>1, <1>2, <1>3, CovarianceIs
<1> QED BY <1>4, <1>5 DEF d

-----------------------------------------------------------------------------
(* What the lines of kvreplay have learned of the rows read. *)
RowBytes == [i \in DOMAIN rows |-> rows[i].bytes]
RowSeconds == [i \in DOMAIN rows |-> rows[i].seconds]

LineInv(l, alpha) ==
    /\ GoodLine(l) /\ l.alpha = alpha
    /\ Moments(l, RowBytes, RowSeconds, Len(rows), Read)
    /\ Read > 0 => HasPoints(l) /\ Fitted(l)

LinesInv ==
    /\ DOMAIN learners = {"line", "ewma"} \X Alphas
    /\ Read \in 0..Len(rows)
    /\ \A alpha \in Alphas : LineInv(learners[<<"line", alpha>>], alpha)

LEMMA RowsAreFractions ==
    ASSUME RowsInv
    PROVE  /\ Len(rows) \in Nat /\ DOMAIN rows = 1..Len(rows)
           /\ AllFractions(RowBytes, Len(rows)) /\ AllFractions(RowSeconds, Len(rows))
<1>1. Len(rows) \in Nat /\ DOMAIN rows = 1..Len(rows)
  BY DEF RowsInv, IsFile
<1>2. \A i \in 1..Len(rows) : /\ RowBytes[i] = rows[i].bytes /\ RowSeconds[i] = rows[i].seconds
                              /\ IsFraction(rows[i].bytes) /\ IsFraction(rows[i].seconds)
  BY <1>1 DEF RowBytes, RowSeconds, RowsInv, IsFile
<1> QED BY <1>1, <1>2 DEF AllFractions

LEMMA MomentsStay ==
    ASSUME NEW l, NEW k, SamePoints(l, k), NEW B, NEW S, NEW n, NEW r, Moments(l, B, S, n, r)
    PROVE  Moments(k, B, S, n, r)
BY DEF SamePoints, Moments

LEMMA NoMoments ==
    ASSUME NEW alpha, IsRate(alpha), NEW n \in Nat, NEW B, NEW S,
           AllFractions(B, n), AllFractions(S, n)
    PROVE  Moments(NewLine(alpha, Initial), B, S, n, 0)
<1> DEFINE l == NewLine(alpha, Initial)
           d == One \ominus alpha
<1>1. /\ l.weight = Zero /\ l.meanBytes = Zero /\ l.meanSeconds = Zero
      /\ l.bytesVar = Zero /\ l.bytesSecondsCov = Zero /\ l.alpha = alpha
  BY DEF NewLine
<1>2. IsFraction(d)
  BY OneIsPos, SumIsFraction DEF IsRate
<1>3. AllFractions(Ones(n), n) /\ AllFractions(Products(B, B, n), n) /\ AllFractions(Products(B, S, n), n)
  BY PointsAreFractions
<1> HIDE DEF l, d
<1>4. /\ Faded(d, Ones(n), n)[0] = Zero /\ Faded(d, B, n)[0] = Zero /\ Faded(d, S, n)[0] = Zero
      /\ Faded(d, Products(B, B, n), n)[0] = Zero /\ Faded(d, Products(B, S, n), n)[0] = Zero
  BY <1>2, <1>3, FadedIs
<1>5. Zero \otimes Zero = Zero /\ Zero \ominus Zero = Zero
  BY OneIsPos, ZeroLaws
<1>6. One \ominus l.alpha = d
  BY <1>1 DEF d
<1>7. Moments(l, B, S, n, 0)
  BY <1>1, <1>4, <1>5, <1>6 DEF Moments
<1> QED BY <1>7 DEF l

LEMMA InitLines == AInit => LinesInv
<1> SUFFICES ASSUME AInit PROVE LinesInv
  OBVIOUS
<1>1. /\ predictions = <<>>
      /\ learners = [lr \in {"line", "ewma"} \X Alphas |->
            IF lr[1] = "line" THEN NewLine(lr[2], Initial) ELSE NewEWMA(lr[2], Initial)]
  BY DEF AInit, RInit
<1>2. RowsInv
  BY InitRows
<1>3. Read = 0
  BY <1>1 DEF Read
<1>4. ASSUME NEW alpha \in Alphas PROVE LineInv(learners[<<"line", alpha>>], alpha)
  <2>1. learners[<<"line", alpha>>] = NewLine(alpha, Initial)
    BY <1>1
  <2>2. IsRate(alpha)
    BY AlphasAssumption DEF IsRate
  <2>3. GoodLine(NewLine(alpha, Initial))
    <3>1. GoodLearner(NewLine(alpha, Initial))
      BY NewLearnersAreGood
    <3>2. NewLine(alpha, Initial).kind = "line"
      BY DEF NewLine
    <3> QED BY <3>1, <3>2 DEF GoodLearner, GoodEWMA, EWMA
  <2>4. NewLine(alpha, Initial).alpha = alpha
    BY DEF NewLine
  <2>5. Moments(NewLine(alpha, Initial), RowBytes, RowSeconds, Len(rows), Read)
    BY <1>2, <1>3, <2>2, NoMoments, RowsAreFractions
  <2> QED BY <1>3, <2>1, <2>3, <2>4, <2>5 DEF LineInv
<1>5. Read \in 0..Len(rows)
  BY <1>2, <1>3, RowsAreFractions
<1> QED BY <1>1, <1>4, <1>5 DEF LinesInv

LEMMA LineObserves ==
    ASSUME NEW l, GoodLine(l), NEW n \in Nat, NEW B, NEW S, AllFractions(B, n), AllFractions(S, n),
           NEW r \in 1..n, Pos(B[r]), Pos(S[r]), Moments(l, B, S, n, r - 1)
    PROVE  LET k == Observe(l, B[r], S[r])
           IN  GoodLine(k) /\ k.alpha = l.alpha /\ Moments(k, B, S, n, r) /\ HasPoints(k) /\ Fitted(k)
<1> DEFINE p == AddPoint(l, B[r], S[r])
           k == Refit(p)
<1>1. Observe(l, B[r], S[r]) = k
  BY DEF GoodLine, Line, Observe, ObserveLine
<1>2. GoodLine(p) /\ HasPoints(p) /\ Moments(p, B, S, n, r)
  BY PointIsAdded, MomentsMove
<1>3. p.alpha = l.alpha
  BY DEF AddPoint, GoodLine, Line
<1> HIDE DEF p
<1>4. Fitted(k) /\ SamePoints(p, k)
  BY <1>2, RefitFits
<1>5. GoodLine(k)
  BY <1>2, TakeFitIsGood, FallBackIsGood DEF Refit
<1> HIDE DEF k
<1>6. Moments(k, B, S, n, r)
  BY <1>2, <1>4, MomentsStay
<1>7. k.alpha = l.alpha /\ HasPoints(k)
  BY <1>2, <1>3, <1>4 DEF SamePoints, HasPoints
<1> QED BY <1>1, <1>4, <1>5, <1>6, <1>7

LEMMA ReadsRow ==
    ASSUME RowsInv, LearnersInv, LinesInv, ReplayRow
    PROVE  LET i == Read + 1
           IN  /\ Read' = i /\ i \in 1..Len(rows) /\ rows' = rows
               /\ learners' = [lr \in DOMAIN learners |->
                                  Observe(learners[lr], rows[i].bytes, rows[i].seconds)]
<1> DEFINE i == Read + 1
<1>1. PICK T : predictions \in Seq(T)
  BY DEF LearnersInv
<1>2. PICK p : predictions' = Append(predictions, p)
  BY DEF ReplayRow
<1>3. Read' = i
  <2>1. predictions \in Seq(T \cup {p})
    BY <1>1, Seq(T) \subseteq Seq(T \cup {p})
  <2> QED BY <1>2, <2>1 DEF Read
<1>4. Read \in 0..Len(rows) /\ Read < Len(rows) /\ Len(rows) \in Nat
  BY RowsAreFractions DEF LinesInv, ReplayRow
<1> QED BY <1>3, <1>4 DEF ReplayRow

LEMMA ReplayKeepsLines ==
    ASSUME RowsInv, LearnersInv, LinesInv, ReplayRow PROVE LinesInv'
<1> DEFINE i == Read + 1
<1>1. /\ Read' = i /\ i \in 1..Len(rows) /\ rows' = rows
      /\ learners' = [lr \in DOMAIN learners |->
                         Observe(learners[lr], rows[i].bytes, rows[i].seconds)]
  BY ReadsRow
<1> HIDE DEF i
<1>2. /\ Len(rows) \in Nat /\ AllFractions(RowBytes, Len(rows)) /\ AllFractions(RowSeconds, Len(rows))
      /\ RowBytes[i] = rows[i].bytes /\ RowSeconds[i] = rows[i].seconds
      /\ Pos(RowBytes[i]) /\ Pos(RowSeconds[i])
  BY <1>1, RowsAreFractions, RowsArePos DEF RowBytes, RowSeconds
<1>3. RowBytes' = RowBytes /\ RowSeconds' = RowSeconds /\ Len(rows)' = Len(rows)
  BY <1>1 DEF RowBytes, RowSeconds
<1>4. DOMAIN learners' = {"line", "ewma"} \X Alphas
  BY <1>1 DEF LinesInv
<1>5. ASSUME NEW alpha \in Alphas PROVE LineInv(learners[<<"line", alpha>>], alpha)'
  <2> DEFINE l == learners[<<"line", alpha>>]
             k == Observe(l, RowBytes[i], RowSeconds[i])
  <2>1. GoodLine(l) /\ l.alpha = alpha /\ Moments(l, RowBytes, RowSeconds, Len(rows), Read)
    BY DEF LinesInv, LineInv
  <2>2. Read = i - 1
    BY <1>2 DEF i, LinesInv
  <2>3. learners'[<<"line", alpha>>] = k
    BY <1>1, <1>2 DEF LinesInv
  <2> HIDE DEF l
  <2>4. /\ GoodLine(k) /\ k.alpha = alpha /\ Moments(k, RowBytes, RowSeconds, Len(rows), i)
        /\ HasPoints(k) /\ Fitted(k)
    BY <1>1, <1>2, <2>1, <2>2, LineObserves
  <2> HIDE DEF k
  <2> QED BY <1>1, <1>3, <2>3, <2>4 DEF LineInv
<1>6. Read' \in 0..Len(rows)'
  BY <1>1, <1>2, <1>3
<1> QED BY <1>4, <1>5, <1>6 DEF LinesInv

LEMMA LinesStep ==
    RowsInv /\ LearnersInv /\ LinesInv /\ [ANext]_avars => (RowsInv /\ LearnersInv /\ LinesInv)'
<1> SUFFICES ASSUME RowsInv, LearnersInv, LinesInv, [ANext]_avars
             PROVE  (RowsInv /\ LearnersInv /\ LinesInv)'
  OBVIOUS
<1>1. RowsInv' /\ LearnersInv'
  BY LearnersStep
<1>2. CASE Replays
  BY <1>1, <1>2, ReplayKeepsLines DEF Replays
<1>3. CASE UNCHANGED replayvars
  <2>1. UNCHANGED rows
    BY <1>3 DEF ANext, Replays, Loads, avars, ReplayRow, LNext, Chunk, NextLoad
  <2>2. /\ learners' = learners /\ Read' = Read /\ RowBytes' = RowBytes
        /\ RowSeconds' = RowSeconds /\ Len(rows)' = Len(rows)
    BY <1>3, <2>1 DEF replayvars, Read, RowBytes, RowSeconds
  <2>3. LinesInv'
    BY <2>2 DEF LinesInv, LineInv
  <2> QED BY <1>1, <2>3
<1> QED BY <1>2, <1>3 DEF ANext, Loads, avars

LEMMA LinesAreOptimal == RowsInv /\ LinesInv => BeliefIsLeastSquares
<1> DEFINE Residual(l) == [i \in DOMAIN rows |-> RowSeconds[i] \ominus
                              (l.startup \oplus (l.secondsPerByte \otimes RowBytes[i]))]
           Tilt(l) == [i \in DOMAIN rows |-> RowBytes[i] \otimes Residual(l)[i]]
           w(alpha) == Weighted(alpha, [i \in DOMAIN rows |-> One])
           b(alpha) == Weighted(alpha, RowBytes) \oslash w(alpha)
           s(alpha) == Weighted(alpha, RowSeconds) \oslash w(alpha)
           U(m) == [i \in DOMAIN rows |-> (RowBytes[i] \ominus m) \otimes (RowBytes[i] \ominus m)]
           V(m, k) == [i \in DOMAIN rows |->
                          (RowBytes[i] \ominus m) \otimes (RowSeconds[i] \ominus k)]
           var(alpha) == Weighted(alpha, U(b(alpha)))
           cov(alpha) == Weighted(alpha, V(b(alpha), s(alpha)))
           Goal(l, alpha) ==
               /\ Weighted(alpha, Residual(l)) = Zero
               /\ \/ Weighted(alpha, Tilt(l)) = Zero
                  \/ (Whole(100) \otimes var(alpha))
                         \prec (w(alpha) \otimes (b(alpha) \otimes b(alpha)))
                  \/ cov(alpha) \preceq Zero
                  \/ (s(alpha) \otimes var(alpha)) \prec (b(alpha) \otimes cov(alpha))
<1> SUFFICES ASSUME RowsInv, LinesInv, NEW alpha \in Alphas, Read > 0
             PROVE  Goal(learners[<<"line", alpha>>], alpha)
  BY Zenon DEF BeliefIsLeastSquares, RowBytes, RowSeconds
<1> DEFINE l == learners[<<"line", alpha>>]
           d == One \ominus alpha
           n == Len(rows)
<1>1. /\ n \in Nat /\ DOMAIN rows = 1..n /\ Read \in 0..n
      /\ AllFractions(RowBytes, n) /\ AllFractions(RowSeconds, n)
  BY RowsAreFractions DEF LinesInv
<1>2. /\ Seen(l, RowBytes, RowSeconds, n, Read) /\ Fitted(l) /\ l.alpha = alpha
  BY <1>1 DEF LinesInv, LineInv, Seen
<1> HIDE DEF l
<1>3. /\ IsFraction(alpha) /\ IsFraction(l.startup) /\ IsFraction(l.secondsPerByte)
      /\ IsFraction(l.meanBytes) /\ IsFraction(l.meanSeconds)
  BY <1>2, SeenTypes, AlphasAssumption
<1>4. ASSUME NEW X, AllFractions(X, n) PROVE Weighted(alpha, X) = Faded(d, X, n)[Read]
  BY <1>1, <1>3, <1>4, WeightedIs
<1> HIDE DEF n
<1>5. /\ w(alpha) = l.weight /\ b(alpha) = l.meanBytes /\ s(alpha) = l.meanSeconds
  <2>1. AllFractions(Ones(n), n) /\ [i \in DOMAIN rows |-> One] = Ones(n)
    BY <1>1, OneIsPos DEF AllFractions, Ones
  <2>2. w(alpha) = Faded(d, Ones(n), n)[Read]
    BY <1>4, <2>1
  <2>3. Weighted(alpha, RowBytes) = Faded(d, RowBytes, n)[Read]
        /\ Weighted(alpha, RowSeconds) = Faded(d, RowSeconds, n)[Read]
    BY <1>1, <1>4
  <2> QED BY <1>2, <2>2, <2>3, MeansAre
<1>6. \A i \in 1..n : IsFraction(RowBytes[i]) /\ IsFraction(RowSeconds[i])
  BY <1>1 DEF AllFractions
<1>7. var(alpha) = l.bytesVar
  <2> DEFINE Z == U(l.meanBytes)
  <2>1. \A i \in 1..n : Z[i] = (RowBytes[i] \ominus l.meanBytes) \otimes (RowBytes[i] \ominus l.meanBytes)
    BY <1>1
  <2> HIDE DEF Z
  <2>2. AllFractions(Z, n)
    BY <1>3, <1>6, <2>1, SumIsFraction DEF AllFractions
  <2>3. Weighted(alpha, Z) = l.bytesVar
    BY <1>2, <1>4, <2>1, <2>2, VarianceIs
  <2> QED BY <1>5, <2>3 DEF Z
<1>8. cov(alpha) = l.bytesSecondsCov
  <2> DEFINE Z == V(l.meanBytes, l.meanSeconds)
  <2>1. \A i \in 1..n :
            Z[i] = (RowBytes[i] \ominus l.meanBytes) \otimes (RowSeconds[i] \ominus l.meanSeconds)
    BY <1>1
  <2> HIDE DEF Z
  <2>2. AllFractions(Z, n)
    BY <1>3, <1>6, <2>1, SumIsFraction DEF AllFractions
  <2>3. Weighted(alpha, Z) = l.bytesSecondsCov
    BY <1>2, <1>4, <2>1, <2>2, CovarianceIsSeen
  <2> QED BY <1>5, <2>3 DEF Z
<1> DEFINE R == Residual(l)
           T == Tilt(l)
<1>9. IsResidual(R, l, RowBytes, RowSeconds, n) /\ \A i \in 1..n : T[i] = RowBytes[i] \otimes R[i]
  BY <1>1 DEF IsResidual
<1> HIDE DEF R, T
<1>10. AllFractions(R, n) /\ AllFractions(T, n)
  <2>1. ASSUME NEW i \in 1..n PROVE IsFraction(R[i])
    <3>1. IsFraction(l.secondsPerByte \otimes RowBytes[i])
      BY <1>3, <1>6, SumIsFraction
    <3>2. IsFraction(l.startup \oplus (l.secondsPerByte \otimes RowBytes[i]))
      BY <1>3, <3>1, SumIsFraction
    <3> QED BY <1>6, <1>9, <3>2, SumIsFraction DEF IsResidual
  <2> QED BY <1>6, <1>9, <2>1, SumIsFraction DEF AllFractions
<1>11. Weighted(alpha, R) = Zero
  BY <1>2, <1>4, <1>9, <1>10, ResidualFades
<1>12. ASSUME l.secondsPerByte \otimes l.bytesVar = l.bytesSecondsCov PROVE Weighted(alpha, T) = Zero
  <2>1. Faded(One \ominus l.alpha, T, n)[Read] = Zero
    BY <1>2, <1>9, <1>12, TiltFades
  <2> QED BY <1>2, <1>4, <1>10, <2>1
<1> HIDE DEF var, cov, w, b, s
<1>13. \/ Weighted(alpha, T) = Zero
       \/ (Whole(100) \otimes var(alpha)) \prec (w(alpha) \otimes (b(alpha) \otimes b(alpha)))
       \/ cov(alpha) \preceq Zero
       \/ (s(alpha) \otimes var(alpha)) \prec (b(alpha) \otimes cov(alpha))
  BY <1>2, <1>5, <1>7, <1>8, <1>12 DEF Fitted
<1> QED BY <1>11, <1>13 DEF R, T, l

(* Whatever transfers are replayed and whatever faded, a line's belief is  *)
(* the weighted least squares line of the rows read, or there is one of    *)
(* the reasons for it not to be, and it goes through their mean.           *)
THEOREM LinesAreLeastSquares == ASpec => []BeliefIsLeastSquares
<1>1. AInit => RowsInv /\ LearnersInv /\ LinesInv
  BY InitRows, InitLearners, InitLines
<1>2. RowsInv /\ LearnersInv /\ LinesInv /\ [ANext]_avars => (RowsInv /\ LearnersInv /\ LinesInv)'
  BY LinesStep
<1>3. RowsInv /\ LearnersInv /\ LinesInv => BeliefIsLeastSquares
  BY LinesAreOptimal
<1> QED BY <1>1, <1>2, <1>3, PTL DEF ASpec

-----------------------------------------------------------------------------
(* A network that is a line. *)
LEMMA FadedPrefix ==
    ASSUME NEW d, IsFraction(d), NEW X, NEW Y, NEW n \in Nat, NEW m \in Nat,
           AllFractions(X, n), AllFractions(Y, m), NEW r \in Nat, r <= n, r <= m,
           \A i \in 1..r : X[i] = Y[i]
    PROVE  Faded(d, X, n)[r] = Faded(d, Y, m)[r]
<1> DEFINE x == Faded(d, X, n)
           y == Faded(d, Y, m)
           I == {k \in Nat : k <= r => x[k] = y[k]}
<1>1. x[0] = Zero /\ \A i \in 1..n : x[i] = (d \otimes x[i - 1]) \oplus X[i]
  BY FadedIs
<1>2. y[0] = Zero /\ \A i \in 1..m : y[i] = (d \otimes y[i - 1]) \oplus Y[i]
  BY FadedIs
<1> HIDE DEF x, y
<1>3. 0 \in I
  BY <1>1, <1>2
<1>4. ASSUME NEW k \in Nat, k \in I PROVE k + 1 \in I
  <2> SUFFICES ASSUME k + 1 <= r PROVE x[k + 1] = y[k + 1]
    OBVIOUS
  <2>1. k + 1 \in 1..n /\ k + 1 \in 1..m /\ k + 1 \in 1..r /\ (k + 1) - 1 = k /\ x[k] = y[k]
    BY <1>4
  <2> QED BY <1>1, <1>2, <2>1
<1> HIDE DEF I
<1>5. \A k \in Nat : k \in I
  BY <1>3, <1>4, SimpleInduction
<1>6. x[r] = y[r]
  BY <1>5 DEF I
<1> QED BY <1>6 DEF x, y

LEMMA SeenPrefix ==
    ASSUME NEW l, NEW B, NEW S, NEW n, NEW r, Seen(l, B, S, n, r) PROVE Seen(l, B, S, r, r)
<1> DEFINE d == One \ominus l.alpha
<1>1. /\ n \in Nat /\ r \in 0..n /\ r \in Nat /\ r <= n /\ IsFraction(d)
      /\ AllFractions(B, n) /\ AllFractions(S, n)
  BY SeenTypes
<1>2. AllFractions(B, r) /\ AllFractions(S, r)
  BY <1>1 DEF AllFractions
<1>3. /\ AllFractions(Ones(n), n) /\ AllFractions(Ones(r), r)
      /\ AllFractions(Products(B, B, n), n) /\ AllFractions(Products(B, B, r), r)
      /\ AllFractions(Products(B, S, n), n) /\ AllFractions(Products(B, S, r), r)
  BY <1>1, <1>2, PointsAreFractions
<1>4. \A i \in 1..r : /\ Ones(n)[i] = Ones(r)[i] /\ Products(B, B, n)[i] = Products(B, B, r)[i]
                      /\ Products(B, S, n)[i] = Products(B, S, r)[i]
  BY <1>1 DEF Ones, Products
<1> HIDE DEF d
<1>5. /\ Faded(d, Ones(n), n)[r] = Faded(d, Ones(r), r)[r]
      /\ Faded(d, B, n)[r] = Faded(d, B, r)[r] /\ Faded(d, S, n)[r] = Faded(d, S, r)[r]
  BY <1>1, <1>2, <1>3, <1>4, FadedPrefix
<1>6. /\ Faded(d, Products(B, B, n), n)[r] = Faded(d, Products(B, B, r), r)[r]
      /\ Faded(d, Products(B, S, n), n)[r] = Faded(d, Products(B, S, r), r)[r]
  BY <1>1, <1>3, <1>4, FadedPrefix
<1>7. Moments(l, B, S, n, r) /\ GoodLine(l) /\ HasPoints(l)
  BY DEF Seen
<1>8. Moments(l, B, S, r, r)
  BY <1>5, <1>6, <1>7 DEF Moments, d
<1> QED BY <1>1, <1>2, <1>7, <1>8 DEF Seen

LEMMA NoDifference ==
    ASSUME NEW x, NEW y, IsFraction(x), IsFraction(y), x \ominus y = Zero PROVE x = y
<1>1. y \oplus (x \ominus y) = x /\ y \oplus Zero = y
  BY DifferenceLaws, ZeroLaws
<1> QED BY <1>1

IsCombination(X, a, Y, c, W, n) ==
    /\ AllFractions(Y, n) /\ AllFractions(W, n) /\ IsFraction(a) /\ IsFraction(c)
    /\ \A i \in 1..n : X[i] = (a \otimes Y[i]) \oplus (c \otimes W[i])

LEMMA FadedCombination ==
    ASSUME NEW d, IsFraction(d), NEW n \in Nat, NEW X, NEW Y, NEW W, NEW a, NEW c,
           IsCombination(X, a, Y, c, W, n), NEW r \in 0..n
    PROVE  Faded(d, X, n)[r] = (a \otimes Faded(d, Y, n)[r]) \oplus (c \otimes Faded(d, W, n)[r])
<1> DEFINE Z == [i \in 1..n |-> Zero]
<1>1. /\ AllFractions(Y, n) /\ AllFractions(W, n) /\ IsFraction(a) /\ IsFraction(c)
      /\ \A i \in 1..n : X[i] = (a \otimes Y[i]) \oplus (c \otimes W[i])
  BY DEF IsCombination
<1>2. \A i \in 1..n : Z[i] = Zero
  OBVIOUS
<1> HIDE DEF Z
<1>3. AllFractions(Z, n)
  BY <1>2, OneIsPos DEF AllFractions
<1>4. AllFractions(X, n)
  <2> SUFFICES ASSUME NEW i \in 1..n PROVE IsFraction(X[i])
    BY DEF AllFractions
  <2>1. IsFraction(a \otimes Y[i]) /\ IsFraction(c \otimes W[i])
    BY <1>1, SumIsFraction DEF AllFractions
  <2> QED BY <1>1, <2>1, SumIsFraction
<1>5. Combines(Z, Z, One, Z, Zero, Z, n)
  <2>1. /\ One \otimes Zero = Zero /\ Zero \otimes Zero = Zero /\ Zero \oplus Zero = Zero
        /\ Zero \ominus Zero = Zero
    BY OneIsPos, OneLaws, ZeroLaws
  <2> QED BY <1>2, <1>3, <2>1, OneIsPos DEF Combines
<1>6. Combines(Z, X, a, Y, c, W, n)
  <2> SUFFICES ASSUME NEW i \in 1..n
               PROVE  Z[i] = X[i] \ominus ((a \otimes Y[i]) \oplus (c \otimes W[i]))
    BY <1>1, <1>4 DEF Combines
  <2>1. X[i] \ominus X[i] = Zero
    BY <1>4, ZeroLaws DEF AllFractions
  <2> QED BY <1>1, <1>2, <2>1
<1>7. /\ IsFraction(Faded(d, Z, n)[r]) /\ IsFraction(Faded(d, X, n)[r])
      /\ IsFraction(Faded(d, Y, n)[r]) /\ IsFraction(Faded(d, W, n)[r])
  BY <1>1, <1>3, <1>4, FadedIs
<1>8. Faded(d, Z, n)[r] = Zero
  <2> DEFINE z == Faded(d, Z, n)[r]
  <2>1. z = z \ominus ((One \otimes z) \oplus (Zero \otimes z))
    BY <1>5, FadedIsLinear
  <2> HIDE DEF z
  <2>2. IsFraction(z)
    BY <1>7 DEF z
  <2>3. One \otimes z = z /\ Zero \otimes z = Zero /\ z \oplus Zero = z /\ z \ominus z = Zero
    BY <2>2, OneLaws, ZeroLaws
  <2> QED BY <2>1, <2>3 DEF z
<1>9. Faded(d, X, n)[r] \ominus ((a \otimes Faded(d, Y, n)[r]) \oplus (c \otimes Faded(d, W, n)[r]))
          = Zero
  BY <1>6, <1>8, FadedIsLinear
<1>10. IsFraction((a \otimes Faded(d, Y, n)[r]) \oplus (c \otimes Faded(d, W, n)[r]))
  <2>1. IsFraction(a \otimes Faded(d, Y, n)[r]) /\ IsFraction(c \otimes Faded(d, W, n)[r])
    BY <1>1, <1>7, SumIsFraction
  <2> QED BY <2>1, SumIsFraction
<1> QED BY <1>7, <1>9, <1>10, NoDifference

(* The points 1..n are on the line that starts at a and rises by k.        *)
OnLine(B, S, a, k, n) ==
    IsFraction(a) /\ IsFraction(k) /\ \A i \in 1..n : S[i] = a \oplus (k \otimes B[i])

(* And so are the moments of those points.                                 *)
OnLineMoments(l, a, k) ==
    /\ l.meanSeconds = a \oplus (k \otimes l.meanBytes)
    /\ l.bytesSecondsCov = k \otimes l.bytesVar

LEMMA MeanIsOnLine ==
    ASSUME NEW l, NEW B, NEW S, NEW n, Seen(l, B, S, n, n), NEW a, NEW k, OnLine(B, S, a, k, n)
    PROVE  l.meanSeconds = a \oplus (k \otimes l.meanBytes)
<1> DEFINE d == One \ominus l.alpha
           w == Faded(d, Ones(n), n)[n]
<1>1. /\ n \in Nat /\ n \in 0..n /\ AllFractions(B, n) /\ AllFractions(Ones(n), n)
      /\ IsFraction(d) /\ IsFraction(a) /\ IsFraction(k)
      /\ IsFraction(l.meanBytes) /\ IsFraction(l.meanSeconds) /\ Pos(l.weight)
  BY SeenTypes DEF OnLine
<1>2. w = l.weight /\ Faded(d, B, n)[n] = l.meanBytes \otimes w
      /\ Faded(d, S, n)[n] = l.meanSeconds \otimes w
  BY MeansAre
<1>3. IsCombination(S, a, Ones(n), k, B, n)
  <2> SUFFICES ASSUME NEW i \in 1..n PROVE S[i] = (a \otimes Ones(n)[i]) \oplus (k \otimes B[i])
    BY <1>1 DEF IsCombination
  <2>1. a \otimes Ones(n)[i] = a
    BY <1>1, OneLaws DEF Ones
  <2> QED BY <2>1 DEF OnLine
<1> HIDE DEF d
<1>4. Faded(d, S, n)[n] = (a \otimes w) \oplus (k \otimes Faded(d, B, n)[n])
  BY <1>1, <1>3, FadedCombination
<1> HIDE DEF w
<1>5. l.meanSeconds \otimes w = (a \oplus (k \otimes l.meanBytes)) \otimes w
  <2>1. IsFraction(w) /\ IsFraction(k \otimes l.meanBytes)
    BY <1>1, <1>2, SumIsFraction DEF Pos
  <2>2. (a \oplus (k \otimes l.meanBytes)) \otimes w
            = (a \otimes w) \oplus ((k \otimes l.meanBytes) \otimes w)
    BY <1>1, <2>1, ProductDistributes
  <2>3. (k \otimes l.meanBytes) \otimes w = k \otimes (l.meanBytes \otimes w)
    BY <1>1, <2>1, ProductAssociates
  <2> QED BY <1>2, <1>4, <2>2, <2>3
<1>6. IsFraction(a \oplus (k \otimes l.meanBytes))
  BY <1>1, SumIsFraction
<1>7. /\ (l.meanSeconds \otimes w) \oslash w = l.meanSeconds
      /\ ((a \oplus (k \otimes l.meanBytes)) \otimes w) \oslash w = a \oplus (k \otimes l.meanBytes)
  BY <1>1, <1>2, <1>6, MeanOfProduct
<1> QED BY <1>5, <1>7

LEMMA LineDeviates ==
    ASSUME NEW a, NEW k, NEW x, NEW m, IsFraction(a), IsFraction(k), IsFraction(x), IsFraction(m)
    PROVE  (x \ominus m) \otimes ((a \oplus (k \otimes x)) \ominus (a \oplus (k \otimes m)))
               = k \otimes ((x \ominus m) \otimes (x \ominus m))
<1>1. PICK p, q, u : p = k \otimes x /\ q = k \otimes m /\ u = x \ominus m
  OBVIOUS
<1>2. IsFraction(p) /\ IsFraction(q) /\ IsFraction(u)
  BY <1>1, SumIsFraction
<1>3. (a \oplus p) \ominus (a \oplus q) = p \ominus q
  <2>1. IsFraction(a \oplus p)
    BY <1>2, SumIsFraction
  <2>2. (a \oplus p) \ominus (a \oplus q) = ((a \oplus p) \ominus a) \ominus q
    BY <1>2, <2>1, TakenTwice
  <2>3. (a \oplus p) \ominus a = p
    BY <1>2, DifferenceLaws
  <2> QED BY <2>2, <2>3
<1>4. p \ominus q = k \otimes u
  BY <1>1, FactorDistributes
<1>5. u \otimes (k \otimes u) = k \otimes (u \otimes u)
  BY <1>2, FactorsSwap
<1> QED BY <1>1, <1>3, <1>4, <1>5

LEMMA CovarianceIsOnLine ==
    ASSUME NEW l, NEW B, NEW S, NEW n, Seen(l, B, S, n, n), NEW a, NEW k, OnLine(B, S, a, k, n)
    PROVE  l.bytesSecondsCov = k \otimes l.bytesVar
<1> DEFINE d == One \ominus l.alpha
           U == [i \in 1..n |-> (B[i] \ominus l.meanBytes) \otimes (B[i] \ominus l.meanBytes)]
           V == [i \in 1..n |-> (B[i] \ominus l.meanBytes) \otimes (S[i] \ominus l.meanSeconds)]
<1>1. /\ n \in Nat /\ n \in 0..n /\ AllFractions(B, n)
      /\ IsFraction(d) /\ IsFraction(a) /\ IsFraction(k)
      /\ IsFraction(l.meanBytes) /\ IsFraction(l.bytesVar)
  BY SeenTypes DEF OnLine
<1>2. /\ \A i \in 1..n : U[i] = (B[i] \ominus l.meanBytes) \otimes (B[i] \ominus l.meanBytes)
      /\ \A i \in 1..n : V[i] = (B[i] \ominus l.meanBytes) \otimes (S[i] \ominus l.meanSeconds)
  OBVIOUS
<1> HIDE DEF U, V
<1>3. Faded(d, U, n)[n] = l.bytesVar
  BY <1>2, VarianceIs
<1>4. Faded(d, V, n)[n] = l.bytesSecondsCov
  BY <1>2, CovarianceIsSeen
<1>5. \A i \in 1..n : IsFraction(U[i]) /\ V[i] = k \otimes U[i]
  <2> SUFFICES ASSUME NEW i \in 1..n PROVE IsFraction(U[i]) /\ V[i] = k \otimes U[i]
    OBVIOUS
  <2>1. PICK x, m : x = B[i] /\ m = l.meanBytes
    OBVIOUS
  <2>2. IsFraction(x) /\ IsFraction(m)
    BY <1>1, <2>1 DEF AllFractions
  <2>3. S[i] = a \oplus (k \otimes x) /\ l.meanSeconds = a \oplus (k \otimes m)
    BY <2>1, MeanIsOnLine DEF OnLine
  <2>4. IsFraction((x \ominus m) \otimes (x \ominus m))
    BY <2>2, SumIsFraction
  <2>5. (x \ominus m) \otimes ((a \oplus (k \otimes x)) \ominus (a \oplus (k \otimes m)))
            = k \otimes ((x \ominus m) \otimes (x \ominus m))
    BY <1>1, <2>2, LineDeviates
  <2> QED BY <1>2, <2>1, <2>3, <2>4, <2>5
<1>6. IsCombination(V, k, U, Zero, U, n)
  <2>1. ASSUME NEW i \in 1..n PROVE V[i] = (k \otimes U[i]) \oplus (Zero \otimes U[i])
    <3>1. IsFraction(U[i]) /\ IsFraction(k \otimes U[i]) /\ V[i] = k \otimes U[i]
      BY <1>1, <1>5, SumIsFraction
    <3>2. Zero \otimes U[i] = Zero /\ (k \otimes U[i]) \oplus Zero = k \otimes U[i]
      BY <3>1, ZeroLaws
    <3> QED BY <3>1, <3>2
  <2> QED BY <1>1, <1>5, <2>1, OneIsPos DEF IsCombination, AllFractions
<1> HIDE DEF d
<1>7. Faded(d, V, n)[n] = (k \otimes Faded(d, U, n)[n]) \oplus (Zero \otimes Faded(d, U, n)[n])
  BY <1>1, <1>6, FadedCombination
<1>8. Zero \otimes l.bytesVar = Zero /\ (k \otimes l.bytesVar) \oplus Zero = k \otimes l.bytesVar
  BY <1>1, SumIsFraction, ZeroLaws
<1> QED BY <1>3, <1>4, <1>7, <1>8

-----------------------------------------------------------------------------
(* Refitting on such moments. *)
Exact(l, a, k) == l.startup = a /\ l.secondsPerByte = k

LEMMA SpreadIsLearned ==
    ASSUME NEW l, GoodLine(l), HasPoints(l), EnoughSpread(l), NEW a, NEW k, NonNeg(a), Pos(k),
           OnLineMoments(l, a, k)
    PROVE  Exact(Refit(l), a, k)
<1>1. /\ Pos(l.bytesVar) /\ l \in Line /\ IsFraction(l.meanBytes) /\ IsFraction(k) /\ IsFraction(a)
  BY SpreadIsPos DEF GoodLine, NonNeg, Pos
<1>2. Zero \prec l.bytesSecondsCov
  <2>1. Pos(k \otimes l.bytesVar)
    BY <1>1, PosIsNonNeg, ProductSigns
  <2> QED BY <2>1 DEF OnLineMoments, Pos
<1>3. l.bytesSecondsCov \oslash l.bytesVar = k
  BY <1>1, MeanOfProduct DEF OnLineMoments
<1>4. l.meanSeconds \ominus (k \otimes l.meanBytes) = a
  <2> DEFINE t == k \otimes l.meanBytes
  <2>1. IsFraction(t) /\ l.meanSeconds = a \oplus t
    BY <1>1, SumIsFraction DEF OnLineMoments
  <2> HIDE DEF t
  <2>2. a \oplus t = t \oplus a /\ (t \oplus a) \ominus t = a
    BY <1>1, <2>1, SumCommutes, DifferenceLaws
  <2> QED BY <2>1, <2>2 DEF t
<1>5. TakeFit(l) = Believe(l, a, k)
  BY <1>3, <1>4 DEF TakeFit, NonNeg
<1> QED BY <1>1, <1>2, <1>5, BelieveKeepsPoints DEF Refit, Exact

LEMMA LearnedIsKept ==
    ASSUME NEW l, GoodLine(l), HasPoints(l), NEW a, NEW k, NonNeg(a), Pos(k),
           OnLineMoments(l, a, k), Exact(l, a, k)
    PROVE  Exact(Refit(l), a, k)
<1>1. CASE EnoughSpread(l)
  BY <1>1, SpreadIsLearned
<1>2. CASE ~EnoughSpread(l)
  <2>1. /\ Pos(l.meanBytes) /\ IsFraction(l.meanBytes) /\ IsFraction(a) /\ IsFraction(k)
        /\ IsFraction(l.meanSeconds) /\ l \in Line
    BY DEF GoodLine, HasPoints, NonNeg, Pos
  <2> DEFINE t == k \otimes l.meanBytes
  <2>2. Pos(t) /\ IsFraction(t)
    BY <2>1, PosIsNonNeg, ProductSigns
  <2>3. l.meanSeconds = a \oplus t
    BY DEF OnLineMoments
  <2>4. ThroughMean(l, a) = k
    <3>1. (k \otimes l.meanBytes) \oslash l.meanBytes = k
      BY <2>1, MeanOfProduct
    <3>2. l.meanSeconds \ominus a = t
      BY <2>1, <2>2, <2>3, DifferenceLaws
    <3> QED BY <3>1, <3>2 DEF ThroughMean
  <2> HIDE DEF t
  <2>5. a \prec l.meanSeconds
    BY <2>1, <2>2, <2>3, SumIsMore
  <2>6. ~(l.meanSeconds \preceq l.startup) /\ l.startup = a
    BY <2>1, <2>5, OrderLaws DEF Exact
  <2>7. FallBack(l) = Believe(l, a, k)
    BY <2>4, <2>6 DEF FallBack
  <2> QED BY <1>2, <2>1, <2>7, BelieveKeepsPoints DEF Refit, Exact
<1> QED BY <1>1, <1>2

LEMMA FadedIsNonNeg ==
    ASSUME NEW d, NonNeg(d), NEW X, NEW n \in Nat, \A i \in 1..n : NonNeg(X[i])
    PROVE  \A i \in 0..n : NonNeg(Faded(d, X, n)[i])
<1> DEFINE f == Faded(d, X, n)
           I == {k \in Nat : k <= n => NonNeg(f[k])}
<1>1. f[0] = Zero /\ \A i \in 1..n : f[i] = (d \otimes f[i - 1]) \oplus X[i]
  BY FadedIs DEF AllFractions, NonNeg
<1> HIDE DEF f
<1>2. 0 \in I
  BY <1>1, OneIsPos
<1>3. ASSUME NEW k \in Nat, k \in I PROVE k + 1 \in I
  <2> SUFFICES ASSUME k + 1 <= n PROVE NonNeg(f[k + 1])
    OBVIOUS
  <2>1. k + 1 \in 1..n /\ (k + 1) - 1 = k /\ NonNeg(f[k])
    BY <1>3
  <2>2. NonNeg(d \otimes f[k]) /\ NonNeg(X[k + 1])
    BY <2>1, ProductSigns
  <2> QED BY <1>1, <2>1, <2>2, SumSigns
<1> HIDE DEF I
<1>4. \A k \in Nat : k \in I
  BY <1>2, <1>3, SimpleInduction
<1>5. \A i \in 0..n : NonNeg(f[i])
  BY <1>4 DEF I
<1> QED BY <1>5 DEF f

LEMMA WeightGrows ==
    ASSUME NEW a, IsRate(a), NEW f, IsFraction(f), (a \otimes f) \preceq One
    PROVE  (a \otimes (((One \ominus a) \otimes f) \oplus One)) \preceq One
<1>1. PICK A, F \in Int, D \in Nat : D > 0 /\ Is(a, A, D) /\ Is(f, F, D)
  BY CommonOfTwo DEF IsRate
<1>2. Is(One, D, D) /\ Is(One \ominus a, D - A, D) /\ A <= D
  <2>1. Is(One, D, D)
    BY <1>1, ZeroIs
  <2> QED BY <1>1, <2>1, IsDifference, IsOrdered DEF IsRate
<1>3. D * D \in Nat /\ D * D > 0 /\ D * (D * D) \in Nat /\ D * (D * D) > 0
  BY <1>1
<1>4. /\ Is(One, D * D, D * D) /\ Is(One, D * (D * D), D * (D * D))
      /\ Is(a \otimes f, A * F, D * D) /\ Is((One \ominus a) \otimes f, (D - A) * F, D * D)
  BY <1>1, <1>2, <1>3, ZeroIs, IsProduct
<1>5. A * F <= D * D
  BY <1>4, IsOrdered
<1>6. Is(((One \ominus a) \otimes f) \oplus One, (D - A) * F + D * D, D * D)
  BY <1>4, IsSum
<1>7. Is(a \otimes (((One \ominus a) \otimes f) \oplus One), A * ((D - A) * F + D * D), D * (D * D))
  BY <1>1, <1>6, IsProduct
<1>8. A * ((D - A) * F + D * D) <= D * (D * D)
  <2>1. (A * F) * (D - A) <= (D * D) * (D - A)
    <3>1. A * F \in Int /\ D * D \in Int /\ D - A \in Int /\ D - A >= 0
      BY <1>1, <1>2
    <3> QED BY <1>5, <3>1, Scaled
  <2>2. A * ((D - A) * F + D * D) = (A * F) * (D - A) + A * (D * D)
    BY <1>1
  <2>3. (D * D) * (D - A) + A * (D * D) = D * (D * D)
    BY <1>1
  <2>4. /\ (A * F) * (D - A) \in Int /\ (D * D) * (D - A) \in Int /\ A * (D * D) \in Int
    BY <1>1
  <2> QED BY <2>1, <2>2, <2>3, <2>4
<1> QED BY <1>4, <1>7, <1>8, IsOrdered

LEMMA WeightIsBounded ==
    ASSUME NEW a, IsRate(a), NEW n \in Nat
    PROVE  \A i \in 0..n : (a \otimes Faded(One \ominus a, Ones(n), n)[i]) \preceq One
<1> DEFINE d == One \ominus a
           f == Faded(d, Ones(n), n)
           I == {k \in Nat : k <= n => (a \otimes f[k]) \preceq One}
<1>1. AllFractions(Ones(n), n) /\ IsFraction(d) /\ IsFraction(a)
  BY OneIsPos, SumIsFraction DEF AllFractions, Ones, IsRate
<1>2. /\ f[0] = Zero /\ \A i \in 0..n : IsFraction(f[i])
      /\ \A i \in 1..n : f[i] = (d \otimes f[i - 1]) \oplus Ones(n)[i]
  BY <1>1, FadedIs
<1>3. \A i \in 1..n : Ones(n)[i] = One
  BY DEF Ones
<1> HIDE DEF f
<1>4. 0 \in I
  <2>1. a \otimes Zero = Zero /\ Zero \prec One
    BY <1>1, OneLaws, OneIsPos DEF Pos
  <2>2. Zero \preceq One
    BY <2>1, OneIsPos, OrderLaws
  <2> QED BY <1>2, <2>1, <2>2
<1>5. ASSUME NEW k \in Nat, k \in I PROVE k + 1 \in I
  <2> SUFFICES ASSUME k + 1 <= n PROVE (a \otimes f[k + 1]) \preceq One
    OBVIOUS
  <2>1. k + 1 \in 1..n /\ (k + 1) - 1 = k /\ (a \otimes f[k]) \preceq One /\ IsFraction(f[k])
    BY <1>2, <1>5
  <2>2. (a \otimes ((d \otimes f[k]) \oplus One)) \preceq One
    BY <2>1, WeightGrows
  <2> QED BY <1>2, <1>3, <2>1, <2>2
<1> HIDE DEF I
<1>6. \A k \in Nat : k \in I
  BY <1>4, <1>5, SimpleInduction
<1>7. \A i \in 0..n : (a \otimes f[i]) \preceq One
  BY <1>6 DEF I
<1> QED BY <1>7 DEF f

(* The last two of what fades are no more than all of it.                  *)
LEMMA LastTwo ==
    ASSUME NEW d, Pos(d), NEW X, NEW n \in Nat, n >= 2, \A i \in 1..n : NonNeg(X[i])
    PROVE  ((d \otimes X[n - 1]) \oplus X[n]) \preceq Faded(d, X, n)[n]
<1> DEFINE f == Faded(d, X, n)
<1>1. /\ NonNeg(d) /\ IsFraction(d)
      /\ n \in 1..n /\ n - 1 \in 1..n /\ n - 2 \in 0..n /\ (n - 1) - 1 = n - 2
  BY PosIsNonNeg
<1>2. /\ \A i \in 1..n : f[i] = (d \otimes f[i - 1]) \oplus X[i]
      /\ \A i \in 0..n : NonNeg(f[i])
  <2>1. AllFractions(X, n)
    BY DEF AllFractions, NonNeg
  <2> QED BY <1>1, <2>1, FadedIs, FadedIsNonNeg
<1> HIDE DEF f
<1>3. PICK g, h, x, y : g = f[n - 2] /\ h = f[n - 1] /\ x = X[n - 1] /\ y = X[n]
  OBVIOUS
<1>4. /\ NonNeg(g) /\ IsFraction(g) /\ IsFraction(h) /\ IsFraction(x) /\ IsFraction(y)
      /\ h = (d \otimes g) \oplus x /\ f[n] = (d \otimes h) \oplus y
  BY <1>1, <1>2, <1>3 DEF NonNeg
<1>5. x \preceq h
  <2>1. NonNeg(d \otimes g) /\ IsFraction(d \otimes g)
    BY <1>1, <1>4, ProductSigns DEF NonNeg
  <2>2. x \preceq (x \oplus (d \otimes g))
    BY <1>4, <2>1, SumIsMore
  <2> QED BY <1>4, <2>1, <2>2, SumCommutes
<1>6. (d \otimes x) \preceq (d \otimes h)
  <2>1. (x \otimes d) \preceq (h \otimes d)
    BY <1>4, <1>5, ProductIsMonotone
  <2> QED BY <1>1, <1>4, <2>1, ProductCommutes
<1>7. IsFraction(d \otimes x) /\ IsFraction(d \otimes h) /\ y \preceq y
  BY <1>1, <1>4, SumIsFraction, OrderLaws
<1>8. ((d \otimes x) \oplus y) \preceq ((d \otimes h) \oplus y)
  BY <1>4, <1>6, <1>7, SumIsMonotone
<1> QED BY <1>3, <1>4, <1>8 DEF f

LEMMA RateBelowOne ==
    ASSUME NEW a, IsRate(a), Tells(a) PROVE a \prec One /\ Pos(One \ominus a)
<1>1. PICK A \in Int, D \in Nat : D > 0 /\ Is(a, A, D)
  BY IsItself, FractionType DEF IsRate
<1>2. Is(One, D, D) /\ A <= D
  BY <1>1, ZeroIs, IsOrdered DEF IsRate
<1>3. (5 * D - A) * D <= 100 * (A * (D - A))
  BY <1>1, TellsInts DEF Tells
<1>4. A # D
  <2>1. SUFFICES ASSUME A = D PROVE FALSE
    OBVIOUS
  <2>2. (5 * D - D) * D <= 100 * (D * (D - D))
    BY <1>3, <2>1
  <2>3. D * D > 0 /\ D * D \in Int
    BY <1>1
  <2>4. (5 * D - D) * D = 4 * (D * D) /\ 100 * (D * (D - D)) = 0
    OBVIOUS
  <2> QED BY <2>2, <2>3, <2>4
<1>5. a \prec One
  BY <1>1, <1>2, <1>4, IsOrdered
<1> QED BY <1>5, OneIsPos, DifferenceSigns DEF IsRate

(* Two neighbours of which one is twice as large always spread enough when *)
(* they are the last.                                                      *)
LEMMA PairSpreads ==
    ASSUME NEW l, NEW B, NEW S, NEW n, Seen(l, B, S, n, n), n >= 2, Tells(l.alpha),
           NEW i, NEW j, \/ i = n - 1 /\ j = n
                         \/ i = n /\ j = n - 1,
           (Whole(2) \otimes B[i]) \preceq B[j]
    PROVE  EnoughSpread(l)
<1> DEFINE a == l.alpha
           d == One \ominus l.alpha
           m == l.meanBytes
           U == [k \in 1..n |-> (B[k] \ominus m) \otimes (B[k] \ominus m)]
<1>1. /\ n \in Nat /\ AllFractions(B, n) /\ IsFraction(m) /\ IsFraction(l.bytesVar)
      /\ NonNeg(l.weight) /\ Pos(m) /\ IsRate(a)
      /\ i \in 1..n /\ j \in 1..n /\ n \in 1..n /\ n - 1 \in 1..n
  <2>1. /\ n \in Nat /\ AllFractions(B, n) /\ IsFraction(m) /\ IsFraction(l.bytesVar)
    BY SeenTypes
  <2>2. NonNeg(l.weight) /\ Pos(m) /\ IsRate(a)
    BY DEF Seen, GoodLine, HasPoints
  <2> QED BY <2>1, <2>2
<1>2. a \prec One /\ Pos(d) /\ Pos(a)
  BY <1>1, RateBelowOne DEF IsRate, Pos
<1>3. (a \otimes l.weight) \preceq One
  <2>1. l.weight = Faded(d, Ones(n), n)[n]
    BY MeansAre
  <2> QED BY <1>1, <2>1, WeightIsBounded
<1>4. \A k \in 1..n : U[k] = (B[k] \ominus m) \otimes (B[k] \ominus m)
  OBVIOUS
<1> HIDE DEF U
<1>5. Faded(d, U, n)[n] = l.bytesVar
  BY <1>4, VarianceIs
<1>6. \A k \in 1..n : IsFraction(B[k]) /\ NonNeg(U[k])
  <2> SUFFICES ASSUME NEW k \in 1..n PROVE IsFraction(B[k]) /\ NonNeg(U[k])
    OBVIOUS
  <2>1. IsFraction(B[k]) /\ IsFraction(B[k] \ominus m)
    BY <1>1, SumIsFraction DEF AllFractions
  <2> QED BY <1>4, <2>1, SquaresAreNonNeg
<1>7. ((d \otimes U[n - 1]) \oplus U[n]) \preceq l.bytesVar
  BY <1>1, <1>2, <1>5, <1>6, LastTwo
<1>8. /\ IsFraction(U[n - 1]) /\ IsFraction(U[n]) /\ IsFraction(d)
      /\ One \otimes U[n] = U[n] /\ IsFraction(d \otimes U[n - 1])
      /\ U[n] \oplus (d \otimes U[n - 1]) = (d \otimes U[n - 1]) \oplus U[n]
  <2>1. IsFraction(U[n - 1]) /\ IsFraction(U[n]) /\ IsFraction(d)
    BY <1>1, <1>2, <1>6 DEF NonNeg, Pos
  <2>2. IsFraction(d \otimes U[n - 1])
    BY <2>1, SumIsFraction
  <2> QED BY <2>1, <2>2, OneLaws, SumCommutes
<1>9. (Whole(5) \ominus a) \preceq (Whole(100) \otimes (a \otimes (One \ominus a)))
  BY DEF Tells
<1>10. PICK p, q : /\ \/ p = One /\ q = One \ominus a
                      \/ p = One \ominus a /\ q = One
                   /\ ((p \otimes U[i]) \oplus (q \otimes U[j])) \preceq l.bytesVar
  <2>1. CASE i = n - 1 /\ j = n
    BY <1>7, <1>8, <2>1
  <2>2. CASE i = n /\ j = n - 1
    BY <1>7, <1>8, <2>2
  <2> QED BY <2>1, <2>2
<1>11. U[i] = (B[i] \ominus m) \otimes (B[i] \ominus m) /\ U[j] = (B[j] \ominus m) \otimes (B[j] \ominus m)
  BY <1>1, <1>4
<1>12. IsFraction(B[i]) /\ IsFraction(B[j])
  BY <1>1, <1>6
<1> HIDE DEF a, m
<1>13. Spreads(a, l.weight, m, B[i], B[j], l.bytesVar, p, q)
  BY <1>1, <1>2, <1>3, <1>9, <1>10, <1>11, <1>12, Zenon DEF Spreads, m
<1>14. (l.weight \otimes (m \otimes m)) \preceq (Whole(100) \otimes l.bytesVar)
  BY <1>13, SpreadIsEnough
<1> QED BY <1>14 DEF EnoughSpread, m

(* What a line has made of r points.                                       *)
HasPair(B, r) ==
    \E i, j \in 1..r : i - j \in {-1, 1} /\ (Whole(2) \otimes B[i]) \preceq B[j]

Learned(l, B, S, r) ==
    Tells(l.alpha) /\ HasPair(B, r) =>
        \A a, k : NonNeg(a) /\ Pos(k) /\ OnLine(B, S, a, k, r) => Exact(l, a, k)

LearnedInv ==
    \A alpha \in Alphas : Learned(learners[<<"line", alpha>>], RowBytes, RowSeconds, Read)

LEMMA LineLearns ==
    ASSUME NEW l, GoodLine(l), NEW n \in Nat, NEW B, NEW S, AllFractions(B, n), AllFractions(S, n),
           NEW r \in 1..n, Pos(B[r]), Pos(S[r]), Moments(l, B, S, n, r - 1), Learned(l, B, S, r - 1)
    PROVE  Learned(Observe(l, B[r], S[r]), B, S, r)
<1> DEFINE p == AddPoint(l, B[r], S[r])
           new == Refit(p)
<1>1. Observe(l, B[r], S[r]) = new
  BY DEF GoodLine, Line, Observe, ObserveLine
<1>2. GoodLine(p) /\ HasPoints(p) /\ Moments(p, B, S, n, r)
  BY PointIsAdded, MomentsMove
<1>3. p.alpha = l.alpha /\ p.startup = l.startup /\ p.secondsPerByte = l.secondsPerByte
  BY DEF AddPoint, GoodLine, Line
<1> HIDE DEF p
<1>4. SamePoints(p, new)
  BY <1>2, RefitFits
<1> HIDE DEF new
<1>5. new.alpha = l.alpha
  BY <1>3, <1>4 DEF SamePoints
<1>6. Seen(p, B, S, r, r)
  <2>1. Seen(p, B, S, n, r)
    BY <1>2 DEF Seen
  <2> QED BY <2>1, SeenPrefix
<1> SUFFICES ASSUME Tells(l.alpha), HasPair(B, r),
                    NEW a, NEW k, NonNeg(a), Pos(k), OnLine(B, S, a, k, r)
             PROVE  Exact(new, a, k)
  BY <1>1, <1>5 DEF Learned
<1>7. OnLineMoments(p, a, k)
  BY <1>6, MeanIsOnLine, CovarianceIsOnLine DEF OnLineMoments
<1>8. CASE HasPair(B, r - 1)
  <2>1. OnLine(B, S, a, k, r - 1)
    BY DEF OnLine
  <2>2. Exact(l, a, k)
    BY <1>8, <2>1 DEF Learned
  <2>3. Exact(p, a, k)
    BY <1>3, <2>2 DEF Exact
  <2> QED BY <1>2, <1>7, <2>3, LearnedIsKept DEF new
<1>9. CASE ~HasPair(B, r - 1)
  <2>1. PICK i, j \in 1..r : i - j \in {-1, 1} /\ (Whole(2) \otimes B[i]) \preceq B[j]
    BY DEF HasPair
  <2>2. ~(i \in 1..r - 1 /\ j \in 1..r - 1)
    BY <1>9, <2>1 DEF HasPair
  <2>3. r >= 2 /\ \/ i = r - 1 /\ j = r
                  \/ i = r /\ j = r - 1
    BY <2>1, <2>2
  <2>4. EnoughSpread(p)
    BY <1>3, <1>6, <2>1, <2>3, PairSpreads
  <2> QED BY <1>2, <1>7, <2>4, SpreadIsLearned DEF new
<1> QED BY <1>8, <1>9

LEMMA InitLearned == AInit => LearnedInv
<1> SUFFICES ASSUME AInit PROVE LearnedInv
  OBVIOUS
<1>1. Read = 0
  BY DEF AInit, RInit, Read
<1> QED BY <1>1 DEF LearnedInv, Learned, HasPair

LEMMA ReplayKeepsLearned ==
    ASSUME RowsInv, LearnersInv, LinesInv, LearnedInv, ReplayRow PROVE LearnedInv'
<1> DEFINE i == Read + 1
<1>1. /\ Read' = i /\ i \in 1..Len(rows) /\ rows' = rows
      /\ learners' = [lr \in DOMAIN learners |->
                         Observe(learners[lr], rows[i].bytes, rows[i].seconds)]
  BY ReadsRow
<1> HIDE DEF i
<1>2. /\ Len(rows) \in Nat /\ AllFractions(RowBytes, Len(rows)) /\ AllFractions(RowSeconds, Len(rows))
      /\ RowBytes[i] = rows[i].bytes /\ RowSeconds[i] = rows[i].seconds
      /\ Pos(RowBytes[i]) /\ Pos(RowSeconds[i])
  BY <1>1, RowsAreFractions, RowsArePos DEF RowBytes, RowSeconds
<1>3. RowBytes' = RowBytes /\ RowSeconds' = RowSeconds
  BY <1>1 DEF RowBytes, RowSeconds
<1>4. ASSUME NEW alpha \in Alphas
      PROVE  Learned(learners[<<"line", alpha>>], RowBytes, RowSeconds, Read)'
  <2> DEFINE l == learners[<<"line", alpha>>]
             k == Observe(l, RowBytes[i], RowSeconds[i])
  <2>1. /\ GoodLine(l) /\ Moments(l, RowBytes, RowSeconds, Len(rows), Read)
        /\ Learned(l, RowBytes, RowSeconds, Read)
    BY DEF LinesInv, LineInv, LearnedInv
  <2>2. Read = i - 1
    BY <1>2 DEF i, LinesInv
  <2>3. learners'[<<"line", alpha>>] = k
    BY <1>1, <1>2 DEF LinesInv
  <2> HIDE DEF l
  <2>4. Learned(k, RowBytes, RowSeconds, i)
    BY <1>1, <1>2, <2>1, <2>2, LineLearns
  <2> HIDE DEF k
  <2> QED BY <1>1, <1>3, <2>3, <2>4
<1> QED BY <1>4 DEF LearnedInv

LEMMA LearnedStep ==
    RowsInv /\ LearnersInv /\ LinesInv /\ LearnedInv /\ [ANext]_avars => LearnedInv'
<1> SUFFICES ASSUME RowsInv, LearnersInv, LinesInv, LearnedInv, [ANext]_avars PROVE LearnedInv'
  OBVIOUS
<1>1. CASE Replays
  BY <1>1, ReplayKeepsLearned DEF Replays
<1>2. CASE UNCHANGED replayvars
  <2>1. UNCHANGED rows
    BY <1>2 DEF ANext, Replays, Loads, avars, ReplayRow, LNext, Chunk, NextLoad
  <2>2. /\ learners' = learners /\ Read' = Read /\ RowBytes' = RowBytes /\ RowSeconds' = RowSeconds
    BY <1>2, <2>1 DEF replayvars, Read, RowBytes, RowSeconds
  <2> QED BY <2>2 DEF LearnedInv
<1> QED BY <1>1, <1>2 DEF ANext, Loads, avars

LEMMA LearnedIsExact == RowsInv /\ LinesInv /\ LearnedInv => LearnsTheLine
<1> DEFINE Slope(i, j) == (RowSeconds[j] \ominus RowSeconds[i]) \oslash (RowBytes[j] \ominus RowBytes[i])
           Start(i, j) == RowSeconds[i] \ominus (Slope(i, j) \otimes RowBytes[i])
<1> SUFFICES ASSUME RowsInv, LinesInv, LearnedInv, NEW alpha \in Alphas,
                    NEW i \in 1..Read, NEW j \in 1..Read, Tells(alpha), i - j \in {-1, 1},
                    (Whole(2) \otimes RowBytes[i]) \preceq RowBytes[j],
                    Zero \prec Slope(i, j), Zero \preceq Start(i, j),
                    \A k \in 1..Read : RowSeconds[k] = Start(i, j) \oplus (Slope(i, j) \otimes RowBytes[k])
             PROVE  Exact(learners[<<"line", alpha>>], Start(i, j), Slope(i, j))
  <2>1. RowsInv /\ LinesInv => \A k \in 1..Read : RowBytes[k] = rows[k].bytes
                                                  /\ RowSeconds[k] = rows[k].seconds
    <3> SUFFICES ASSUME RowsInv, LinesInv, NEW k \in 1..Read
                 PROVE  RowBytes[k] = rows[k].bytes /\ RowSeconds[k] = rows[k].seconds
      OBVIOUS
    <3>1. k \in DOMAIN rows
      BY RowsAreFractions DEF LinesInv
    <3> QED BY <3>1 DEF RowBytes, RowSeconds
  <2> QED BY <2>1 DEF LearnsTheLine, Exact
<1>1. /\ AllFractions(RowBytes, Len(rows)) /\ AllFractions(RowSeconds, Len(rows))
      /\ i \in 1..Len(rows) /\ j \in 1..Len(rows)
  BY RowsAreFractions DEF LinesInv
<1>2. /\ IsFraction(RowBytes[i]) /\ IsFraction(RowBytes[j])
      /\ IsFraction(RowSeconds[i]) /\ IsFraction(RowSeconds[j]) /\ Pos(RowBytes[i])
  BY <1>1, RowsArePos, RowsAreFractions DEF AllFractions, RowBytes
<1>3. Pos(RowBytes[j] \ominus RowBytes[i])
  BY <1>2, TwiceIsMore
<1>4. Pos(Slope(i, j)) /\ IsFraction(Slope(i, j))
  <2>1. IsFraction(RowSeconds[j] \ominus RowSeconds[i])
    BY <1>2, SumIsFraction
  <2> QED BY <1>3, <2>1, QuotientSigns DEF Pos
<1> HIDE DEF Slope
<1>5. NonNeg(Start(i, j))
  <2>1. IsFraction(Slope(i, j) \otimes RowBytes[i])
    BY <1>2, <1>4, SumIsFraction
  <2> QED BY <1>2, <2>1, SumIsFraction DEF NonNeg
<1> HIDE DEF Start
<1>6. OnLine(RowBytes, RowSeconds, Start(i, j), Slope(i, j), Read) /\ HasPair(RowBytes, Read)
  BY <1>4, <1>5 DEF OnLine, HasPair, NonNeg
<1> QED BY <1>4, <1>5, <1>6 DEF LearnedInv, Learned, LinesInv, LineInv

(* However long a network is a line, and whatever the belief was before,   *)
(* a line has learned it from the first two neighbours of which one is     *)
(* twice as large, and later rows never make it forget.                    *)
THEOREM LinesAreLearned == ASpec => []LearnsTheLine
<1> DEFINE Inv == RowsInv /\ LearnersInv /\ LinesInv /\ LearnedInv
<1>1. AInit => Inv
  BY InitRows, InitLearners, InitLines, InitLearned
<1>2. Inv /\ [ANext]_avars => Inv'
  BY LinesStep, LearnedStep
<1>3. Inv => LearnsTheLine
  BY LearnedIsExact
<1> QED BY <1>1, <1>2, <1>3, PTL DEF ASpec
=============================================================================

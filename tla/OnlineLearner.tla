---------------------------- MODULE OnlineLearner ----------------------------
(***************************************************************************)
(* The learners of internal/learner as the tools use them, behind the      *)
(* interface simulator.Learner: Observe, Startup, SecondsPerByte.          *)
(***************************************************************************)
EXTENDS Rational

CONSTANT Ticks      \* of a time.Duration, to a second

ASSUME TicksAssumption == Ticks \in Nat \ {0}

NewLastSample(initial) == [kind |-> "last", secondsPerByte |-> initial, startup |-> Zero]

NewEWMA(alpha, initial) ==
    [kind |-> "ewma", alpha |-> alpha, secondsPerByte |-> initial, startup |-> Zero]

(* startup and secondsPerByte are the belief; the rest are the weighted    *)
(* moments of the points seen.                                             *)
NewLine(alpha, initial) ==
    [kind |-> "line", alpha |-> alpha, secondsPerByte |-> initial, startup |-> Zero,
     weight |-> Zero, meanBytes |-> Zero, meanSeconds |-> Zero,
     bytesVar |-> Zero, bytesSecondsCov |-> Zero]

-----------------------------------------------------------------------------
(* Mutant: the covariance does not fade.                                   *)
AddPointUnfaded(l, bytes, seconds) ==
    LET decay == One \ominus l.alpha
        weight == (decay \otimes l.weight) \oplus One
        dBytes == bytes \ominus l.meanBytes
        meanBytes == l.meanBytes \oplus (dBytes \oslash weight)
        meanSeconds == l.meanSeconds \oplus ((seconds \ominus l.meanSeconds) \oslash weight)
    IN  [l EXCEPT !.weight = weight, !.meanBytes = meanBytes, !.meanSeconds = meanSeconds,
            !.bytesVar = (decay \otimes @) \oplus (dBytes \otimes (bytes \ominus meanBytes)),
            !.bytesSecondsCov = @ \oplus (dBytes \otimes (seconds \ominus meanSeconds))]

(* Observe's first half: fade the old points and add a new one.            *)
AddPoint(l, bytes, seconds) ==
    LET decay == One \ominus l.alpha
        weight == (decay \otimes l.weight) \oplus One
        dBytes == bytes \ominus l.meanBytes
        meanBytes == l.meanBytes \oplus (dBytes \oslash weight)
        meanSeconds == l.meanSeconds \oplus ((seconds \ominus l.meanSeconds) \oslash weight)
    IN  [l EXCEPT !.weight = weight, !.meanBytes = meanBytes, !.meanSeconds = meanSeconds,
            !.bytesVar = (decay \otimes @) \oplus (dBytes \otimes (bytes \ominus meanBytes)),
            !.bytesSecondsCov = (decay \otimes @) \oplus (dBytes \otimes (seconds \ominus meanSeconds))]

(* A standard deviation of a tenth of the mean or more, by their squares.  *)
EnoughSpread(l) ==
    l.weight \otimes (l.meanBytes \otimes l.meanBytes) \preceq (Whole(100) \otimes l.bytesVar)

Believe(l, startup, secondsPerByte) ==
    [l EXCEPT !.startup = startup, !.secondsPerByte = secondsPerByte]

(* The slope from this startup to the mean point.                          *)
ThroughMean(l, startup) == (l.meanSeconds \ominus startup) \oslash l.meanBytes

(* Mutant: a startup longer than the mean transfer is kept.                *)
FallBackKeepingStartup(l) == Believe(l, l.startup, ThroughMean(l, l.startup))

FallBack(l) ==
    LET startup == IF l.meanSeconds \preceq l.startup THEN Zero ELSE l.startup
    IN  Believe(l, startup, ThroughMean(l, startup))

(* Mutant: a startup below 0 is pinned there, and the slope is kept.       *)
TakeFitUnpinned(l) ==
    LET slope == l.bytesSecondsCov \oslash l.bytesVar
        startup == l.meanSeconds \ominus (slope \otimes l.meanBytes)
    IN  Believe(l, Greater(startup, Zero), slope)

TakeFit(l) ==
    LET slope == l.bytesSecondsCov \oslash l.bytesVar
        startup == l.meanSeconds \ominus (slope \otimes l.meanBytes)
    IN  IF Zero \preceq startup THEN Believe(l, startup, slope)
        ELSE Believe(l, Zero, ThroughMean(l, Zero))

(* Observe's second half: fit a line that can be told and that rises.      *)
Refit(l) ==
    IF EnoughSpread(l) /\ Zero \prec l.bytesSecondsCov THEN TakeFit(l) ELSE FallBack(l)

ObserveLine(l, bytes, seconds) == Refit(AddPoint(l, bytes, seconds))

ObserveEWMA(l, bytes, seconds) ==
    [l EXCEPT !.secondsPerByte =
        ((One \ominus l.alpha) \otimes @) \oplus (l.alpha \otimes (seconds \oslash bytes))]

ObserveLastSample(l, bytes, seconds) == [l EXCEPT !.secondsPerByte = seconds \oslash bytes]

Observe(l, bytes, seconds) ==
    CASE l.kind = "line" -> ObserveLine(l, bytes, seconds)
      [] l.kind = "ewma" -> ObserveEWMA(l, bytes, seconds)
      [] l.kind = "last" -> ObserveLastSample(l, bytes, seconds)

(* How long l expects a transfer of bytes to take: the startup as a        *)
(* Duration, and the bytes at its rate.                                    *)
Startup(l) == Truncated(l.startup, Ticks)

Predicted(l, bytes) == Startup(l) \oplus (bytes \otimes l.secondsPerByte)
=============================================================================

---------------------------- MODULE ScoringProofs ----------------------------
(***************************************************************************)
(* What a belief about the network does to the choice, for all inputs that *)
(* are valid and every width of a Duration.                                *)
(***************************************************************************)
EXTENDS Scoring, SchedulerProofs

(* What Estimate accepts has no negative part.                             *)
AllInputs ==
    [queueA : Nat, queueB : Nat, prefixTokens : Nat, suffixTokens : Nat,
     prefillA : Nat, prefillB : Nat, bytesPerToken : Nat,
     secondsPerByte : Nat, startup : Nat]

LEMMA ProductOfNats == \A m, n \in Nat : m * n \in Nat
<1> QED OBVIOUS

LEMMA ProductGrows ==
    ASSUME NEW a \in Nat, NEW b \in Nat, NEW c \in Nat, b <= c PROVE a * b <= a * c
<1>1. a * (c - b) \in Nat
  BY ProductOfNats, c - b \in Nat
<1>2. a * c = a * b + a * (c - b)
  OBVIOUS
<1> QED BY <1>1, <1>2, ProductOfNats

(* The estimates of waiting and recomputing, which may have overflown.     *)
WaitTime(in) == Wrap(in.queueA + DurationFor(in.suffixTokens, in.prefillA))
RecomputeTime(in) ==
    Wrap(in.queueB + DurationFor(in.prefixTokens + in.suffixTokens, in.prefillB))

LEMMA DurationIsLarge ==
    ASSUME NEW a \in Nat, NEW u \in Nat PROVE DurationFor(a, u) >= -Horizon
<1> QED BY ProductOfNats, HorizonAssumption DEF DurationFor

LEMMA WrapKeeps == ASSUME NEW d \in -Horizon..Horizon - 1 PROVE Wrap(d) = d
<1>1. d + Horizon \in 0..2 * Horizon - 1 /\ 2 * Horizon \in Nat \ {0}
  BY HorizonAssumption
<1>2. (d + Horizon) % (2 * Horizon) = d + Horizon
  BY <1>1
<1> QED BY <1>2, HorizonAssumption DEF Wrap

LEMMA InputsAreNats ==
    ASSUME NEW in \in AllInputs
    PROVE  /\ in.queueA \in Nat /\ in.queueB \in Nat /\ in.startup \in Nat
           /\ in.suffixTokens \in Nat /\ in.prefixTokens \in Nat
           /\ in.prefillA \in Nat /\ in.prefillB \in Nat
           /\ in.bytesPerToken \in Nat /\ in.secondsPerByte \in Nat
           /\ in.prefixTokens * in.bytesPerToken \in Nat
           /\ NetworkTime(in) \in Nat
<1>1. /\ in.queueA \in Nat /\ in.queueB \in Nat /\ in.startup \in Nat
      /\ in.suffixTokens \in Nat /\ in.prefixTokens \in Nat
      /\ in.prefillA \in Nat /\ in.prefillB \in Nat
      /\ in.bytesPerToken \in Nat /\ in.secondsPerByte \in Nat
  BY DEF AllInputs
<1>2. in.prefixTokens * in.bytesPerToken \in Nat
  BY <1>1, ProductOfNats
<1>3. in.prefixTokens * in.bytesPerToken * in.secondsPerByte \in Nat
  BY <1>1, <1>2, ProductOfNats
<1> QED BY <1>1, <1>2, <1>3 DEF NetworkTime, Bytes

(* Where the transfer's own estimate fits, it is what it should be. *)
LEMMA EstimateInRange ==
    ASSUME NEW in \in AllInputs, ~PastTheEnd(in)
    PROVE  /\ TransferTime(in) \in Int /\ WaitTime(in) \in Int /\ RecomputeTime(in) \in Int
           /\ Estimate(in) = << [action |-> "wait",      ttft |-> WaitTime(in)],
                                [action |-> "transfer",  ttft |-> TransferTime(in)],
                                [action |-> "recompute", ttft |-> RecomputeTime(in)] >>
<1> DEFINE sA == DurationFor(in.suffixTokens, in.prefillA)
           sB == DurationFor(in.suffixTokens, in.prefillB)
           x  == in.prefixTokens * in.bytesPerToken * in.secondsPerByte
           pB == DurationFor(in.prefixTokens + in.suffixTokens, in.prefillB)
<1>1. /\ in.queueA \in Nat /\ in.queueB \in Nat /\ in.startup \in Nat
      /\ in.suffixTokens \in Nat /\ in.prefixTokens \in Nat
      /\ in.prefillA \in Nat /\ in.prefillB \in Nat /\ in.secondsPerByte \in Nat
      /\ in.prefixTokens * in.bytesPerToken \in Nat
  BY InputsAreNats
<1>2. sA \in Int /\ sB \in Int /\ pB \in Int /\ sB >= -Horizon
  <2>1. \A m, u \in Nat : DurationFor(m, u) \in Int /\ DurationFor(m, u) >= -Horizon
    BY DurationIsInt, DurationIsLarge
  <2>2. in.prefixTokens + in.suffixTokens \in Nat
    BY <1>1
  <2> QED BY <1>1, <2>1, <2>2
<1>3. x \in Nat
  BY <1>1, ProductOfNats
<1>4. /\ in.startup + x < Horizon
      /\ Later(in.queueB, in.startup + x) + sB < Horizon
  <2>1. NetworkTime(in) \in Nat /\ TransferTime(in) \in Int
    BY <1>1, <1>2, InputsAreNats DEF TransferTime, Later
  <2> QED BY <2>1, HorizonAssumption DEF PastTheEnd, NetworkTime, TransferTime, Bytes
<1>5. DurationFor(in.prefixTokens * in.bytesPerToken, in.secondsPerByte) = x
  <2>1. x < Horizon
    <3> HIDE DEF x
    <3> QED BY <1>1, <1>3, <1>4, HorizonAssumption
  <2> QED BY <2>1 DEF DurationFor
<1> HIDE DEF sA, sB, x, pB
<1>6. Wrap(in.startup + x) = in.startup + x
  BY <1>1, <1>3, <1>4, WrapInRange
<1>7. Later(in.queueB, in.startup + x) + sB \in -Horizon..Horizon - 1
  BY <1>1, <1>2, <1>3, <1>4, HorizonAssumption DEF Later
<1>8. Wrap(Later(in.queueB, in.startup + x) + sB) = Later(in.queueB, in.startup + x) + sB
  BY <1>7, WrapKeeps
<1>9. /\ WaitTime(in) = Wrap(in.queueA + sA) /\ RecomputeTime(in) = Wrap(in.queueB + pB)
      /\ TransferTime(in) = Later(in.queueB, in.startup + x) + sB
  BY DEF NetworkTime, TransferTime, Bytes, WaitTime, RecomputeTime, sA, sB, x, pB
<1>10. WaitTime(in) \in Int /\ RecomputeTime(in) \in Int /\ TransferTime(in) \in Int
  BY <1>1, <1>2, <1>7, <1>9, WrapIsInt, HorizonAssumption
<1>11. Estimate(in) = << [action |-> "wait",      ttft |-> Wrap(in.queueA + sA)],
                         [action |-> "transfer",
                          ttft |-> Wrap(Later(in.queueB, Wrap(in.startup + x)) + sB)],
                         [action |-> "recompute", ttft |-> Wrap(in.queueB + pB)] >>
  BY <1>5 DEF Estimate, sA, sB, pB
<1> QED BY <1>6, <1>8, <1>9, <1>10, <1>11

(* A belief that is slower in both parts makes the network slower.         *)
LEMMA NetworkIsMonotone ==
    ASSUME NEW a \in AllInputs, NEW b \in AllInputs,
           b.prefixTokens = a.prefixTokens, b.bytesPerToken = a.bytesPerToken,
           b.secondsPerByte >= a.secondsPerByte, b.startup >= a.startup
    PROVE  NetworkTime(a) <= NetworkTime(b)
<1>1. /\ a.prefixTokens * a.bytesPerToken \in Nat
      /\ a.secondsPerByte \in Nat /\ b.secondsPerByte \in Nat
      /\ a.startup \in Nat /\ b.startup \in Nat
  BY InputsAreNats
<1>2. a.prefixTokens * a.bytesPerToken * a.secondsPerByte
         <= a.prefixTokens * a.bytesPerToken * b.secondsPerByte
  BY <1>1, ProductGrows
<1>3. /\ a.prefixTokens * a.bytesPerToken * a.secondsPerByte \in Nat
      /\ a.prefixTokens * a.bytesPerToken * b.secondsPerByte \in Nat
  BY <1>1, ProductOfNats
<1> QED BY <1>1, <1>2, <1>3 DEF NetworkTime, Bytes

SameRequest(a, b) ==
    /\ b.queueA = a.queueA /\ b.queueB = a.queueB
    /\ b.suffixTokens = a.suffixTokens /\ b.prefixTokens = a.prefixTokens
    /\ b.prefillA = a.prefillA /\ b.prefillB = a.prefillB
    /\ b.bytesPerToken = a.bytesPerToken

(* Two beliefs about one request, the second slower in both parts: if it   *)
(* transfers and no overflow of the transfer's own estimate makes it, then *)
(* the first transfers too.                                                *)
LEMMA SlowerChoice ==
    ASSUME NEW a \in AllInputs, NEW b \in AllInputs, SameRequest(a, b),
           b.secondsPerByte >= a.secondsPerByte, b.startup >= a.startup,
           ChooseLowestTTFT(Estimate(b)).action = "transfer", ~PastTheEnd(b)
    PROVE  ChooseLowestTTFT(Estimate(a)).action = "transfer"
<1>1. /\ b.queueA = a.queueA /\ b.queueB = a.queueB
      /\ b.suffixTokens = a.suffixTokens /\ b.prefixTokens = a.prefixTokens
      /\ b.prefillA = a.prefillA /\ b.prefillB = a.prefillB
      /\ b.bytesPerToken = a.bytesPerToken
  BY DEF SameRequest
<1>2. WaitTime(b) = WaitTime(a) /\ RecomputeTime(b) = RecomputeTime(a)
  BY <1>1 DEF WaitTime, RecomputeTime
<1>3. NetworkTime(a) <= NetworkTime(b)
  BY <1>1, NetworkIsMonotone
<1>4. /\ a.queueB \in Nat /\ DurationFor(a.suffixTokens, a.prefillB) \in Int
      /\ NetworkTime(a) \in Nat /\ NetworkTime(b) \in Nat
  <2>1. \A in \in AllInputs : NetworkTime(in) \in Nat
    BY InputsAreNats
  <2>2. a.queueB \in Nat /\ a.suffixTokens \in Int /\ a.prefillB \in Int
    BY InputsAreNats
  <2> QED BY <2>1, <2>2, DurationIsInt
<1>5. TransferTime(a) <= TransferTime(b) /\ TransferTime(a) \in Int /\ TransferTime(b) \in Int
  BY <1>1, <1>3, <1>4 DEF TransferTime, Later
<1>6. ~PastTheEnd(a)
  BY <1>3, <1>4, <1>5, HorizonAssumption DEF PastTheEnd
<1> DEFINE w(in) == [action |-> "wait", ttft |-> WaitTime(in)]
           t(in) == [action |-> "transfer", ttft |-> TransferTime(in)]
           c(in) == [action |-> "recompute", ttft |-> RecomputeTime(in)]
<1>7. /\ ChooseLowestTTFT(Estimate(a)) = First(First(w(a), t(a)), c(a))
      /\ ChooseLowestTTFT(Estimate(b)) = First(First(w(b), t(b)), c(b))
  BY <1>6, EstimateInRange, LowestOfThree
<1>8. WaitTime(a) \in Int /\ RecomputeTime(a) \in Int
  BY <1>6, EstimateInRange
<1>9. TransferTime(b) < WaitTime(b) /\ ~(RecomputeTime(b) < TransferTime(b))
  BY <1>7 DEF First
<1>10. ChooseLowestTTFT(Estimate(a)) = t(a)
  BY <1>2, <1>5, <1>7, <1>8, <1>9 DEF First
<1> QED BY <1>10
=============================================================================

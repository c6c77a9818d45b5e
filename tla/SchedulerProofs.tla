--------------------------- MODULE SchedulerProofs ---------------------------
(* What ChooseLowestTTFT's loop returns, for any list of candidates, and   *)
(* what it is given.                                                       *)
EXTENDS Scheduler, CostModel, RationalProofs

(* The first n turns of ChooseLowestTTFT's loop, given their results f.    *)
Turns(cs, n, f) ==
    [i \in 1..n |-> IF i = 1 THEN cs[1]
                    ELSE IF cs[i].ttft < f[i - 1].ttft THEN cs[i] ELSE f[i - 1]]

LEMMA TurnsExist ==
    ASSUME NEW cs PROVE \A n \in Nat : \E f : f = Turns(cs, n, f)
<1> DEFINE S == {n \in Nat : \E f : f = Turns(cs, n, f)}
<1>1. 0 \in S
  <2>1. <<>> = Turns(cs, 0, <<>>)
    BY DEF Turns
  <2> QED BY <2>1
<1>2. ASSUME NEW n \in Nat, n \in S PROVE n + 1 \in S
  <2>1. PICK f : f = Turns(cs, n, f)
    BY <1>2
  <2> DEFINE g == [i \in 1..n + 1 |->
                      IF i <= n THEN f[i]
                      ELSE IF i = 1 THEN cs[1]
                      ELSE IF cs[i].ttft < f[i - 1].ttft THEN cs[i] ELSE f[i - 1]]
  <2>2. \A i \in 1..n : f[i] = IF i = 1 THEN cs[1]
                          ELSE IF cs[i].ttft < f[i - 1].ttft THEN cs[i] ELSE f[i - 1]
    BY <2>1 DEF Turns
  <2>3. g = Turns(cs, n + 1, g)
    BY <2>2 DEF Turns
  <2> QED BY <2>3
<1> HIDE DEF S
<1>3. \A n \in Nat : n \in S
  BY <1>1, <1>2, SimpleInduction
<1> QED BY <1>3 DEF S

LEMMA LoopIsDefined ==
    ASSUME NEW cs, Len(cs) \in Nat
    PROVE  \E best : best = Turns(cs, Len(cs), best) /\ ChooseLowestTTFT(cs) = best[Len(cs)]
<1> DEFINE best == CHOOSE f : f = Turns(cs, Len(cs), f)
<1>1. best = Turns(cs, Len(cs), best)
  BY TurnsExist, Zenon
<1>2. ChooseLowestTTFT(cs) = best[Len(cs)]
  BY Zenon DEF ChooseLowestTTFT, Turns
<1> QED BY <1>1, <1>2

-----------------------------------------------------------------------------
IsFirstLowest(cs, i, n) ==
    \A j \in 1..n : cs[i].ttft <= cs[j].ttft /\ (j < i => cs[i].ttft < cs[j].ttft)

(* Of any candidates at all the scheduler's loop returns the first of the  *)
(* lowest.                                                                 *)
THEOREM LoopFindsFirstLowest ==
    ASSUME NEW cs, Len(cs) \in Nat \ {0}, \A i \in 1..Len(cs) : cs[i].ttft \in Int
    PROVE  \E i \in 1..Len(cs) : ChooseLowestTTFT(cs) = cs[i] /\ IsFirstLowest(cs, i, Len(cs))
<1>1. PICK best : best = Turns(cs, Len(cs), best) /\ ChooseLowestTTFT(cs) = best[Len(cs)]
  BY LoopIsDefined
<1> DEFINE S == {n \in Nat : n + 1 <= Len(cs) =>
                    \E i \in 1..n + 1 : best[n + 1] = cs[i] /\ IsFirstLowest(cs, i, n + 1)}
<1>2. \A i \in 1..Len(cs) : best[i] = IF i = 1 THEN cs[1]
                              ELSE IF cs[i].ttft < best[i - 1].ttft THEN cs[i] ELSE best[i - 1]
  BY <1>1 DEF Turns
<1>3. 0 \in S
  <2>1. 1 \in 1..Len(cs) /\ best[1] = cs[1]
    BY <1>2
  <2>2. IsFirstLowest(cs, 1, 1)
    BY <2>1 DEF IsFirstLowest
  <2> QED BY <2>1, <2>2
<1>4. ASSUME NEW n \in Nat, n \in S PROVE n + 1 \in S
  <2> SUFFICES ASSUME n + 2 <= Len(cs)
               PROVE  \E i \in 1..n + 2 : best[n + 2] = cs[i] /\ IsFirstLowest(cs, i, n + 2)
    OBVIOUS
  <2>1. PICK i \in 1..n + 1 : best[n + 1] = cs[i] /\ IsFirstLowest(cs, i, n + 1)
    BY <1>4
  <2>2. n + 2 \in 1..Len(cs) /\ (n + 2) - 1 = n + 1 /\ n + 2 # 1
    OBVIOUS
  <2>3. best[n + 2] = IF cs[n + 2].ttft < cs[i].ttft THEN cs[n + 2] ELSE cs[i]
    BY <1>2, <2>1, <2>2
  <2>4. CASE cs[n + 2].ttft < cs[i].ttft
    <3>1. IsFirstLowest(cs, n + 2, n + 2)
      BY <2>1, <2>4 DEF IsFirstLowest
    <3> QED BY <2>3, <2>4, <3>1
  <2>5. CASE ~(cs[n + 2].ttft < cs[i].ttft)
    <3>1. IsFirstLowest(cs, i, n + 2)
      BY <2>1, <2>5 DEF IsFirstLowest
    <3> QED BY <2>1, <2>3, <2>5, <3>1
  <2> QED BY <2>4, <2>5
<1> HIDE DEF S
<1>5. \A n \in Nat : n \in S
  BY <1>3, <1>4, SimpleInduction
<1>6. Len(cs) - 1 \in S
  BY <1>5
<1> QED BY <1>1, <1>6 DEF S

-----------------------------------------------------------------------------
(* The lists there are: the three of Estimate, and the two of them that    *)
(* bestWithoutTransfer leaves.                                             *)
First(a, b) == IF b.ttft < a.ttft THEN b ELSE a

LEMMA LowestOfThree ==
    ASSUME NEW a, NEW b, NEW c
    PROVE  ChooseLowestTTFT(<<a, b, c>>) = First(First(a, b), c)
<1> DEFINE s == <<a, b, c>>
<1>1. Len(s) = 3 /\ s[1] = a /\ s[2] = b /\ s[3] = c
  OBVIOUS
<1> HIDE DEF s
<1>0. Len(s) \in Nat
  BY <1>1
<1>2. PICK best : best = Turns(s, Len(s), best) /\ ChooseLowestTTFT(s) = best[Len(s)]
  BY <1>0, LoopIsDefined
<1>3. best[1] = a
  BY <1>1, <1>2 DEF Turns
<1>4. best[2] = First(a, b)
  BY <1>1, <1>2, <1>3 DEF Turns, First
<1>5. best[3] = First(First(a, b), c)
  BY <1>1, <1>2, <1>4 DEF Turns, First
<1> QED BY <1>1, <1>2, <1>5 DEF s

LEMMA LowestOfTwo ==
    ASSUME NEW a, NEW b
    PROVE  ChooseLowestTTFT(<<a, b>>) = First(a, b)
<1> DEFINE s == <<a, b>>
<1>1. Len(s) = 2 /\ s[1] = a /\ s[2] = b
  OBVIOUS
<1> HIDE DEF s
<1>0. Len(s) \in Nat
  BY <1>1
<1>2. PICK best : best = Turns(s, Len(s), best) /\ ChooseLowestTTFT(s) = best[Len(s)]
  BY <1>0, LoopIsDefined
<1>3. best[1] = a
  BY <1>1, <1>2 DEF Turns
<1>4. best[2] = First(a, b)
  BY <1>1, <1>2, <1>3 DEF Turns, First
<1> QED BY <1>1, <1>2, <1>4 DEF s

-----------------------------------------------------------------------------
(* The predictions there are: integers, whatever overflows, in the order   *)
(* of the three plans.                                                     *)
LEMMA WrapIsInt == ASSUME NEW d \in Int PROVE Wrap(d) \in Int
<1> QED BY HorizonAssumption DEF Wrap

LEMMA WrapFits == ASSUME NEW d \in Int PROVE Wrap(d) \in -Horizon..Horizon - 1
<1>1. (d + Horizon) % (2 * Horizon) \in 0..2 * Horizon - 1
  BY HorizonAssumption
<1> QED BY <1>1, HorizonAssumption DEF Wrap

LEMMA WrapInRange == ASSUME NEW d \in Nat, d < Horizon PROVE Wrap(d) = d
<1>1. d + Horizon \in 0..2 * Horizon - 1 /\ 2 * Horizon \in Nat \ {0}
  BY HorizonAssumption
<1>2. (d + Horizon) % (2 * Horizon) = d + Horizon
  BY <1>1
<1> QED BY <1>2, HorizonAssumption DEF Wrap

LEMMA DurationIsInt ==
    ASSUME NEW a \in Int, NEW u \in Int PROVE DurationFor(a, u) \in Int
<1> QED BY HorizonAssumption DEF DurationFor

LEMMA EstimateIsTyped ==
    ASSUME NEW in, in.queueA \in Int, in.queueB \in Int, in.startup \in Int,
           in.suffixTokens \in Int, in.prefixTokens \in Int, in.bytesPerToken \in Int,
           in.prefillA \in Int, in.prefillB \in Int, in.secondsPerByte \in Int
    PROVE  /\ Len(Estimate(in)) = 3 /\ DOMAIN Estimate(in) = 1..3
           /\ \A i \in 1..3 : /\ Estimate(in)[i].ttft \in Int
                            /\ Estimate(in)[i].ttft \in -Horizon..Horizon - 1
<1> DEFINE suffixA == DurationFor(in.suffixTokens, in.prefillA)
           suffixB == DurationFor(in.suffixTokens, in.prefillB)
           transfer == DurationFor(in.prefixTokens * in.bytesPerToken, in.secondsPerByte)
           both == DurationFor(in.prefixTokens + in.suffixTokens, in.prefillB)
<1>1. suffixA \in Int /\ suffixB \in Int /\ transfer \in Int /\ both \in Int
  <2>1. in.prefixTokens * in.bytesPerToken \in Int /\ in.prefixTokens + in.suffixTokens \in Int
    OBVIOUS
  <2> QED BY <2>1, DurationIsInt
<1> HIDE DEF suffixA, suffixB, transfer, both
<1>2. Wrap(in.startup + transfer) \in Int
  BY <1>1, WrapIsInt
<1>3. Later(in.queueB, Wrap(in.startup + transfer)) \in Int
  BY <1>2 DEF Later
<1>4. /\ in.queueA + suffixA \in Int /\ in.queueB + both \in Int
      /\ Later(in.queueB, Wrap(in.startup + transfer)) + suffixB \in Int
  BY <1>1, <1>3
<1>5. \A d \in Int : Wrap(d) \in Int /\ Wrap(d) \in -Horizon..Horizon - 1
  BY WrapIsInt, WrapFits
<1> QED BY <1>4, <1>5 DEF Estimate, suffixA, suffixB, transfer, both

LEMMA EstimateIsThree ==
    ASSUME NEW in
    PROVE  \E w, t, r : /\ Estimate(in) = <<w, t, r>>
                        /\ w.action = "wait" /\ t.action = "transfer" /\ r.action = "recompute"
<1> DEFINE wait == [action |-> "wait", ttft |-> Estimate(in)[1].ttft]
           transfer == [action |-> "transfer", ttft |-> Estimate(in)[2].ttft]
           recompute == [action |-> "recompute", ttft |-> Estimate(in)[3].ttft]
<1>1. Estimate(in) = <<wait, transfer, recompute>>
  BY DEF Estimate
<1>2. /\ wait.action = "wait" /\ transfer.action = "transfer"
      /\ recompute.action = "recompute"
  OBVIOUS
<1> QED BY <1>1, <1>2, Zenon

LEMMA ChoiceIsAction ==
    ASSUME NEW in PROVE ChooseLowestTTFT(Estimate(in)).action \in Actions
BY EstimateIsThree, LowestOfThree DEF First, Actions
=============================================================================

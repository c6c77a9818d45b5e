--------------------------- MODULE SimulatorProofs ---------------------------
(***************************************************************************)
(* What a run of the simulator records, for any workload whose true        *)
(* estimates fit a Duration, any initial belief and any noise.             *)
(***************************************************************************)
EXTENDS Simulator, ScoringProofs, SequenceTheorems

TimeOf(in, action) == TtftOf(Estimate(in), action)

(* Each action has one time, and the choice is an action of least time.    *)
LEMMA TimesOfEstimate ==
    ASSUME NEW in \in Inputs
    PROVE  LET c == ChooseLowestTTFT(Estimate(in))
           IN  /\ \A a \in Actions : TimeOf(in, a) \in Int
               /\ TimeOf(in, "wait") = Estimate(in)[1].ttft
               /\ TimeOf(in, "transfer") = Estimate(in)[2].ttft
               /\ TimeOf(in, "recompute") = Estimate(in)[3].ttft
               /\ c.action \in Actions /\ c.ttft = TimeOf(in, c.action)
               /\ \A a \in Actions : c.ttft <= TimeOf(in, a)
<1>1. PICK w, t, r : /\ Estimate(in) = <<w, t, r>>
                     /\ w.action = "wait" /\ t.action = "transfer" /\ r.action = "recompute"
  BY EstimateIsThree
<1>2. \A i \in 1..3 : Estimate(in)[i].ttft \in Int
  <2>1. /\ in.queueA \in Int /\ in.queueB \in Int /\ in.startup \in Int
        /\ in.suffixTokens \in Int /\ in.prefixTokens \in Int /\ in.bytesPerToken \in Int
        /\ in.prefillA \in Int /\ in.prefillB \in Int /\ in.secondsPerByte \in Int
    BY DEF Inputs
  <2> QED BY <2>1, EstimateIsTyped, Zenon
<1> DEFINE s == Estimate(in)
<1>3. DOMAIN s = 1..3 /\ s[1] = w /\ s[2] = t /\ s[3] = r
  BY <1>1
<1>4. ChooseLowestTTFT(s) = First(First(w, t), r)
  BY <1>1, LowestOfThree
<1> HIDE DEF s
<1>5. ASSUME NEW i \in 1..3 PROVE TtftOf(s, s[i].action) = s[i].ttft
  <2>1. \A j \in DOMAIN s : s[j].action = s[i].action => j = i
    BY <1>1, <1>3
  <2> QED BY <1>3, <2>1 DEF TtftOf
<1>6. /\ TtftOf(s, "wait") = w.ttft /\ TtftOf(s, "transfer") = t.ttft
      /\ TtftOf(s, "recompute") = r.ttft
  BY <1>1, <1>3, <1>5
<1>7. w.ttft \in Int /\ t.ttft \in Int /\ r.ttft \in Int
  BY <1>2, <1>3 DEF s
<1>8. LET c == ChooseLowestTTFT(s)
      IN  /\ c.action \in Actions /\ c.ttft = TtftOf(s, c.action)
          /\ c.ttft <= w.ttft /\ c.ttft <= t.ttft /\ c.ttft <= r.ttft
  BY <1>1, <1>4, <1>6, <1>7 DEF First, Actions
<1> QED BY <1>3, <1>6, <1>7, <1>8 DEF Actions, TimeOf, s

(* A belief moves the time of a transfer only.                             *)
LEMMA BeliefMovesTransfers ==
    ASSUME NEW truth \in Inputs, NEW b \in Belief
    PROVE  /\ Believed(truth, b) \in Inputs
           /\ \A a \in Actions : a # "transfer" => TimeOf(Believed(truth, b), a) = TimeOf(truth, a)
<1> DEFINE in == Believed(truth, b)
<1>1. /\ in \in Inputs
      /\ in.queueA = truth.queueA /\ in.queueB = truth.queueB
      /\ in.prefixTokens = truth.prefixTokens /\ in.suffixTokens = truth.suffixTokens
      /\ in.prefillA = truth.prefillA /\ in.prefillB = truth.prefillB
  BY DEF Believed, Inputs, Belief
<1> HIDE DEF in
<1>2. Estimate(in)[1].ttft = Estimate(truth)[1].ttft /\ Estimate(in)[3].ttft = Estimate(truth)[3].ttft
  BY <1>1 DEF Estimate
<1>3. /\ TimeOf(in, "wait") = TimeOf(truth, "wait")
      /\ TimeOf(in, "recompute") = TimeOf(truth, "recompute")
  BY <1>1, <1>2, TimesOfEstimate
<1> QED BY <1>1, <1>3 DEF Actions, in

(* Regret is the difference of two times that are known.                   *)
LEMMA RegretOfTruth ==
    ASSUME NEW ts \in Workloads, NEW i \in DOMAIN ts, ValidInputs(ts[i]), NEW a \in Actions
    PROVE  LET best == BestActual(ts[i])
           IN  /\ ts[i] \in Inputs /\ best.action \in Actions
               /\ TimeOf(ts[i], a) \in Nat /\ best.ttft \in Nat
               /\ best.ttft = TimeOf(ts[i], best.action)
               /\ best.ttft <= TimeOf(ts[i], a)
               /\ Regret(ts[i], a) = TimeOf(ts[i], a) - best.ttft
<1> DEFINE t == ts[i]
           best == BestActual(t)
<1>1. t \in Inputs
  BY WorkloadsAssumption
<1>2. \A c \in 1..3 : Estimate(t)[c].ttft >= 0
  <2>1. \A c \in DOMAIN Estimate(t) : Estimate(t)[c].ttft >= 0
    BY WorkloadsAssumption
  <2>2. DOMAIN Estimate(t) = 1..3
    BY DEF Estimate
  <2> QED BY <2>1, <2>2
<1>3. \A c \in 1..3 : Estimate(t)[c].ttft \in -Horizon..Horizon - 1
  <2>1. /\ t.queueA \in Int /\ t.queueB \in Int /\ t.startup \in Int
        /\ t.suffixTokens \in Int /\ t.prefixTokens \in Int /\ t.bytesPerToken \in Int
        /\ t.prefillA \in Int /\ t.prefillB \in Int /\ t.secondsPerByte \in Int
    BY <1>1 DEF Inputs
  <2> HIDE DEF t
  <2> QED BY <2>1, EstimateIsTyped, Zenon
<1> HIDE DEF t
<1>4. /\ \A b \in Actions : TimeOf(t, b) \in Nat /\ TimeOf(t, b) < Horizon
      /\ best.action \in Actions /\ best.ttft = TimeOf(t, best.action)
      /\ \A b \in Actions : best.ttft <= TimeOf(t, b)
  <2>1. /\ \A b \in Actions : TimeOf(t, b) \in Int
        /\ \A b \in Actions : TimeOf(t, b) \in {Estimate(t)[1].ttft, Estimate(t)[2].ttft, Estimate(t)[3].ttft}
        /\ best.action \in Actions /\ best.ttft = TimeOf(t, best.action)
        /\ \A b \in Actions : best.ttft <= TimeOf(t, b)
    BY <1>1, TimesOfEstimate DEF BestActual, Actions
  <2>2. \A b \in Actions : TimeOf(t, b) >= 0 /\ TimeOf(t, b) <= Horizon - 1
    <3>1. /\ Estimate(t)[1].ttft >= 0 /\ Estimate(t)[1].ttft <= Horizon - 1
          /\ Estimate(t)[2].ttft >= 0 /\ Estimate(t)[2].ttft <= Horizon - 1
          /\ Estimate(t)[3].ttft >= 0 /\ Estimate(t)[3].ttft <= Horizon - 1
      BY <1>2, <1>3, HorizonAssumption
    <3> QED BY <2>1, <3>1
  <2> HIDE DEF best
  <2> QED BY <2>1, <2>2, HorizonAssumption
<1> HIDE DEF best
<1>5. TimeOf(t, a) - best.ttft \in Nat /\ TimeOf(t, a) - best.ttft < Horizon
  BY <1>4, HorizonAssumption
<1>6. Regret(t, a) = TimeOf(t, a) - best.ttft
  BY <1>5, WrapInRange DEF Regret, ActualTTFT, TimeOf, best
<1> QED BY <1>1, <1>4, <1>6 DEF t, best

-----------------------------------------------------------------------------
(* The invariant. *)

OutcomeOfAnyBelief == [regret : Int, believed : Actions, executed : Actions,
                       predicted : Int, actual : Int]

RunTypeOK ==
    /\ truths \in Workloads /\ probeEvery \in Int
    /\ belief \in Belief /\ sinceTransfer \in Nat
    /\ outcomes \in Seq(OutcomeOfAnyBelief) /\ held \in Seq(Belief)
    /\ Len(held) = Len(outcomes) /\ Len(outcomes) <= Len(truths)
    /\ pc = "start" => outcomes = <<>> /\ sinceTransfer = 0

(* Each outcome is the record of its scenario, belief and action.          *)
RecordInv ==
    \A j \in 1..Len(outcomes) :
        /\ ValidInputs(truths[j]) /\ ValidInputs(Believed(truths[j], held[j]))
        /\ outcomes[j] = Record(truths[j], held[j], outcomes[j].executed)

(* sinceTransfer counts back to the last transfer.                         *)
CountInv ==
    LET n == Len(outcomes)
    IN  pc # "returned" =>
            /\ sinceTransfer <= n
            /\ \A l \in n - sinceTransfer + 1..n : outcomes[l].executed # "transfer"
            /\ sinceTransfer < n => outcomes[n - sinceTransfer].executed = "transfer"

SimInv == RunTypeOK /\ RecordInv /\ CountInv /\ ProbesAreOnTime

LEMMA LengthOfTruths == \A ts \in Workloads : Len(ts) \in Nat /\ DOMAIN ts = 1..Len(ts)
<1> QED BY WorkloadsAssumption, LenProperties

LEMMA InitSimInv == Init => SimInv
<1> SUFFICES ASSUME Init PROVE SimInv
  OBVIOUS
<1>1. probeEvery \in Int /\ Len(truths) \in Nat
  BY ProbesAssumption, LengthOfTruths DEF Init
<1>2. outcomes = <<>> /\ held = <<>> /\ Len(outcomes) = 0 /\ Len(held) = 0
  BY DEF Init
<1>3. RunTypeOK
  BY <1>1, <1>2, InitialAssumption DEF Init, RunTypeOK
<1>4. RecordInv /\ CountInv /\ ProbesAreOnTime
  BY <1>2 DEF Init, RecordInv, CountInv, ProbesAreOnTime
<1> QED BY <1>3, <1>4 DEF SimInv

(* What Record makes of a scenario that is valid. *)
LEMMA RecordFacts ==
    ASSUME NEW ts \in Workloads, NEW i \in DOMAIN ts, ValidInputs(ts[i]),
           NEW b \in Belief, NEW a \in Actions
    PROVE  /\ Record(ts[i], b, a) \in OutcomeOfAnyBelief
           /\ Record(ts[i], b, a).executed = a
           /\ Record(ts[i], b, a).believed = Choice(ts[i], b)
           /\ Choice(ts[i], b) \in Actions
<1>1. /\ ts[i] \in Inputs /\ TimeOf(ts[i], a) \in Int
      /\ Regret(ts[i], a) \in Int
  BY RegretOfTruth
<1>2. /\ Believed(ts[i], b) \in Inputs
  BY <1>1, BeliefMovesTransfers
<1>3. TimeOf(Believed(ts[i], b), a) \in Int /\ Choice(ts[i], b) \in Actions
  BY <1>2, TimesOfEstimate DEF Choice
<1> QED BY <1>1, <1>3 DEF Record, OutcomeOfAnyBelief, TimeOf, ActualTTFT

LEMMA RequestSimInv == ASSUME SimInv, Request PROVE SimInv'
<1> DEFINE n == Len(outcomes)
           executed == IF ProbeDue THEN "transfer" ELSE Choice(Truth, belief)
<1>1. /\ pc = "loop" /\ n \in Nat /\ n < Len(truths) /\ ValidInputs(Truth)
      /\ ValidInputs(Believed(Truth, belief))
      /\ outcomes' = Append(outcomes, Record(Truth, belief, executed))
      /\ sinceTransfer' = IF executed = "transfer" THEN 0 ELSE sinceTransfer + 1
      /\ held' = Append(held, belief)
      /\ UNCHANGED <<truths, learner, probeEvery, pc>>
  BY LenProperties DEF Request, SimInv, RunTypeOK
<1>2. /\ truths \in Workloads /\ n + 1 \in DOMAIN truths /\ Truth = truths[n + 1]
      /\ belief \in Belief /\ probeEvery \in Int /\ sinceTransfer \in Nat
  BY <1>1, LengthOfTruths DEF SimInv, RunTypeOK, Truth
<1>3. executed \in Actions /\ Record(Truth, belief, executed) \in OutcomeOfAnyBelief
      /\ Record(Truth, belief, executed).executed = executed
      /\ Record(Truth, belief, executed).believed = Choice(Truth, belief)
  <2>1. "transfer" \in Actions
    BY DEF Actions
  <2>2. executed \in Actions
    BY <1>1, <1>2, <2>1, RecordFacts
  <2> HIDE DEF executed
  <2> QED BY <1>1, <1>2, <2>2, RecordFacts
<1>4. belief' \in Belief
  <2>1. CASE Learns(Truth, executed)
    <3>1. PICK seconds \in NoisyObserve(TransferDuration(Truth)) :
            belief' = LastSample(Bytes(Truth), seconds)
      BY <2>1 DEF Request
    <3>2. \E rate \in 0..seconds : rate * Bytes(Truth) = seconds
      BY <1>1, <1>2, <2>1, ObservationsAssumption DEF Learns
    <3>3. LastSample(Bytes(Truth), seconds).secondsPerByte \in 0..seconds
      BY <3>2 DEF LastSample
    <3> QED BY <3>1, <3>3 DEF LastSample, Belief
  <2>2. CASE ~Learns(Truth, executed)
    BY <1>2, <2>2 DEF Request
  <2> QED BY <2>1, <2>2
<1> DEFINE new == Record(Truth, belief, executed)
<1>5. /\ outcomes' \in Seq(OutcomeOfAnyBelief) /\ Len(outcomes') = n + 1
      /\ outcomes'[n + 1] = new /\ \A j \in 1..n : outcomes'[j] = outcomes[j]
      /\ held' \in Seq(Belief) /\ Len(held') = n + 1
      /\ held'[n + 1] = belief /\ \A j \in 1..n : held'[j] = held[j]
  BY <1>1, <1>2, <1>3, AppendProperties, LenProperties DEF SimInv, RunTypeOK
<1>6. DOMAIN outcomes' = 1..n + 1 /\ DOMAIN outcomes = 1..n
  BY <1>5, LenProperties DEF SimInv, RunTypeOK
<1> HIDE DEF n, executed, new
<1>7. RunTypeOK'
  BY <1>1, <1>2, <1>4, <1>5, LengthOfTruths DEF RunTypeOK
<1>8. RecordInv'
  <2> DEFINE Recorded(truth, b, o) ==
                 /\ ValidInputs(truth) /\ ValidInputs(Believed(truth, b))
                 /\ o = Record(truth, b, o.executed)
  <2>1. \A j \in 1..n : Recorded(truths[j], held[j], outcomes[j])
    BY DEF SimInv, RecordInv, n
  <2>2. Recorded(truths[n + 1], belief, new)
    BY <1>1, <1>2, <1>3 DEF new
  <2> HIDE DEF Recorded
  <2>3. \A j \in 1..n + 1 : Recorded(truths[j], held'[j], outcomes'[j])
    <3>1. \A j \in 1..n + 1 : j \in 1..n \/ j = n + 1
      BY <1>1
    <3> QED BY <1>5, <2>1, <2>2, <3>1, Zenon
  <2>4. \A j \in 1..Len(outcomes') :
           Recorded(truths'[j], held'[j], outcomes'[j])
    BY <1>1, <1>5, <2>3
  <2> USE DEF Recorded
  <2> QED BY <2>4 DEF RecordInv
<1>9. /\ sinceTransfer <= n
      /\ \A l \in n - sinceTransfer + 1..n : outcomes[l].executed # "transfer"
      /\ sinceTransfer < n => outcomes[n - sinceTransfer].executed = "transfer"
  BY <1>1 DEF SimInv, CountInv, n
<1>10. CountInv'
  <2>1. outcomes'[n + 1].executed = executed
    BY <1>3, <1>5 DEF new
  <2>2. CASE executed = "transfer"
    <3>1. sinceTransfer' = 0
      BY <1>1, <2>2
    <3> QED BY <1>1, <1>5, <2>1, <2>2, <3>1 DEF CountInv
  <2>3. CASE executed # "transfer"
    <3>1. sinceTransfer' = sinceTransfer + 1
      BY <1>1, <2>3
    <3> QED BY <1>1, <1>2, <1>5, <1>9, <2>1, <2>3, <3>1 DEF CountInv
  <2> QED BY <2>2, <2>3
<1>11. ProbesAreOnTime'
  <2> DEFINE Due(rs, k) == /\ probeEvery > 0 /\ k > probeEvery
                           /\ \A i \in k - probeEvery..k - 1 : rs[i].executed # "transfer"
  <2>0. PICK os : os = outcomes'
    OBVIOUS
  <2> SUFFICES ASSUME NEW j \in 1..n + 1
      PROVE  /\ os[j].executed # os[j].believed => Due(os, j)
             /\ Due(os, j) => os[j].executed = "transfer"
    BY <1>1, <1>6, <2>0 DEF ProbesAreOnTime, Probed
  <2>1. CASE j \in 1..n
    <3>1. /\ outcomes[j].executed # outcomes[j].believed => Due(outcomes, j)
          /\ Due(outcomes, j) => outcomes[j].executed = "transfer"
      BY <1>6, <2>1 DEF SimInv, ProbesAreOnTime, Probed
    <3>2. probeEvery > 0 /\ j > probeEvery => j - probeEvery..j - 1 \subseteq 1..n
      BY <1>1, <1>2, <2>1
    <3>3. Due(outcomes, j) <=> Due(os, j)
      BY <1>5, <2>0, <3>2
    <3>4. os[j] = outcomes[j]
      BY <1>5, <2>0, <2>1
    <3> QED BY <3>1, <3>3, <3>4
  <2>2. CASE j = n + 1
    <3>1. /\ os[j].executed = executed
          /\ os[j].believed = Choice(Truth, belief)
      BY <1>3, <1>5, <2>0, <2>2 DEF new
    <3>2. executed = IF ProbeDue THEN "transfer" ELSE Choice(Truth, belief)
      BY DEF executed
    <3>3. ProbeDue <=> probeEvery > 0 /\ sinceTransfer >= probeEvery
      BY DEF ProbeDue
    <3>4. Due(os, n + 1) <=> ProbeDue
      <4>0. n + 1 - 1 = n
        BY <1>1
      <4>1. CASE probeEvery > 0 /\ sinceTransfer >= probeEvery
        <5>1. /\ n + 1 > probeEvery
              /\ \A i \in n + 1 - probeEvery..n : os[i].executed # "transfer"
          BY <1>1, <1>2, <1>5, <2>0, <1>9, <4>1
        <5>2. Due(os, n + 1)
          BY <1>1, <1>2, <4>0, <4>1, <5>1 DEF Due
        <5> QED BY <3>3, <4>1, <5>2
      <4>2. CASE probeEvery > 0 /\ sinceTransfer < probeEvery
        <5>1. sinceTransfer < n => /\ os[n - sinceTransfer].executed = "transfer"
                                   /\ n - sinceTransfer \in n + 1 - probeEvery..n + 1 - 1
          BY <1>1, <1>2, <1>5, <2>0, <1>9, <4>2
        <5>2. ~(sinceTransfer < n) => ~(n + 1 > probeEvery)
          BY <1>1, <1>2, <1>9, <4>2
        <5>3. ~Due(os, n + 1)
          BY <1>1, <1>2, <5>1, <5>2 DEF Due
        <5>4. ~ProbeDue
          BY <1>2, <3>3, <4>2
        <5> QED BY <5>3, <5>4
      <4>3. CASE ~(probeEvery > 0)
        <5>1. ~Due(os, n + 1)
          BY <4>3
        <5> QED BY <3>3, <4>3, <5>1
      <4> QED BY <1>2, <4>1, <4>2, <4>3
    <3>5. CASE ProbeDue
      <4>1. executed = "transfer"
        BY <3>2, <3>5
      <4> HIDE DEF Due
      <4> QED BY <2>2, <3>1, <3>4, <3>5, <4>1
    <3>6. CASE ~ProbeDue
      <4>1. executed = Choice(Truth, belief)
        BY <3>2, <3>6
      <4> HIDE DEF Due
      <4> QED BY <2>2, <3>1, <3>4, <3>6, <4>1
    <3> QED BY <3>5, <3>6
  <2> QED BY <1>1, <2>1, <2>2
<1> QED BY <1>7, <1>8, <1>10, <1>11 DEF SimInv

-----------------------------------------------------------------------------
LEMMA StepSimInv == SimInv /\ [Next]_vars => SimInv'
<1> SUFFICES ASSUME SimInv, [Next]_vars PROVE SimInv'
  OBVIOUS
<1>1. ASSUME Start \/ Return PROVE SimInv'
  <2>1. /\ UNCHANGED <<truths, probeEvery, belief, sinceTransfer, outcomes, held>>
        /\ pc # "returned" /\ pc' # "start"
    BY <1>1 DEF Start, Return
  <2> QED BY <2>1 DEF SimInv, RunTypeOK, RecordInv, CountInv, ProbesAreOnTime, Probed
<1>2. ASSUME Reject PROVE SimInv'
  <2>1. /\ pc' = "returned" /\ outcomes' = <<>> /\ held' = <<>>
        /\ UNCHANGED <<truths, probeEvery, belief, sinceTransfer>>
    BY <1>2 DEF Reject
  <2>2. truths \in Workloads /\ Len(truths) \in Nat
    BY LengthOfTruths DEF SimInv, RunTypeOK
  <2> QED BY <2>1, <2>2 DEF SimInv, RunTypeOK, RecordInv, CountInv, ProbesAreOnTime
<1>3. ASSUME UNCHANGED vars PROVE SimInv'
  BY <1>3 DEF vars, SimInv, RunTypeOK, RecordInv, CountInv, ProbesAreOnTime, Probed
<1> QED BY <1>1, <1>2, <1>3, RequestSimInv DEF Next

(* Every outcome is the record of its scenario and belief, and the probe    *)
(* count of RunAdaptive counts back to the last transfer.                  *)
THEOREM SimulatorInvariance == Spec => []SimInv
<1> QED BY InitSimInv, StepSimInv, PTL DEF Spec

(* A request is forced to transfer exactly when probeEvery requests before *)
(* it did not, for every probeEvery and any workload.                      *)
THEOREM ProbesComeOnTime == Spec => []ProbesAreOnTime
<1>1. SimInv => ProbesAreOnTime
  BY DEF SimInv
<1> QED BY <1>1, SimulatorInvariance, PTL

(* What is known of an outcome of a run. *)
LEMMA OutcomeFacts ==
    ASSUME SimInv, NEW j \in DOMAIN outcomes
    PROVE  /\ truths \in Workloads /\ j \in DOMAIN truths /\ ValidInputs(truths[j])
           /\ ValidInputs(Believed(truths[j], held[j]))
           /\ held[j] \in Belief /\ outcomes[j].executed \in Actions
           /\ outcomes[j] = Record(truths[j], held[j], outcomes[j].executed)
<1>1. PICK n \in Nat : n = Len(outcomes) /\ n = Len(held)
  BY LenProperties DEF SimInv, RunTypeOK
<1>2. j \in 1..n /\ j \in 1..Len(truths) /\ truths \in Workloads
  BY <1>1, LengthOfTruths DEF SimInv, RunTypeOK
<1>3. held[j] \in Belief /\ outcomes[j] \in OutcomeOfAnyBelief
  BY <1>1, <1>2, ElementOfSeq DEF SimInv, RunTypeOK
<1> QED BY <1>1, <1>2, <1>3, LengthOfTruths DEF SimInv, RecordInv, OutcomeOfAnyBelief

(* A valid scenario, with a belief in it or not, has no negative part.     *)
LEMMA ValidInputsAreNats ==
    ASSUME NEW in \in Inputs, ValidInputs(in) PROVE in \in AllInputs
<1>1. /\ in.queueA >= 0 /\ in.queueB >= 0 /\ in.startup >= 0
      /\ in.prefixTokens >= 0 /\ in.suffixTokens >= 0 /\ in.bytesPerToken >= 0
      /\ in.prefillA >= 0 /\ in.prefillB >= 0 /\ in.secondsPerByte >= 0
  <2>1. \A rate \in {in.prefillA, in.prefillB, in.secondsPerByte} : rate > 0
    BY DEF ValidInputs, IsFinitePositive
  <2>2. /\ in.prefillA \in Int /\ in.prefillB \in Int /\ in.secondsPerByte \in Int
        /\ in.bytesPerToken \in Int
    BY DEF Inputs
  <2>3. in.prefillA > 0 /\ in.prefillB > 0 /\ in.secondsPerByte > 0
    BY <2>1
  <2> QED BY <2>2, <2>3 DEF ValidInputs
<1> QED BY <1>1 DEF Inputs, AllInputs

(* Whatever a run learns, believing the network slower makes the policy    *)
(* transfer only by an overflow of the transfer's own estimate.            *)
THEOREM SlowerBeliefNeverTransfers == Spec => []SlowerNeverTransfers
<1>1. ASSUME SimInv, NEW j \in DOMAIN outcomes
      PROVE  /\ truths[j] \in Inputs /\ held[j] \in Belief
             /\ Believed(truths[j], held[j]) \in AllInputs
             /\ outcomes[j].believed
                   = ChooseLowestTTFT(Estimate(Believed(truths[j], held[j]))).action
  <2>1. /\ truths \in Workloads /\ j \in DOMAIN truths /\ held[j] \in Belief
        /\ ValidInputs(Believed(truths[j], held[j]))
        /\ outcomes[j] = Record(truths[j], held[j], outcomes[j].executed)
    BY <1>1, OutcomeFacts
  <2>2. truths[j] \in Inputs
    BY <2>1, WorkloadsAssumption
  <2>3. Believed(truths[j], held[j]) \in AllInputs
    BY <2>1, <2>2, BeliefMovesTransfers, ValidInputsAreNats
  <2>4. outcomes[j].believed = Choice(truths[j], held[j])
    BY <2>1 DEF Record
  <2> QED BY <2>1, <2>2, <2>3, <2>4 DEF Choice
<1>2. SimInv => SlowerNeverTransfers
  <2> SUFFICES ASSUME SimInv, NEW i \in DOMAIN outcomes, NEW j \in DOMAIN outcomes,
                      Believed(truths[i], held[j]) = Believed(truths[j], held[j]),
                      held[j].secondsPerByte >= held[i].secondsPerByte,
                      held[j].startup >= held[i].startup,
                      outcomes[j].believed = "transfer",
                      ~PastTheEnd(Believed(truths[j], held[j]))
               PROVE  outcomes[i].believed = "transfer"
    BY DEF SlowerNeverTransfers
  <2> DEFINE a == Believed(truths[i], held[i])
             b == Believed(truths[j], held[j])
  <2>1. /\ a \in AllInputs /\ b \in AllInputs
        /\ outcomes[i].believed = ChooseLowestTTFT(Estimate(a)).action
        /\ outcomes[j].believed = ChooseLowestTTFT(Estimate(b)).action
    BY <1>1
  <2>2. truths[i] \in Inputs /\ truths[j] \in Inputs /\ held[i] \in Belief /\ held[j] \in Belief
    BY <1>1
  <2>3. SameRequest(a, Believed(truths[i], held[j]))
    BY <2>2 DEF SameRequest, Believed, Inputs
  <2>4. /\ a.secondsPerByte = held[i].secondsPerByte /\ a.startup = held[i].startup
        /\ b.secondsPerByte = held[j].secondsPerByte /\ b.startup = held[j].startup
    BY <2>2 DEF Believed, Inputs
  <2>5. SameRequest(a, b)
    BY <2>3
  <2>6. b.secondsPerByte >= a.secondsPerByte /\ b.startup >= a.startup
    BY <2>4
  <2> HIDE DEF a
  <2>7. ~PastTheEnd(b)
    OBVIOUS
  <2> HIDE DEF b
  <2> QED BY <2>1, <2>5, <2>6, <2>7, SlowerChoice
<1> QED BY <1>2, SimulatorInvariance, PTL

(* A policy's own choice costs no more than its belief about the transfer  *)
(* is wrong by.                                                            *)
THEOREM RegretIsBounded == Spec => []RegretIsMisprediction
<1>1. SimInv => RegretIsMisprediction
  <2> SUFFICES ASSUME SimInv, NEW j \in DOMAIN outcomes,
                      outcomes[j].executed = outcomes[j].believed
      PROVE  LET predicted == TimeOf(Believed(truths[j], held[j]), "transfer")
                 actual == TimeOf(truths[j], "transfer")
             IN  outcomes[j].regret \in
                     0..(IF predicted < actual THEN actual - predicted ELSE predicted - actual)
    BY DEF RegretIsMisprediction, Probed, TimeOf, ActualTTFT
  <2> DEFINE t == truths[j]
             in == Believed(t, held[j])
             a == outcomes[j].executed
             b == BestActual(t).action
  <2>1. /\ truths \in Workloads /\ j \in DOMAIN truths /\ ValidInputs(t)
        /\ held[j] \in Belief /\ a \in Actions /\ outcomes[j] = Record(t, held[j], a)
    BY OutcomeFacts
  <2>2. /\ t \in Inputs /\ b \in Actions /\ TimeOf(t, a) \in Nat /\ TimeOf(t, b) \in Nat
        /\ TimeOf(t, b) <= TimeOf(t, a) /\ TimeOf(t, "transfer") \in Int
        /\ Regret(t, a) = TimeOf(t, a) - TimeOf(t, b)
    BY <2>1, RegretOfTruth, TimesOfEstimate DEF Actions
  <2>3. /\ in \in Inputs
        /\ \A x \in Actions : x # "transfer" => TimeOf(in, x) = TimeOf(t, x)
    BY <2>1, <2>2, BeliefMovesTransfers
  <2>4. outcomes[j].regret = Regret(t, a) /\ a = Choice(t, held[j])
    BY <2>1 DEF Record
  <2>5. /\ \A x \in Actions : TimeOf(in, x) \in Int /\ TimeOf(in, a) <= TimeOf(in, x)
        /\ "transfer" \in Actions
    BY <2>3, <2>4, TimesOfEstimate DEF Choice, Actions
  <2> HIDE DEF t, in, a, b
  <2>6. TimeOf(in, a) <= TimeOf(in, b) /\ TimeOf(in, a) <= TimeOf(in, "transfer")
        /\ TimeOf(in, a) \in Int /\ TimeOf(in, b) \in Int /\ TimeOf(in, "transfer") \in Int
    BY <2>1, <2>2, <2>5
  <2>7. /\ a # "transfer" => TimeOf(in, a) = TimeOf(t, a)
        /\ b # "transfer" => TimeOf(in, b) = TimeOf(t, b)
    BY <2>1, <2>2, <2>3
  <2>8. Regret(t, a) \in 0..(IF TimeOf(in, "transfer") < TimeOf(t, "transfer")
                             THEN TimeOf(t, "transfer") - TimeOf(in, "transfer")
                             ELSE TimeOf(in, "transfer") - TimeOf(t, "transfer"))
    <3>1. CASE a = "transfer" /\ b = "transfer"
      BY <2>2, <2>6, <3>1
    <3>2. CASE a = "transfer" /\ b # "transfer"
      BY <2>2, <2>6, <2>7, <3>2
    <3>3. CASE a # "transfer" /\ b = "transfer"
      BY <2>2, <2>6, <2>7, <3>3
    <3>4. CASE a # "transfer" /\ b # "transfer"
      BY <2>2, <2>6, <2>7, <3>4
    <3> QED BY <3>1, <3>2, <3>3, <3>4
  <2> QED BY <2>4, <2>8 DEF t, in
<1> QED BY <1>1, SimulatorInvariance, PTL

-----------------------------------------------------------------------------
(* What a policy that believes its last measurement has learned: after a   *)
(* transfer that says something, the next belief is what was observed of   *)
(* it.                                                                     *)
NextBelief(k) == IF k < Len(outcomes) THEN held[k + 1] ELSE belief

LearnedInv ==
    learner = "last" => \A k \in 1..Len(outcomes) :
        outcomes[k].executed = "transfer" /\ Bytes(truths[k]) > 0 =>
            \E seconds \in NoisyObserve(TransferDuration(truths[k])) :
                NextBelief(k) = LastSample(Bytes(truths[k]), seconds)

(* A run that returns outcomes has one for each scenario.                  *)
EndInv == pc = "returned" /\ outcomes # <<>> => Len(outcomes) = Len(truths)

AdaptInv == SimInv /\ LearnedInv /\ EndInv

LEMMA RequestLearns ==
    ASSUME SimInv, LearnedInv, EndInv, Request PROVE LearnedInv' /\ EndInv'
<1> DEFINE n == Len(outcomes)
           executed == IF ProbeDue THEN "transfer" ELSE Choice(Truth, belief)
<1>1. /\ pc = "loop" /\ n \in Nat /\ n < Len(truths) /\ ValidInputs(Truth)
      /\ outcomes' = Append(outcomes, Record(Truth, belief, executed))
      /\ held' = Append(held, belief)
      /\ UNCHANGED <<truths, learner, probeEvery, pc>>
  BY LenProperties DEF Request, SimInv, RunTypeOK
<1>2. Truth = truths[n + 1]
  BY DEF Truth
<1>3. Learns(Truth, executed) =>
        \E seconds \in NoisyObserve(TransferDuration(Truth)) :
            belief' = LastSample(Bytes(Truth), seconds)
  BY DEF Request
<1> DEFINE new == Record(Truth, belief, executed)
<1>4. /\ Len(outcomes') = n + 1
      /\ outcomes'[n + 1] = new /\ \A j \in 1..n : outcomes'[j] = outcomes[j]
      /\ Len(held) = n /\ held'[n + 1] = belief /\ \A j \in 1..n : held'[j] = held[j]
  BY <1>1, AppendProperties, LenProperties DEF SimInv, RunTypeOK
<1>5. new.executed = executed
  BY DEF Record
<1> HIDE DEF n, executed, new
<1>6. ASSUME learner' = "last", NEW k \in 1..n + 1,
             outcomes'[k].executed = "transfer", Bytes(truths[k]) > 0
      PROVE  \E seconds \in NoisyObserve(TransferDuration(truths[k])) :
                 NextBelief(k)' = LastSample(Bytes(truths[k]), seconds)
  <2>1. CASE k = n + 1
    <3>1. Learns(Truth, executed)
      BY <1>1, <1>2, <1>4, <1>5, <1>6, <2>1 DEF Learns
    <3>2. NextBelief(k)' = belief'
      BY <1>1, <1>4, <2>1 DEF NextBelief
    <3> QED BY <1>2, <1>3, <2>1, <3>1, <3>2
  <2>2. CASE k # n + 1
    <3>1. k \in 1..n /\ outcomes[k].executed = "transfer"
      BY <1>1, <1>4, <1>6, <2>2
    <3>2. PICK seconds \in NoisyObserve(TransferDuration(truths[k])) :
              NextBelief(k) = LastSample(Bytes(truths[k]), seconds)
      BY <1>1, <1>6, <3>1 DEF LearnedInv, n
    <3>3. NextBelief(k)' = IF k = n THEN belief ELSE held[k + 1]
      <4>1. NextBelief(k)' = held'[k + 1]
        BY <1>1, <1>4, <3>1 DEF NextBelief
      <4> QED BY <1>1, <1>4, <3>1, <4>1
    <3>4. NextBelief(k) = IF k = n THEN belief ELSE held[k + 1]
      BY <1>1, <3>1 DEF NextBelief, n
    <3> QED BY <3>2, <3>3, <3>4
  <2> QED BY <2>1, <2>2
<1>7. LearnedInv'
  <2>1. UNCHANGED <<truths, learner>> /\ Len(outcomes') = n + 1
    BY <1>1, <1>4
  <2> QED BY <1>6, <2>1 DEF LearnedInv, NoisyObserve, TransferDuration, Bytes
<1>8. EndInv'
  BY <1>1 DEF EndInv
<1> QED BY <1>7, <1>8

LEMMA AdaptInvariance == Spec => []AdaptInv
<1>1. Init => AdaptInv
  <2> SUFFICES ASSUME Init PROVE AdaptInv
    OBVIOUS
  <2>1. outcomes = <<>> /\ Len(outcomes) = 0 /\ pc = "start"
    BY DEF Init
  <2> QED BY <2>1, InitSimInv DEF AdaptInv, LearnedInv, EndInv
<1>2. AdaptInv /\ [Next]_vars => AdaptInv'
  <2> SUFFICES ASSUME AdaptInv, [Next]_vars PROVE AdaptInv'
    OBVIOUS
  <2>1. SimInv'
    BY StepSimInv DEF AdaptInv
  <2>2. CASE Request
    BY <2>1, <2>2, RequestLearns DEF AdaptInv
  <2>3. CASE Start \/ Return \/ UNCHANGED vars
    <3>1. UNCHANGED <<truths, learner, belief, outcomes, held>>
      BY <2>3 DEF Start, Return, vars
    <3>2. LearnedInv'
      BY <3>1 DEF AdaptInv, LearnedInv, NextBelief, NoisyObserve, TransferDuration, Bytes
    <3>3. EndInv'
      BY <2>3, <3>1 DEF AdaptInv, SimInv, RunTypeOK, EndInv, Start, Return, vars
    <3> QED BY <2>1, <3>2, <3>3 DEF AdaptInv
  <2>4. CASE Reject
    <3>1. outcomes' = <<>> /\ Len(outcomes') = 0
      BY <2>4 DEF Reject
    <3> QED BY <2>1, <3>1 DEF AdaptInv, LearnedInv, EndInv
  <2> QED BY <2>2, <2>3, <2>4 DEF Next
<1> QED BY <1>1, <1>2, PTL DEF Spec

-----------------------------------------------------------------------------
(* AdaptationTimes. *)
Best(ts) == [i \in DOMAIN ts |-> BestActual(ts[i]).action]

Hits(best, os, i) == {j \in Window(best, i) : os[j].believed = best[i]}

Adapting(best, os, i) ==
    LET hits == Hits(best, os, i)
        first == CHOOSE j \in hits : \A l \in hits : j <= l
    IN  [at |-> i, from |-> best[i - 1], to |-> best[i],
         requests |-> IF hits = {} THEN 0 ELSE first - i, adapted |-> hits # {}]

(* The loop of AdaptationTimes over the first n requests, given its turns. *)
Scan(best, os, n, f) ==
    [i \in 0..n |->
        IF i = 0 THEN <<>>
        ELSE IF i = 1 \/ best[i] = best[i - 1] THEN f[i - 1]
        ELSE Append(f[i - 1], Adapting(best, os, i))]

LEMMA ScanExists ==
    ASSUME NEW best, NEW os PROVE \A n \in Nat : \E f : f = Scan(best, os, n, f)
<1> DEFINE S == {n \in Nat : \E f : f = Scan(best, os, n, f)}
           Turn(i, s) == IF i = 1 \/ best[i] = best[i - 1] THEN s
                         ELSE Append(s, Adapting(best, os, i))
<1> HIDE DEF Turn
<1>0. ASSUME NEW n \in Nat, NEW f
      PROVE  Scan(best, os, n, f) = [i \in 0..n |-> IF i = 0 THEN <<>> ELSE Turn(i, f[i - 1])]
  BY Zenon DEF Scan, Turn
<1>1. 0 \in S
  <2> DEFINE f == [i \in 0..0 |-> <<>>]
  <2>1. f = [i \in 0..0 |-> IF i = 0 THEN <<>> ELSE Turn(i, f[i - 1])]
    OBVIOUS
  <2> QED BY <1>0, <2>1
<1>2. ASSUME NEW n \in Nat, n \in S PROVE n + 1 \in S
  <2>1. PICK f : f = [i \in 0..n |-> IF i = 0 THEN <<>> ELSE Turn(i, f[i - 1])]
    BY <1>0, <1>2
  <2> DEFINE g == [i \in 0..n + 1 |-> IF i <= n THEN f[i] ELSE Turn(i, f[i - 1])]
  <2>2. \A i \in 0..n : f[i] = IF i = 0 THEN <<>> ELSE Turn(i, f[i - 1])
    BY <2>1
  <2>3. g = [i \in 0..n + 1 |-> IF i = 0 THEN <<>> ELSE Turn(i, g[i - 1])]
    BY <2>2
  <2>4. g = Scan(best, os, n + 1, g)
    BY <1>0, <2>3, n + 1 \in Nat, Zenon
  <2> QED BY <2>4
<1> HIDE DEF S
<1>3. \A n \in Nat : n \in S
  BY <1>1, <1>2, SimpleInduction
<1> QED BY <1>3 DEF S

LEMMA ScanIs ==
    ASSUME NEW ts, Len(ts) \in Nat, NEW os
    PROVE  \E f : f = Scan(Best(ts), os, Len(ts), f) /\ AdaptationTimes(ts, os) = f[Len(ts)]
<1> DEFINE f == CHOOSE g : g = Scan(Best(ts), os, Len(ts), g)
<1>1. f = Scan(Best(ts), os, Len(ts), f)
  BY ScanExists, Zenon
<1>2. AdaptationTimes(ts, os) = f[Len(ts)]
  BY Zenon DEF AdaptationTimes, Best, Scan, Adapting, Hits
<1> QED BY <1>1, <1>2

-----------------------------------------------------------------------------
(* A list of the changes of best up to request n, the earlier ones first:  *)
(* nothing changes between two of them or after the last one.              *)
Changed(best, i) == best[i] # best[i - 1]

IsChange(best, os, a, end, n) ==
    /\ a.at \in 2..n /\ Changed(best, a.at) /\ a = Adapting(best, os, a.at)
    /\ a.at <= end /\ \A i \in a.at + 1..end : ~Changed(best, i)

EndOf(found, c, n) == IF c < Len(found) THEN found[c + 1].at - 1 ELSE n

ListsChanges(found, best, os, n) ==
    /\ Len(found) \in Nat /\ DOMAIN found = 1..Len(found)
    /\ \A c \in 1..Len(found) : IsChange(best, os, found[c], EndOf(found, c, n), n)

LEMMA UnchangedKeepsList ==
    ASSUME NEW best, NEW os, NEW m \in Nat, NEW n \in Nat, n = m + 1,
           NEW found, ListsChanges(found, best, os, m), n = 1 \/ ~Changed(best, n)
    PROVE  ListsChanges(found, best, os, n)
<1>1. PICK k \in Nat : k = Len(found) /\ DOMAIN found = 1..k
  BY DEF ListsChanges
<1> SUFFICES ASSUME NEW c \in 1..k
             PROVE  IsChange(best, os, found[c], EndOf(found, c, n), n)
  BY <1>1, Zenon DEF ListsChanges
<1>2. IsChange(best, os, found[c], EndOf(found, c, m), m)
  BY <1>1, Zenon DEF ListsChanges
<1>3. PICK a : a = found[c]
  OBVIOUS
<1>4. CASE c < k
  <2>1. EndOf(found, c, n) = EndOf(found, c, m)
    BY <1>1, <1>4, Zenon DEF EndOf
  <2>2. PICK end : end = EndOf(found, c, m)
    OBVIOUS
  <2>3. IsChange(best, os, a, end, n)
    BY <1>2, <1>3, <2>2 DEF IsChange
  <2> QED BY <1>3, <2>1, <2>2, <2>3
<1>5. CASE ~(c < k)
  <2>1. EndOf(found, c, n) = n /\ EndOf(found, c, m) = m
    BY <1>1, <1>5, Zenon DEF EndOf
  <2>2. IsChange(best, os, a, m, m)
    BY <1>2, <1>3, <2>1
  <2>3. IsChange(best, os, a, n, n)
    BY <2>2 DEF IsChange
  <2> QED BY <1>3, <2>1, <2>3
<1> QED BY <1>4, <1>5

LEMMA ChangeIsAppended ==
    ASSUME NEW best, NEW os, NEW m \in Nat, NEW n \in Nat, n = m + 1, n # 1,
           NEW V, NEW found \in Seq(V), ListsChanges(found, best, os, m),
           NEW a \in V, a = Adapting(best, os, n), Changed(best, n)
    PROVE  ListsChanges(Append(found, a), best, os, n)
<1>1. PICK k \in Nat : k = Len(found) /\ DOMAIN found = 1..k
  BY DEF ListsChanges
<1>2. PICK bs : bs = Append(found, a)
  OBVIOUS
<1>3. /\ Len(bs) = k + 1 /\ DOMAIN bs = 1..k + 1
      /\ bs[k + 1] = a /\ \A c \in 1..k : bs[c] = found[c]
  <2>1. /\ bs \in Seq(V) /\ Len(bs) = k + 1
        /\ bs[k + 1] = a /\ \A c \in 1..k : bs[c] = found[c]
    BY <1>1, <1>2, AppendProperties
  <2>2. DOMAIN bs = 1..k + 1
    BY <2>1, LenProperties
  <2> QED BY <2>1, <2>2
<1>4. a.at = n
  <2>1. Adapting(best, os, n).at = n
    BY DEF Adapting
  <2> QED BY <2>1
<1> SUFFICES ASSUME NEW c \in 1..k + 1
             PROVE  IsChange(best, os, bs[c], EndOf(bs, c, n), n)
  <2>1. Len(bs) \in Nat /\ DOMAIN bs = 1..Len(bs)
    BY <1>3
  <2> QED BY <1>2, <1>3, <2>1, Zenon DEF ListsChanges
<1>5. CASE c \in 1..k
  <2>1. IsChange(best, os, found[c], EndOf(found, c, m), m)
    BY <1>1, <1>5, Zenon DEF ListsChanges
  <2>2. bs[c] = found[c]
    BY <1>3, <1>5
  <2>3. EndOf(bs, c, n) = EndOf(found, c, m)
    <3>1. CASE c < k
      <4>1. c < k + 1 /\ bs[c + 1] = found[c + 1]
        BY <1>3, <3>1
      <4> QED BY <1>1, <1>3, <3>1, <4>1, Zenon DEF EndOf
    <3>2. CASE ~(c < k)
      <4>1. c < k + 1 /\ bs[c + 1] = a /\ n - 1 = m
        BY <1>3, <1>5, <3>2
      <4> QED BY <1>1, <1>3, <1>4, <3>2, <4>1, Zenon DEF EndOf
    <3> QED BY <3>1, <3>2
  <2>4. PICK b, end : b = found[c] /\ end = EndOf(found, c, m)
    OBVIOUS
  <2>5. IsChange(best, os, b, end, n)
    BY <2>1, <2>4 DEF IsChange
  <2> QED BY <2>2, <2>3, <2>4, <2>5
<1>6. CASE ~(c \in 1..k)
  <2>1. c = k + 1 /\ bs[c] = a /\ ~(c < k + 1)
    BY <1>3, <1>6
  <2>2. EndOf(bs, c, n) = n
    BY <1>3, <2>1, Zenon DEF EndOf
  <2>3. IsChange(best, os, a, n, n)
    BY <1>4 DEF IsChange
  <2> QED BY <2>1, <2>2, <2>3
<1> QED BY <1>5, <1>6

LEMMA ChangesAreListed ==
    ASSUME NEW ts, Len(ts) \in Nat, NEW os
    PROVE  ListsChanges(AdaptationTimes(ts, os), Best(ts), os, Len(ts))
<1>0. PICK best : best = Best(ts)
  OBVIOUS
<1>1. PICK f : f = Scan(best, os, Len(ts), f) /\ AdaptationTimes(ts, os) = f[Len(ts)]
  BY <1>0, ScanIs
<1>2. PICK V : V = {Adapting(best, os, i) : i \in 1..Len(ts)}
  OBVIOUS
<1> DEFINE S == {n \in Nat : n <= Len(ts) => f[n] \in Seq(V) /\ ListsChanges(f[n], best, os, n)}
<1>3. 0 \in S
  <2>1. f[0] = <<>> /\ <<>> \in Seq(V) /\ Len(<<>>) = 0 /\ DOMAIN <<>> = 1..0
    BY <1>1 DEF Scan
  <2>2. ListsChanges(<<>>, best, os, 0)
    BY DEF ListsChanges
  <2> QED BY <2>1, <2>2
<1>4. ASSUME NEW m \in Nat, m \in S PROVE m + 1 \in S
  <2>1. PICK n \in Nat : n = m + 1
    OBVIOUS
  <2> SUFFICES ASSUME n <= Len(ts) PROVE f[n] \in Seq(V) /\ ListsChanges(f[n], best, os, n)
    BY <2>1
  <2>2. f[m] \in Seq(V) /\ ListsChanges(f[m], best, os, m)
    BY <1>4, <2>1
  <2>3. PICK a \in V : a = Adapting(best, os, n)
    BY <1>2, <2>1
  <2>4. f[n] = IF n = 1 \/ ~Changed(best, n) THEN f[m] ELSE Append(f[m], a)
    <3>1. n \in 0..Len(ts) /\ n # 0 /\ n - 1 = m
      BY <2>1
    <3>2. f[n] = IF n = 1 \/ best[n] = best[n - 1] THEN f[n - 1]
                 ELSE Append(f[n - 1], Adapting(best, os, n))
      BY <1>1, <3>1 DEF Scan
    <3> QED BY <2>3, <3>1, <3>2 DEF Changed
  <2>5. CASE n = 1 \/ ~Changed(best, n)
    BY <2>1, <2>2, <2>4, <2>5, UnchangedKeepsList
  <2>6. CASE n # 1 /\ Changed(best, n)
    <3>1. Append(f[m], a) \in Seq(V)
      BY <2>2, AppendProperties
    <3> QED BY <2>1, <2>2, <2>3, <2>4, <2>6, <3>1, ChangeIsAppended
  <2> QED BY <2>5, <2>6
<1> HIDE DEF S
<1>5. \A n \in Nat : n \in S
  BY <1>3, <1>4, SimpleInduction
<1>6. ListsChanges(f[Len(ts)], best, os, Len(ts))
  BY <1>5 DEF S
<1> QED BY <1>0, <1>1, <1>6

(* A change is timed over the requests that have its best action.          *)
LEMMA WindowIs ==
    ASSUME NEW ts, Len(ts) \in Nat, DOMAIN ts = 1..Len(ts), NEW os, NEW found,
           ListsChanges(found, Best(ts), os, Len(ts)), NEW c \in 1..Len(found)
    PROVE  LET best == Best(ts)
               i == found[c].at
               end == EndOf(found, c, Len(ts))
           IN  /\ i \in 2..Len(ts) /\ end \in i..Len(ts)
               /\ found[c] = Adapting(best, os, i)
               /\ Window(best, i) = i..end /\ \A j \in i..end : best[j] = best[i]
<1>1. PICK best, n, i, end :
          best = Best(ts) /\ n = Len(ts) /\ i = found[c].at /\ end = EndOf(found, c, n)
  OBVIOUS
<1>0. n \in Nat
  BY <1>1
<1>2. /\ i \in 2..n /\ i <= end /\ found[c] = Adapting(best, os, i)
      /\ \A j \in i + 1..end : best[j] = best[j - 1]
  <2>1. PICK a : a = found[c]
    OBVIOUS
  <2>2. IsChange(best, os, a, end, n)
    BY <1>1, <2>1, Zenon DEF ListsChanges
  <2>3. a.at = i
    BY <1>1, <2>1
  <2> QED BY <2>1, <2>2, <2>3, Zenon DEF IsChange, Changed
<1>3. end = n \/ (end + 1 \in 2..n /\ end \in Int /\ best[end + 1] # best[end])
  <2>1. CASE c < Len(found)
    <3>1. PICK b : b = found[c + 1]
      OBVIOUS
    <3>2. c + 1 \in 1..Len(found)
      BY <2>1 DEF ListsChanges
    <3>3. IsChange(best, os, b, EndOf(found, c + 1, n), n)
      BY <1>1, <3>1, <3>2, Zenon DEF ListsChanges
    <3>4. b.at \in 2..n /\ Changed(best, b.at)
      BY <3>3, Zenon DEF IsChange
    <3>5. end = b.at - 1
      BY <1>1, <2>1, <3>1, Zenon DEF EndOf
    <3>6. end \in Int /\ b.at = end + 1
      BY <3>4, <3>5
    <3>7. best[end + 1] # best[end + 1 - 1] /\ end + 1 - 1 = end
      BY <3>4, <3>6 DEF Changed
    <3> QED BY <3>4, <3>6, <3>7
  <2>2. CASE ~(c < Len(found))
    BY <1>1, <2>2, Zenon DEF EndOf
  <2> QED BY <2>1, <2>2
<1>4. end \in i..n /\ DOMAIN best = 1..n
  BY <1>0, <1>1, <1>2, <1>3 DEF Best
<1>5. \A j \in i..end : best[j] = best[i]
  <2> DEFINE S == {k \in Nat : i + k <= end => best[i + k] = best[i]}
  <2>1. 0 \in S
    BY <1>2
  <2>2. ASSUME NEW k \in Nat, k \in S PROVE k + 1 \in S
    <3> SUFFICES ASSUME i + (k + 1) <= end PROVE best[i + (k + 1)] = best[i]
      OBVIOUS
    <3>1. best[i + k] = best[i] /\ i + (k + 1) \in i + 1..end /\ (i + (k + 1)) - 1 = i + k
      BY <1>2, <1>4, <2>2
    <3> QED BY <1>2, <3>1
  <2> HIDE DEF S
  <2>3. \A k \in Nat : k \in S
    BY <2>1, <2>2, SimpleInduction
  <2>4. ASSUME NEW j \in i..end PROVE best[j] = best[i]
    <3>1. j - i \in Nat /\ i + (j - i) = j
      BY <1>2, <1>4
    <3> QED BY <2>3, <3>1 DEF S
  <2> QED BY <2>4
<1>6. ASSUME NEW j \in Window(best, i) PROVE j \in i..end
  <2>1. j \in 1..n /\ j >= i /\ \A l \in i..j : best[l] = best[i]
    BY <1>4 DEF Window
  <2>2. CASE j > end
    <3>1. end \in i..j /\ end + 1 \in i..j
      BY <1>2, <1>4, <2>1, <2>2
    <3>2. best[end + 1] = best[end]
      BY <2>1, <3>1
    <3>3. end # n
      BY <1>2, <1>4, <2>1, <2>2
    <3> QED BY <1>3, <3>2, <3>3
  <2> QED BY <1>2, <1>4, <2>1, <2>2
<1>7. ASSUME NEW j \in i..end PROVE j \in Window(best, i)
  <2>1. j \in 1..n /\ j >= i /\ \A l \in i..j : l \in i..end
    BY <1>0, <1>2, <1>4
  <2> QED BY <1>4, <1>5, <2>1 DEF Window
<1>8. Window(best, i) = i..end
  BY <1>6, <1>7
<1> QED BY <1>1, <1>2, <1>4, <1>5, <1>8, Zenon

(* Some request of every probeEvery + 1 of a run is executed as a transfer. *)
LEMMA ProbedSoon ==
    ASSUME SimInv, probeEvery > 0, NEW i \in Nat \ {0}, i + probeEvery <= Len(outcomes)
    PROVE  \E k \in i..i + probeEvery : outcomes[k].executed = "transfer"
<1> SUFFICES ASSUME \A k \in i..i + probeEvery : outcomes[k].executed # "transfer"
             PROVE  FALSE
  OBVIOUS
<1>1. probeEvery \in Int /\ DOMAIN outcomes = 1..Len(outcomes) /\ Len(outcomes) \in Nat
  BY LenProperties DEF SimInv, RunTypeOK
<1>2. PICK j \in DOMAIN outcomes : j = i + probeEvery
  BY <1>1
<1>3. j > probeEvery /\ \A k \in j - probeEvery..j - 1 : outcomes[k].executed # "transfer"
  BY <1>1, <1>2
<1>4. outcomes[j].executed = "transfer"
  BY <1>3 DEF SimInv, ProbesAreOnTime
<1> QED BY <1>1, <1>2, <1>4

(* What is believed after a transfer that tells fast from slow.            *)
LEMMA TransferTells ==
    ASSUME AdaptInv, learner = "last", NEW k \in 1..Len(outcomes), k < Len(outcomes),
           outcomes[k].executed = "transfer", Tells(truths[k], truths[k + 1])
    PROVE  outcomes[k + 1].believed = BestActual(truths[k + 1]).action
<1>1. Bytes(truths[k]) > 0
  BY DEF Tells
<1>2. PICK seconds \in NoisyObserve(TransferDuration(truths[k])) :
          NextBelief(k) = LastSample(Bytes(truths[k]), seconds)
  BY <1>1 DEF AdaptInv, LearnedInv
<1>3. held[k + 1] = LastSample(Bytes(truths[k]), seconds)
  BY <1>2, Zenon DEF NextBelief
<1>4. Choice(truths[k + 1], held[k + 1]) = BestActual(truths[k + 1]).action
  BY <1>3, Zenon DEF Tells
<1>5. Len(outcomes) \in Nat
  BY LenProperties DEF AdaptInv, SimInv, RunTypeOK
<1>6. k + 1 \in 1..Len(outcomes)
  BY <1>5
<1>7. outcomes[k + 1] = Record(truths[k + 1], held[k + 1], outcomes[k + 1].executed)
  BY <1>6, Zenon DEF AdaptInv, SimInv, RecordInv
<1>8. outcomes[k + 1].believed = Choice(truths[k + 1], held[k + 1])
  <2>1. \A t, b, x : Record(t, b, x).believed = Choice(t, b)
    BY DEF Record
  <2> QED BY <1>7, <2>1
<1> QED BY <1>4, <1>8

LEMMA AdaptsToOne ==
    ASSUME AdaptInv, learner = "last", probeEvery > 0, Len(outcomes) = Len(truths),
           NEW best, best = Best(truths), NEW i \in 2..Len(truths), NEW end \in i..Len(truths),
           Window(best, i) = i..end, \A j \in i..end : best[j] = best[i],
           NEW a, a = Adapting(best, outcomes, i)
    PROVE  /\ i + a.requests <= end
           /\ /\ end - i > probeEvery
              /\ \A t, u \in i..end : Tells(truths[t], truths[u])
              => a.adapted /\ a.requests <= probeEvery + 1
<1>0. /\ Len(truths) \in Nat /\ DOMAIN truths = 1..Len(truths)
      /\ probeEvery \in Int /\ i \in Nat /\ end \in Nat
  BY LengthOfTruths DEF AdaptInv, SimInv, RunTypeOK
<1>1. PICK H : H = Hits(best, outcomes, i)
  OBVIOUS
<1>2. H = {j \in i..end : outcomes[j].believed = best[i]}
  BY <1>1 DEF Hits
<1>3. a.adapted = (H # {}) /\ (H = {} => a.requests = 0)
  <2>1. Adapting(best, outcomes, i).adapted = (H # {})
    BY <1>1 DEF Adapting
  <2>2. H = {} => Adapting(best, outcomes, i).requests = 0
    BY <1>1 DEF Adapting
  <2> QED BY <2>1, <2>2
<1>4. ASSUME NEW h \in H
      PROVE  a.requests \in 0..h - i
  <2>1. H \subseteq Nat
    BY <1>0, <1>2
  <2>2. PICK f \in H : \A l \in H : f <= l
    BY <1>4, <2>1, LeastExists
  <2>3. \A j \in H : (\A l \in H : j <= l) => j = f
    BY <2>1, <2>2
  <2>4. (CHOOSE j \in H : \A l \in H : j <= l) = f
    BY <2>2, <2>3, Zenon
  <2>5. Adapting(best, outcomes, i).requests = f - i
    BY <1>1, <1>4, <2>4 DEF Adapting
  <2> QED BY <1>0, <1>2, <2>1, <2>2, <2>5
<1>5. i + a.requests <= end
  <2>1. CASE H = {}
    BY <1>0, <1>3, <2>1
  <2>2. CASE H # {}
    <3>1. PICK h \in H : h \in i..end
      BY <1>2, <2>2
    <3> QED BY <1>0, <1>4, <3>1
  <2> QED BY <2>1, <2>2
<1>6. ASSUME end - i > probeEvery, \A t, u \in i..end : Tells(truths[t], truths[u])
      PROVE  a.adapted /\ a.requests <= probeEvery + 1
  <2>0. /\ SimInv /\ i \in Nat \ {0} /\ i + probeEvery <= Len(outcomes)
    BY <1>0, <1>6 DEF AdaptInv
  <2>1. PICK k \in i..i + probeEvery : outcomes[k].executed = "transfer"
    BY <2>0, ProbedSoon
  <2>2. k \in i..end /\ k + 1 \in i..end /\ k \in 1..Len(outcomes) /\ k < Len(outcomes)
        /\ k + 1 \in DOMAIN truths
    BY <1>0, <1>6, <2>1
  <2>3. outcomes[k + 1].believed = BestActual(truths[k + 1]).action
    BY <1>6, <2>1, <2>2, TransferTells
  <2>4. best[k + 1] = BestActual(truths[k + 1]).action /\ best[k + 1] = best[i]
    BY <2>2 DEF Best
  <2>5. k + 1 \in H
    BY <1>2, <2>2, <2>3, <2>4
  <2>6. a.requests \in 0..(k + 1) - i
    BY <1>4, <2>5
  <2>7. (k + 1) - i <= probeEvery + 1 /\ (k + 1) - i \in Int
    BY <1>0, <2>1
  <2>8. a.requests <= probeEvery + 1
    BY <1>0, <2>6, <2>7
  <2> QED BY <1>3, <2>5, <2>8
<1> QED BY <1>5, <1>6

(* With probing on, LastSample notices every change of the best action     *)
(* that lasts more than probeEvery requests at most probeEvery + 1 of them *)
(* after it, when what is measured meanwhile tells fast from slow; and no  *)
(* change is timed past the next one.                                      *)
THEOREM ChangesAreNoticed == Spec => []AdaptsInTime
<1>1. AdaptInv => AdaptsInTime
  <2> SUFFICES ASSUME AdaptInv, pc = "returned", outcomes # <<>>, learner = "last", probeEvery > 0
               PROVE  LET found == AdaptationTimes(truths, outcomes)
                          end(c) == EndOf(found, c, Len(truths))
                      IN  \A c \in DOMAIN found :
                             /\ found[c].at + found[c].requests <= end(c)
                             /\ /\ end(c) - found[c].at > probeEvery
                                /\ \A t, u \in found[c].at..end(c) : Tells(truths[t], truths[u])
                                => found[c].adapted /\ found[c].requests <= probeEvery + 1
    BY Zenon DEF AdaptsInTime, EndOf
  <2>1. Len(outcomes) = Len(truths)
    BY DEF AdaptInv, EndInv
  <2>2. Len(truths) \in Nat /\ DOMAIN truths = 1..Len(truths)
    BY LengthOfTruths DEF AdaptInv, SimInv, RunTypeOK
  <2>3. PICK found : found = AdaptationTimes(truths, outcomes)
    OBVIOUS
  <2>4. ListsChanges(found, Best(truths), outcomes, Len(truths)) /\ DOMAIN found = 1..Len(found)
    BY <2>2, <2>3, ChangesAreListed DEF ListsChanges
  <2>5. ASSUME NEW c \in 1..Len(found), NEW end, end = EndOf(found, c, Len(truths))
        PROVE  /\ found[c].at + found[c].requests <= end
               /\ /\ end - found[c].at > probeEvery
                  /\ \A t, u \in found[c].at..end : Tells(truths[t], truths[u])
                  => found[c].adapted /\ found[c].requests <= probeEvery + 1
    <3>1. PICK best, i, a : best = Best(truths) /\ i = found[c].at /\ a = found[c]
      OBVIOUS
    <3>2. /\ i \in 2..Len(truths) /\ end \in i..Len(truths)
          /\ a = Adapting(best, outcomes, i)
          /\ Window(best, i) = i..end /\ \A j \in i..end : best[j] = best[i]
      BY <2>2, <2>4, <2>5, <3>1, WindowIs
    <3>3. /\ i + a.requests <= end
          /\ /\ end - i > probeEvery
             /\ \A t, u \in i..end : Tells(truths[t], truths[u])
             => a.adapted /\ a.requests <= probeEvery + 1
      <4>1. \A j \in i..end : best[j] = best[i]
        BY <3>2
      <4>2. /\ i \in 2..Len(truths) /\ end \in i..Len(truths) /\ best = Best(truths)
            /\ a = Adapting(best, outcomes, i) /\ Window(best, i) = i..end
        BY <3>1, <3>2
      <4> QED BY <2>1, <4>1, <4>2, AdaptsToOne, SMTT(30)
    <3> QED BY <3>1, <3>3
  <2> QED BY <2>3, <2>4, <2>5, Zenon
<1> QED BY <1>1, AdaptInvariance, PTL

-----------------------------------------------------------------------------
(* Every belief of a run is the first one or was learned from a transfer.  *)
FitInv ==
    /\ learner \in Learners /\ probeEvery \in Probes \cup {0}
    /\ pc \in {"start", "loop", "returned"}
    /\ Fits(belief) /\ \A j \in 1..Len(held) : Fits(held[j])

LEMMA RequestFits ==
    ASSUME BeliefsFit, SimInv, FitInv, Request PROVE FitInv'
<1> DEFINE n == Len(held)
           executed == IF ProbeDue THEN "transfer" ELSE Choice(Truth, belief)
<1>1. /\ pc = "loop" /\ Len(outcomes) = n /\ n \in Nat /\ n < Len(truths) /\ ValidInputs(Truth)
      /\ held' = Append(held, belief)
      /\ UNCHANGED <<truths, learner, probeEvery, pc>>
  BY LenProperties DEF Request, SimInv, RunTypeOK
<1>2. Truth \in TrueScenarios
  <2>1. truths \in Workloads /\ n + 1 \in DOMAIN truths /\ Truth = truths[n + 1]
    BY <1>1, LengthOfTruths DEF SimInv, RunTypeOK, Truth
  <2> QED BY <2>1 DEF TrueScenarios
<1>3. Fits(belief')
  <2>1. CASE Learns(Truth, executed)
    <3>1. PICK seconds \in NoisyObserve(TransferDuration(Truth)) :
            belief' = LastSample(Bytes(Truth), seconds)
      BY <2>1 DEF Request
    <3>2. Bytes(Truth) > 0
      BY <2>1 DEF Learns
    <3> QED BY <1>1, <1>2, <3>1, <3>2 DEF BeliefsFit
  <2>2. CASE ~Learns(Truth, executed)
    <3>1. belief' = belief
      BY <2>2 DEF Request
    <3> QED BY <3>1, Zenon DEF FitInv
  <2> QED BY <2>1, <2>2
<1>4. /\ Len(held') = n + 1 /\ held'[n + 1] = belief
      /\ \A j \in 1..n : held'[j] = held[j]
  BY <1>1, AppendProperties, LenProperties DEF SimInv, RunTypeOK
<1> HIDE DEF n
<1>5. ASSUME NEW j \in 1..n + 1 PROVE Fits(held'[j])
  <2>1. CASE j = n + 1
    BY <1>4, <2>1 DEF FitInv
  <2>2. CASE j # n + 1
    <3>1. j \in 1..n
      BY <1>1, <2>2
    <3>2. Fits(held[j])
      BY <3>1 DEF FitInv, n
    <3> QED BY <1>4, <3>1, <3>2
  <2> QED BY <2>1, <2>2
<1>6. \A j \in 1..Len(held') : Fits(held'[j])
  BY <1>4, <1>5
<1> QED BY <1>1, <1>3, <1>6 DEF FitInv

LEMMA BeliefsOfRunsFit == ASSUME BeliefsFit PROVE Spec => []FitInv
<1>1. Init => FitInv
  <2> SUFFICES ASSUME Init PROVE FitInv
    OBVIOUS
  <2>1. /\ belief = Initial /\ Len(held) = 0 /\ learner \in Learners
        /\ pc = "start" /\ probeEvery \in Probes \cup {0}
    BY DEF Init
  <2>2. Fits(belief) /\ \A j \in 1..Len(held) : Fits(held[j])
    BY <2>1 DEF BeliefsFit
  <2> QED BY <2>1, <2>2 DEF FitInv
<1>2. SimInv /\ FitInv /\ [Next]_vars => FitInv'
  <2> SUFFICES ASSUME SimInv, FitInv, [Next]_vars PROVE FitInv'
    OBVIOUS
  <2>1. CASE Request
    BY <2>1, RequestFits
  <2>2. CASE Start \/ Return \/ UNCHANGED vars
    <3>1. /\ UNCHANGED <<learner, probeEvery, belief, held>>
          /\ pc' \in {"start", "loop", "returned"}
      BY <2>2 DEF Start, Return, vars, FitInv
    <3> QED BY <3>1 DEF FitInv
  <2>3. CASE Reject
    <3>1. UNCHANGED <<learner, probeEvery, belief>> /\ pc' = "returned" /\ Len(held') = 0
      BY <2>3 DEF Reject
    <3>2. \A j \in 1..Len(held') : Fits(held'[j])
      BY <3>1
    <3> QED BY <3>1, <3>2 DEF FitInv
  <2> QED BY <2>1, <2>2, <2>3 DEF Next
<1> QED BY <1>1, <1>2, SimulatorInvariance, PTL DEF Spec

(* What an outcome has when its belief fits.                               *)
LEMMA FittingOutcome ==
    ASSUME SimInv, FitInv, NEW j \in DOMAIN outcomes
    PROVE  outcomes[j] \in Outcome
<1>1. /\ truths \in Workloads /\ j \in DOMAIN truths /\ ValidInputs(truths[j])
      /\ held[j] \in Belief /\ outcomes[j].executed \in Actions
      /\ outcomes[j] = Record(truths[j], held[j], outcomes[j].executed)
  BY OutcomeFacts
<1>2. PICK t, b, x : t = truths[j] /\ b = held[j] /\ x = outcomes[j].executed
  OBVIOUS
<1>3. /\ t \in Inputs /\ b \in Belief /\ x \in Actions
      /\ Regret(t, x) \in Nat /\ TimeOf(t, x) \in Nat
  <2>1. LET best == BestActual(t)
        IN  /\ t \in Inputs /\ TimeOf(t, x) \in Nat /\ best.ttft \in Nat
            /\ best.ttft <= TimeOf(t, x) /\ Regret(t, x) = TimeOf(t, x) - best.ttft
    BY <1>1, <1>2, RegretOfTruth
  <2> QED BY <1>1, <1>2, <2>1
<1>4. Fits(b) /\ t \in TrueScenarios
  <2>1. j \in 1..Len(held)
    BY LenProperties DEF SimInv, RunTypeOK
  <2> QED BY <1>1, <1>2, <2>1 DEF FitInv, TrueScenarios
<1>5. TimeOf(Believed(t, b), x) \in Nat /\ Choice(t, b) \in Actions
  <2>1. PICK in : in = Believed(t, b) /\ in \in Inputs
    BY <1>3, BeliefMovesTransfers
  <2>2. \A c \in 1..3 : Estimate(in)[c].ttft >= 0
    <3>1. \A c \in DOMAIN Estimate(in) : Estimate(in)[c].ttft >= 0
      BY <1>1, <1>2, <1>4, <2>1 DEF Fits, Believed
    <3>2. DOMAIN Estimate(in) = 1..3
      BY DEF Estimate
    <3> QED BY <3>1, <3>2
  <2>3. /\ TimeOf(in, x) \in Int
        /\ TimeOf(in, x) \in {Estimate(in)[1].ttft, Estimate(in)[2].ttft, Estimate(in)[3].ttft}
        /\ ChooseLowestTTFT(Estimate(in)).action \in Actions
    BY <1>3, <2>1, TimesOfEstimate DEF Actions
  <2>4. TimeOf(in, x) >= 0
    BY <2>2, <2>3
  <2> QED BY <2>1, <2>3, <2>4 DEF Choice
<1>6. Record(t, b, x) \in Outcome
  BY <1>3, <1>5 DEF Record, Outcome, TimeOf, ActualTTFT
<1> QED BY <1>1, <1>2, <1>6

(* Where beliefs fit, no estimate of a run is past the end of a Duration,  *)
(* and no regret is negative: no action is faster than bestActual's.       *)
THEOREM RunsAreTyped == ASSUME BeliefsFit PROVE Spec => []TypeOK
<1>1. SimInv /\ FitInv => TypeOK
  <2> SUFFICES ASSUME SimInv, FitInv PROVE TypeOK
    OBVIOUS
  <2>1. PICK n \in Nat : n = Len(outcomes) /\ DOMAIN outcomes = 1..n
    BY LenProperties DEF SimInv, RunTypeOK
  <2>2. \A j \in 1..n : outcomes[j] \in Outcome
    BY <2>1, FittingOutcome
  <2>3. outcomes \in Seq(Outcome)
    <3>1. outcomes \in [1..n -> OutcomeOfAnyBelief]
      BY <2>1, LenProperties DEF SimInv, RunTypeOK
    <3>2. outcomes \in [1..n -> Outcome]
      BY <2>2, <3>1
    <3> QED BY <3>2, SeqDef
  <2>4. belief \in [startup : Nat, secondsPerByte : Nat \ {0}]
    BY DEF FitInv, Fits
  <2> QED BY <2>3, <2>4 DEF SimInv, RunTypeOK, FitInv, TypeOK
<1> QED BY <1>1, SimulatorInvariance, BeliefsOfRunsFit, PTL
=============================================================================

------------------------------ MODULE Simulator ------------------------------
(***************************************************************************)
(* Package internal/simulator: RunStatic and RunAdaptive score a policy    *)
(* against a sequence of true scenarios, and AdaptationTimes measures how  *)
(* soon it notices that the best action changed.                           *)
(*                                                                         *)
(* The policy sees each scenario's queues and request as they are; the     *)
(* cost of a transfer is the one thing it only believes.                   *)
(***************************************************************************)
EXTENDS Scoring, Learner

CONSTANTS Workloads,     \* the sequences of scenarios a run may be given
          Initial,       \* the belief every policy starts with
          Learners,      \* "static" for RunStatic, "last" for RunAdaptive with LastSample
          Probes,        \* settings of probeEvery
          Noise          \* what observe may multiply a duration by, in halves

Inputs == [queueA : Int, queueB : Int, prefixTokens : Int, suffixTokens : Int,
           prefillA : Int, prefillB : Int, bytesPerToken : Int,
           secondsPerByte : Int, startup : Int]

Belief == [startup : Int, secondsPerByte : Int]

(* The estimates of a scenario that is predicted as it is are no longer    *)
(* than a Duration; those of a belief may be.                              *)
ASSUME WorkloadsAssumption ==
    \A ts \in Workloads :
        /\ ts \in Seq(Inputs)
        /\ \A i \in DOMAIN ts : ValidInputs(ts[i]) =>
              \A c \in DOMAIN Estimate(ts[i]) : Estimate(ts[i])[c].ttft >= 0
ASSUME InitialAssumption == Initial \in Belief
ASSUME ProbesAssumption == Probes \subseteq Int

VARIABLES
    truths,          \* the scenarios
    learner, probeEvery,
    pc,              \* "start", "loop" or "returned"
    belief,
    sinceTransfer,
    outcomes,        \* of the requests so far
    held             \* history: the belief each was decided with

vars == <<truths, learner, probeEvery, pc, belief, sinceTransfer, outcomes, held>>

Init ==
    /\ truths \in Workloads
    /\ learner \in Learners
    /\ probeEvery \in IF learner = "static" THEN {0} ELSE Probes
    /\ pc = "start"
    /\ belief = Initial
    /\ sinceTransfer = 0
    /\ outcomes = <<>> /\ held = <<>>

-----------------------------------------------------------------------------
(* Mutant: the probe comes a request late.                                 *)
ProbeDueLate == probeEvery > 0 /\ sinceTransfer > probeEvery

ProbeDue == probeEvery > 0 /\ sinceTransfer >= probeEvery

(* NoisyObserve: what a worker may report of a duration.                   *)
NoisyObserve(seconds) == {(seconds * factor) \div 2 : factor \in Noise}

(* Every observation has a rate that LastSample can give: see Learner.     *)
ASSUME ObservationsAssumption ==
    \A ts \in Workloads : \A i \in DOMAIN ts :
        ValidInputs(ts[i]) /\ Bytes(ts[i]) > 0 =>
            \A seconds \in NoisyObserve(TransferDuration(ts[i])) :
                \E rate \in 0..seconds : rate * Bytes(ts[i]) = seconds

(* Mutant: a forced transfer is not learned from.                          *)
LearnsUnforced(truth, executed) ==
    learner = "last" /\ executed = Choice(truth, belief) /\ executed = "transfer" /\ Bytes(truth) > 0

(* An empty transfer says nothing, and RunStatic never learns.             *)
Learns(truth, executed) ==
    learner = "last" /\ executed = "transfer" /\ Bytes(truth) > 0

-----------------------------------------------------------------------------
Start ==
    /\ pc = "start"
    /\ pc' = IF probeEvery < 0 THEN "returned" ELSE "loop"
    /\ UNCHANGED <<truths, learner, probeEvery, belief, sinceTransfer, outcomes, held>>

(* The scenario of this turn.                                            *)
Truth == truths[Len(outcomes) + 1]

(* One turn of the loop of RunAdaptive, or of RunStatic, which has no      *)
(* probe count.                                                            *)
Request ==
    /\ pc = "loop" /\ Len(outcomes) < Len(truths)
    /\ ValidInputs(Truth) /\ ValidInputs(Believed(Truth, belief))
    /\ LET executed == IF ProbeDue THEN "transfer" ELSE Choice(Truth, belief) IN
         /\ outcomes' = Append(outcomes, Record(Truth, belief, executed))
         /\ sinceTransfer' = IF executed = "transfer" THEN 0 ELSE sinceTransfer + 1
         /\ IF Learns(Truth, executed)
            THEN \E seconds \in NoisyObserve(TransferDuration(Truth)) :
                    belief' = LastSample(Bytes(Truth), seconds)
            ELSE UNCHANGED belief
    /\ held' = Append(held, belief)
    /\ UNCHANGED <<truths, learner, probeEvery, pc>>

(* A scenario the cost model rejects ends the run without outcomes.        *)
Reject ==
    /\ pc = "loop" /\ Len(outcomes) < Len(truths)
    /\ ~(ValidInputs(Truth) /\ ValidInputs(Believed(Truth, belief)))
    /\ pc' = "returned"
    /\ outcomes' = <<>> /\ held' = <<>>
    /\ UNCHANGED <<truths, learner, probeEvery, belief, sinceTransfer>>

Return ==
    /\ pc = "loop" /\ Len(outcomes) = Len(truths)
    /\ pc' = "returned"
    /\ UNCHANGED <<truths, learner, probeEvery, belief, sinceTransfer, outcomes, held>>

Next == Start \/ Request \/ Reject \/ Return

Spec == Init /\ [][Next]_vars

-----------------------------------------------------------------------------
(* AdaptationTimes. *)

(* Mutant: the window runs on to the end of the run.                       *)
WindowToEnd(best, i) == {j \in DOMAIN best : j >= i}

(* The requests from i on until the best action changes again.             *)
Window(best, i) == {j \in DOMAIN best : j >= i /\ \A l \in i..j : best[l] = best[i]}

(* The changes of the best action up to request i are in upto[i].          *)
AdaptationTimes(ts, os) ==
    LET best == [i \in DOMAIN ts |-> BestActual(ts[i]).action]
        Adapting(i) ==
            LET hits == {j \in Window(best, i) : os[j].believed = best[i]}
                first == CHOOSE j \in hits : \A l \in hits : j <= l
            IN  [at |-> i, from |-> best[i - 1], to |-> best[i],
                 requests |-> IF hits = {} THEN 0 ELSE first - i, adapted |-> hits # {}]
        upto[i \in 0..Len(ts)] ==
            IF i = 0 THEN <<>>
            ELSE IF i = 1 \/ best[i] = best[i - 1] THEN upto[i - 1]
            ELSE Append(upto[i - 1], Adapting(i))
    IN  upto[Len(ts)]

-----------------------------------------------------------------------------
Outcome == [regret : Nat, believed : Actions, executed : Actions,
            predicted : Nat, actual : Nat]

TrueScenarios == UNION {{ts[i] : i \in DOMAIN ts} : ts \in Workloads}

(* No transfer of a workload, nor the belief a policy starts with, leads   *)
(* to a belief that is not positive or that estimates a negative time.     *)
Fits(b) ==
    /\ b \in [startup : Nat, secondsPerByte : Nat \ {0}]
    /\ \A t \in TrueScenarios : ValidInputs(t) =>
           LET in == [t EXCEPT !.secondsPerByte = b.secondsPerByte, !.startup = b.startup]
           IN  \A c \in DOMAIN Estimate(in) : Estimate(in)[c].ttft >= 0

BeliefsFit ==
    /\ Fits(Initial)
    /\ \A t \in TrueScenarios : ValidInputs(t) /\ Bytes(t) > 0 =>
           \A seconds \in NoisyObserve(TransferDuration(t)) : Fits(LastSample(Bytes(t), seconds))

(* Types: where beliefs fit, no estimate of a run is negative, and no      *)
(* action is faster than the best.                                         *)
TypeOK ==
    /\ truths \in Workloads /\ learner \in Learners /\ probeEvery \in Probes \cup {0}
    /\ pc \in {"start", "loop", "returned"}
    /\ belief \in [startup : Nat, secondsPerByte : Nat \ {0}]
    /\ sinceTransfer \in Nat
    /\ outcomes \in Seq(Outcome) /\ Len(outcomes) <= Len(truths)
    /\ Len(held) = Len(outcomes)

Probed(j) == outcomes[j].executed # outcomes[j].believed

(* What a request can lose by a wrong belief is at most how wrong the      *)
(* belief is about the transfer: RunAdaptive's regret has no other cause   *)
(* than that and the probes.                                               *)
RegretIsMisprediction ==
    \A j \in DOMAIN outcomes : ~Probed(j) =>
        LET predicted == TtftOf(Estimate(Believed(truths[j], held[j])), "transfer")
            actual == ActualTTFT(truths[j], "transfer")
        IN  outcomes[j].regret \in
                0..(IF predicted < actual THEN actual - predicted ELSE predicted - actual)

(* A policy that has learned that the network is slower does not choose to *)
(* transfer where it chose otherwise for the same request before, or will: *)
(* except when the transfer's estimate is now so long that it passes the   *)
(* end of a Duration, and reads as a short one.  Overflows of the other    *)
(* estimates never do that.                                                *)
SlowerNeverTransfers ==
    \A i, j \in DOMAIN outcomes :
        LET slower == Believed(truths[j], held[j])
        IN  /\ Believed(truths[i], held[j]) = slower
            /\ held[j].secondsPerByte >= held[i].secondsPerByte
            /\ held[j].startup >= held[i].startup
            /\ outcomes[j].believed = "transfer"
            => outcomes[i].believed = "transfer" \/ PastTheEnd(slower)

(* A request is forced to transfer exactly when it would not have and the  *)
(* probeEvery before it did not: never earlier, never later.               *)
ProbesAreOnTime ==
    \A j \in DOMAIN outcomes :
        LET due == /\ probeEvery > 0 /\ j > probeEvery
                   /\ \A i \in j - probeEvery..j - 1 : outcomes[i].executed # "transfer"
        IN  /\ Probed(j) => due
            /\ due => outcomes[j].executed = "transfer"

Measures(j) == outcomes[j].executed = "transfer" /\ Bytes(truths[j]) > 0

(* As the comment on RunAdaptive has it, which forces a transfer "so the   *)
(* network is measured again": a request with something to send transfers  *)
(* when the probeEvery before it measured nothing.                         *)
NetworkIsMeasured ==
    \A j \in DOMAIN outcomes :
        probeEvery > 0 /\ j > probeEvery /\ Bytes(truths[j]) > 0 /\ ~Measures(j) =>
            \E i \in j - probeEvery..j - 1 : Measures(i)

(* Whatever is observed of truth t makes request u look as it is.          *)
Tells(t, u) ==
    Bytes(t) > 0 /\ \A seconds \in NoisyObserve(TransferDuration(t)) :
        Choice(u, LastSample(Bytes(t), seconds)) = BestActual(u).action

(* With probing on, a policy that believes its last measurement notices    *)
(* every change of the best action that lasts long enough, within          *)
(* probeEvery + 1 requests and before the next change, as long as each     *)
(* measurement made meanwhile tells fast from slow.                        *)
AdaptsInTime ==
    pc = "returned" /\ outcomes # <<>> /\ learner = "last" /\ probeEvery > 0 =>
        LET as == AdaptationTimes(truths, outcomes)
            End(c) == IF c < Len(as) THEN as[c + 1].at - 1 ELSE Len(truths)
        IN  \A c \in DOMAIN as :
                /\ as[c].at + as[c].requests <= End(c)
                /\ /\ End(c) - as[c].at > probeEvery
                   /\ \A t, u \in as[c].at..End(c) : Tells(truths[t], truths[u])
                   => as[c].adapted /\ as[c].requests <= probeEvery + 1
=============================================================================

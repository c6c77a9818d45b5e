------------------------------- MODULE Scoring -------------------------------
(***************************************************************************)
(* How internal/simulator scores a decision: what each action really takes *)
(* on the true network, what a belief predicted it to take, and the regret *)
(* of the one that was executed.                                           *)
(***************************************************************************)
EXTENDS Scheduler, CostModel

TtftOf(candidates, action) ==
    candidates[CHOOSE i \in DOMAIN candidates : candidates[i].action = action].ttft

(* Truth is the cost model's own formula with the true startup.            *)
ActualTTFT(truth, action) == TtftOf(Estimate(truth), action)
BestActual(truth) == ChooseLowestTTFT(Estimate(truth))

(* Mutant: the difference the other way round.                             *)
RegretSwapped(truth, action) == Wrap(BestActual(truth).ttft - ActualTTFT(truth, action))

Regret(truth, action) == Wrap(ActualTTFT(truth, action) - BestActual(truth).ttft)

Bytes(truth) == truth.prefixTokens * truth.bytesPerToken

TransferDuration(truth) ==
    Wrap(truth.startup + DurationFor(Bytes(truth), truth.secondsPerByte))

(* Mutant: a rate where its reciprocal belongs.                            *)
BelievedInverted(truth, b) ==
    [truth EXCEPT !.secondsPerByte = 30 \div b.secondsPerByte, !.startup = b.startup]

(* The scenario as a policy with belief b sees it.                         *)
Believed(truth, b) ==
    [truth EXCEPT !.secondsPerByte = b.secondsPerByte, !.startup = b.startup]

(* Mutant: the destination's queue is left out of the choice.              *)
ChoiceIgnoringQueue(truth, b) ==
    ChooseLowestTTFT(Estimate([Believed(truth, b) EXCEPT !.queueB = 0])).action

Choice(truth, b) == ChooseLowestTTFT(Estimate(Believed(truth, b))).action

(* The outcome of a request decided with belief b.                         *)
Record(truth, b, executed) ==
    [regret |-> Regret(truth, executed),
     believed |-> Choice(truth, b), executed |-> executed,
     predicted |-> TtftOf(Estimate(Believed(truth, b)), executed),
     actual |-> ActualTTFT(truth, executed)]

-----------------------------------------------------------------------------
(* The network and the transfer as they would be predicted if a Duration   *)
(* had no end, and whether one of them passes it.                          *)
NetworkTime(in) == in.startup + Bytes(in) * in.secondsPerByte

TransferTime(in) ==
    Later(in.queueB, NetworkTime(in)) + DurationFor(in.suffixTokens, in.prefillB)

PastTheEnd(in) == NetworkTime(in) >= Horizon \/ TransferTime(in) >= Horizon
=============================================================================

------------------------------ MODULE CostModel ------------------------------
(***************************************************************************)
(* Package internal/costmodel: the predicted time to first token of the    *)
(* three plans.  Rates are given by their reciprocals, the time one token  *)
(* or one byte takes: a rate is finite and positive exactly when its       *)
(* reciprocal is, and 0 stands for the infinite rate of a division by 0.   *)
(*                                                                         *)
(* A time.Duration is an integer of fixed width.  An estimate that does    *)
(* not fit converts to whatever the processor makes of it, and sums wrap.  *)
(***************************************************************************)
EXTENDS Integers, Sequences

CONSTANTS Horizon,      \* durations are those from -Horizon to Horizon - 1
          OutOfRange    \* what the conversion makes of one past the end

ASSUME HorizonAssumption ==
    Horizon \in Nat \ {0} /\ OutOfRange \in -Horizon..(Horizon - 1)

Wrap(d) == ((d + Horizon) % (2 * Horizon)) - Horizon

DurationFor(amount, perUnit) ==
    IF amount * perUnit < Horizon THEN amount * perUnit ELSE OutOfRange

IsFinitePositive(perUnit) == perUnit > 0

Later(d, e) == IF d > e THEN d ELSE e

ValidInputs(in) ==
    /\ in.queueA >= 0 /\ in.queueB >= 0 /\ in.startup >= 0
    /\ in.prefixTokens >= 0 /\ in.suffixTokens >= 0
    /\ \A rate \in {in.prefillA, in.prefillB, in.secondsPerByte} : IsFinitePositive(rate)
    /\ in.bytesPerToken > 0

(* The candidates in tie-break order.                                      *)
Estimate(in) ==
    LET suffixA == DurationFor(in.suffixTokens, in.prefillA)
        suffixB == DurationFor(in.suffixTokens, in.prefillB)
        transferTime == Wrap(in.startup +
            DurationFor(in.prefixTokens * in.bytesPerToken, in.secondsPerByte))
        prefixAndSuffixB == DurationFor(in.prefixTokens + in.suffixTokens, in.prefillB)
        transferStart == Later(in.queueB, transferTime)
    IN  << [action |-> "wait",      ttft |-> Wrap(in.queueA + suffixA)],
           [action |-> "transfer",  ttft |-> Wrap(transferStart + suffixB)],
           [action |-> "recompute", ttft |-> Wrap(in.queueB + prefixAndSuffixB)] >>
=============================================================================

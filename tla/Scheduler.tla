------------------------------ MODULE Scheduler ------------------------------
(* Package internal/scheduler: the choice among predicted plans.           *)
EXTENDS Integers, Sequences

Actions == {"wait", "transfer", "recompute"}

(* ChooseLowestTTFT's loop: best after the first i candidates.             *)
ChooseLowestTTFT(candidates) ==
    LET best[i \in 1..Len(candidates)] ==
            IF i = 1 THEN candidates[1]
            ELSE IF candidates[i].ttft < best[i - 1].ttft
                 THEN candidates[i] ELSE best[i - 1]
    IN  best[Len(candidates)]
=============================================================================

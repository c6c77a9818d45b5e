------------------------------ MODULE Recording ------------------------------
(***************************************************************************)
(* What kvreplay and kvloadsim share: the transfers that kvxfer recorded,  *)
(* which xfercsv reads, and the belief their learners start from.          *)
(***************************************************************************)
EXTENDS OnlineLearner, Sequences

CONSTANT Initial    \* the seconds per byte the learners start from

(* NewLine, NewEWMA and NewLastSample insist on it.                        *)
ASSUME InitialAssumption == IsFraction(Initial) /\ Zero \prec Initial

VARIABLE rows       \* the recorded transfers

Numbers == Int \X Nat

(* Any file, its numbers whatever they are.                                *)
IsFile(f) ==
    /\ f \in Seq([bytes : Numbers, seconds : Numbers])
    /\ \A i \in DOMAIN f : IsFraction(f[i].bytes) /\ IsFraction(f[i].seconds)
=============================================================================

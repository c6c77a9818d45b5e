------------------------------- MODULE Learner -------------------------------
(***************************************************************************)
(* Package internal/learner: beliefs about the network, learned from       *)
(* transfers that were timed.  Times are whole units, and an observation   *)
(* whose rate is not a whole number of them has no value here.             *)
(***************************************************************************)
EXTENDS Integers

(* LastSample believes the rate of the last transfer, and no startup.      *)
LastSample(bytes, seconds) ==
    [startup |-> 0,
     secondsPerByte |-> CHOOSE rate \in 0..seconds : rate * bytes = seconds]
=============================================================================

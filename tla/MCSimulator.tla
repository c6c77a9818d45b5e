---------------------------- MODULE MCSimulator ----------------------------
(* Simulator with kvbench's workloads in small: a transfer is best on the  *)
(* fast network and recomputing on the slow one, and no noise in a report  *)
(* of either hides that.                                                   *)
EXTENDS Simulator, Workload

CONSTANTS Requests    \* length of the longest workload

AMD64 == -Horizon

Fast == [queueA |-> 30, queueB |-> 1, prefixTokens |-> 1, suffixTokens |-> 1,
         prefillA |-> 8, prefillB |-> 8, bytesPerToken |-> 2,
         secondsPerByte |-> 2, startup |-> 0]
Slow == [Fast EXCEPT !.secondsPerByte = 10]
Startup == [Fast EXCEPT !.startup = 8, !.queueB = 5]    \* a startup no policy is told
Long == [Slow EXCEPT !.prefixTokens = 40, !.queueA = 900]  \* can be believed past the Horizon
Invalid == [Fast EXCEPT !.prefillA = 0]

MCInitial == [startup |-> 0, secondsPerByte |-> 2]
MCProbes == {-1, 0, 1, 2}

MCWorkloads ==
    {Stable(2, Fast), Stable(4, Slow), Stable(4, Startup), Stable(4, Long),
     Stable(1, Slow) \o Stable(1, Invalid),
     SlowdownThenRecovery(Requests, Fast, Slow), Drift(5, Fast, Slow)}
    \cup Flapping(Requests, 2, 4, Fast, Slow)
    \cup MixedPrefixes(4, Startup, 0..2)

ASSUME MCBeliefsFit == BeliefsFit
=============================================================================

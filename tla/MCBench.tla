------------------------------ MODULE MCBench ------------------------------
(* Bench on kvbench's workloads in small, cut to N requests: a transfer is *)
(* best on the fast network and recomputing on the slow one.               *)
EXTENDS Bench, Workload

AMD64 == -Horizon

Config(probe) == [probeEvery |-> probe, timeout |-> 1, interval |-> 0]
MCConfigs == {Config(-1), Config(0), Config(1), Config(2)}

Fast == [queueA |-> 30, queueB |-> 1, prefixTokens |-> 1, suffixTokens |-> 1,
         prefillA |-> 8, prefillB |-> 8, bytesPerToken |-> 2,
         secondsPerByte |-> 2, startup |-> 0]
Slow == [Fast EXCEPT !.secondsPerByte = 10]
Startup == [Fast EXCEPT !.startup = 8, !.queueB = 5]
Invalid == [Fast EXCEPT !.prefillA = 0]

MCInitial == [startup |-> 0, secondsPerByte |-> 2]

MCWorkloads ==
    {Stable(N, Fast), Stable(N, Slow), Stable(N, Startup), Stable(N - 1, Slow) \o Stable(1, Invalid),
     SlowdownThenRecovery(N, Fast, Slow), Drift(N, Fast, Slow)}
    \cup Flapping(N, 2, 4, Fast, Slow) \cup MixedPrefixes(N, Startup, 1..2)

MCScenarios == UNION {{ts[i] : i \in 1..N} : ts \in MCWorkloads}
MCTimes == UNION {Policy!NoisyObserve(TransferDuration(t)) : t \in MCScenarios}
MCBeliefs == {MCInitial} \cup
    UNION {{Policy!LastSample(Bytes(t), s) : s \in Policy!NoisyObserve(TransferDuration(t))} : t \in MCScenarios}
=============================================================================

------------------------------ MODULE MCSystem ------------------------------
(* System with requests that transfer on the belief there is and requests  *)
(* that only a probe makes transfer.                                       *)
EXTENDS System

CONSTANTS PeerAddrs, Probes, Lengths

(* What amd64 makes of a float64 that fits no int64. *)
AMD64 == -Horizon

MCConfigs == [probeEvery : Probes, timeout : {1}, interval : {0}, peerAddr : PeerAddrs]

(* Transferring wins where queueA is long and waiting where it is short.   *)
MCScenarios ==
    {[queueA |-> in[1], queueB |-> 0, prefixTokens |-> 1, suffixTokens |-> 0,
      prefillA |-> 1, prefillB |-> 5, bytesPerToken |-> in[2]]
        : in \in ({20} \X Lengths) \cup {<<0, 1>>}}

MCBeliefs == {[startup |-> 0, secondsPerByte |-> 1]}
=============================================================================

---------------------------- MODULE MCController ----------------------------
(* Controller with a few requests, and beliefs on both sides of the point  *)
(* where transferring stops being worth it.                                *)
EXTENDS Controller

CONSTANTS InvalidScenarios    \* include a scenario Estimate rejects

(* What amd64 makes of a float64 that fits no int64. *)
AMD64 == -Horizon

Config(probe) == [probeEvery |-> probe, timeout |-> 1, interval |-> 0]

MCConfigs == {Config(-1), Config(0), Config(1), Config(2),
              [Config(1) EXCEPT !.timeout = 0], [Config(1) EXCEPT !.interval = -1]}

(* Waiting never wins, and recomputing takes 5. *)
Plain == [queueA |-> 20, queueB |-> 0, prefixTokens |-> 1, suffixTokens |-> 0,
          prefillA |-> 1, prefillB |-> 5, bytesPerToken |-> 4]

MCScenarios ==
    {Plain,
     [Plain EXCEPT !.prefixTokens = 0, !.queueB = 1],     \* nothing to send
     [Plain EXCEPT !.queueA = 0]}                         \* waiting wins
    \cup IF InvalidScenarios THEN {[Plain EXCEPT !.bytesPerToken = 0]} ELSE {}

(* Fast enough to transfer, and too slow. *)
MCBeliefs == {[startup |-> 0, secondsPerByte |-> 1],
              [startup |-> 2, secondsPerByte |-> 2]}

=============================================================================

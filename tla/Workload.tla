------------------------------ MODULE Workload ------------------------------
(***************************************************************************)
(* The workloads of internal/simulator: sequences of true scenarios.  A    *)
(* workload drawn at random is the set of what may be drawn.               *)
(***************************************************************************)
EXTENDS Integers, Sequences

Stable(n, scenario) == [i \in 1..n |-> scenario]

(* Index i of the code is i + 1 here.                                      *)
SlowdownThenRecovery(n, fast, slow) ==
    [i \in 1..n |-> IF i - 1 \in n \div 3..(2 * n) \div 3 - 1 THEN slow ELSE fast]

(* Phases of minPeriod to maxPeriod requests, the last one cut off at n.   *)
Flapping(n, minPeriod, maxPeriod, fast, slow) ==
    LET from[start \in 0..n, isSlow \in BOOLEAN] ==
            IF start = n THEN {<<>>}
            ELSE UNION {
                LET end == IF start + period < n THEN start + period ELSE n
                IN  {Stable(end - start, IF isSlow THEN slow ELSE fast) \o rest :
                        rest \in from[end, ~isSlow]} :
                period \in minPeriod..maxPeriod}
    IN  from[0, FALSE]

MixedPrefixes(n, scenario, prefixTokens) ==
    {[i \in 1..n |-> [scenario EXCEPT !.prefixTokens = sizes[i]]] :
        sizes \in [1..n -> prefixTokens]}

(* The time of a byte goes from fast's to slow's and back in equal steps.  *)
Drift(n, fast, slow) ==
    LET Distance(i) == IF 2 * (i - 1) < n - 1 THEN n - 1 - 2 * (i - 1) ELSE 2 * (i - 1) - (n - 1)
        Rise(i) == ((slow.secondsPerByte - fast.secondsPerByte) * (n - 1 - Distance(i))) \div (n - 1)
    IN  [i \in 1..n |-> IF n < 2 THEN fast
                        ELSE [fast EXCEPT !.secondsPerByte = @ + Rise(i)]]
=============================================================================

------------------------------ MODULE Controller ------------------------------
(***************************************************************************)
(* The controller of internal/controller: Run's loop over requests, with   *)
(* the learner's belief, the worker's answers and the end of ctx coming    *)
(* from outside, and the rows WriteCSV makes of its results.               *)
(*                                                                         *)
(* The worker and the network answer a transfer with any time or any       *)
(* error; the learner moves its belief anywhere on a measurement.  What    *)
(* this module keeps is Run's own control: when a transfer is tried, what  *)
(* is learned from, and what Run returns.                                  *)
(***************************************************************************)
EXTENDS Scheduler, CostModel, FiniteSets

CONSTANTS N,            \* requests of a run
          Scenarios,    \* what a request may ask for
          Beliefs,      \* what the learner may believe
          Configs,      \* the settings a run may be given
          Times         \* seconds a worker may measure

ASSUME NAssumption == N \in Nat
ASSUME TimesAssumption == Times \subseteq Nat
ASSUME ConfigsAssumption ==
    \A c \in Configs : {c.probeEvery, c.timeout, c.interval} \subseteq Int
ASSUME ScenariosAssumption ==
    \A s \in Scenarios : s.prefixTokens \in Int /\ s.bytesPerToken \in Int

VARIABLES
    cfg,            \* the settings of this run
    ctxEnded,       \* ctx has ended
    pc,             \* where Run is
    belief,         \* the learner's startup and secondsPerByte
    sinceTransfer,  \* requests since the last transfer that was tried
    down,           \* the last transfer that was tried failed
    results,        \* the requests so far; the last one may be in its call
    err,            \* the error Run returned
    learned         \* history: what the learner was told, in order

vars == <<cfg, ctxEnded, pc, belief, sinceTransfer, down, results, err, learned>>

(* The gRPC codes a call may fail with, and Run's other errors: its ctx's  *)
(* own error, invalid settings, inputs Estimate rejects.                   *)
CallErrors == {"Unavailable", "DeadlineExceeded", "Canceled",
               "InvalidArgument", "PermissionDenied"}

(* Mutant: a worker that cannot be reached ends the run too.               *)
MisconfiguredOrDown == {"InvalidArgument", "PermissionDenied", "Unavailable"}

Misconfigured == {"InvalidArgument", "PermissionDenied"}
Errors == {"none", "config", "ctx", "estimate"} \cup CallErrors

Init ==
    /\ cfg \in Configs
    /\ ctxEnded = FALSE
    /\ pc = "start"
    /\ belief \in Beliefs
    /\ sinceTransfer = 0
    /\ down = FALSE
    /\ results = <<>>
    /\ err = "none"
    /\ learned = <<>>

-----------------------------------------------------------------------------
K == cfg.probeEvery

InvalidConfig == cfg.probeEvery < 0 \/ cfg.timeout <= 0 \/ cfg.interval < 0

PrefixBytes(s) == s.prefixTokens * s.bytesPerToken

(* The scenario with the learner's belief in place of its bandwidth.       *)
Inputs(s) ==
    [queueA |-> s.queueA, queueB |-> s.queueB,
     prefixTokens |-> s.prefixTokens, suffixTokens |-> s.suffixTokens,
     prefillA |-> s.prefillA, prefillB |-> s.prefillB,
     bytesPerToken |-> s.bytesPerToken,
     secondsPerByte |-> belief.secondsPerByte, startup |-> belief.startup]

(* bestWithoutTransfer's loop: the others among the first i candidates.    *)
BestWithoutTransfer(candidates) ==
    LET others[i \in 0..Len(candidates)] ==
            IF i = 0 THEN <<>>
            ELSE IF candidates[i].action # "transfer"
                 THEN Append(others[i - 1], candidates[i]) ELSE others[i - 1]
    IN  ChooseLowestTTFT(others[Len(candidates)]).action

(* Mutants: the probe comes one request early, or one late.                *)
ProbeDueEarly == K > 0 /\ sinceTransfer >= K - 1
ProbeDueLate == K > 0 /\ sinceTransfer > K

ProbeDue == K > 0 /\ sinceTransfer >= K

(* Mutant: a path that is down is tried whenever the belief says so.       *)
DecideIgnoringDown(candidates) ==
    IF ProbeDue THEN "transfer" ELSE ChooseLowestTTFT(candidates).action

(* What Run does for a request whose plans it predicted. *)
Decide(candidates) ==
    LET choice == ChooseLowestTTFT(candidates).action
    IN  IF ProbeDue THEN "transfer"
        ELSE IF down /\ choice = "transfer" THEN BestWithoutTransfer(candidates)
        ELSE choice

Return(rs, e) ==
    /\ pc' = "returned"
    /\ results' = rs
    /\ err' = e

(* The range over the scenarios; results has one entry per turn begun.     *)
(* Mutant: one turn too many.                                              *)
OneMoreRequest == Len(results) <= N

MoreRequests == Len(results) < N

Current == Len(results)
Finished == IF pc = "call" THEN SubSeq(results, 1, Current - 1) ELSE results

(* Run stops early: results[:i], without the request that stopped it.      *)
(* Mutant: with it.                                                        *)
StopWithCurrent(e) == Return(results, e)

Stop(e) == Return(Finished, e)

-----------------------------------------------------------------------------
(* Run checks its settings. *)
Start ==
    /\ pc = "start"
    /\ IF InvalidConfig THEN Return(<<>>, "config")
       ELSE pc' = "wait" /\ UNCHANGED <<results, err>>
    /\ UNCHANGED <<cfg, ctxEnded, belief, sinceTransfer, down, learned>>

(* waitUntil sees that ctx ended.  When the timer has fired as well, its   *)
(* select may choose either, and the run may go on with the next request.  *)
StopWaiting ==
    /\ pc = "wait" /\ MoreRequests
    /\ ctxEnded
    /\ Stop("ctx")
    /\ UNCHANGED <<cfg, ctxEnded, belief, sinceTransfer, down, learned>>

(* The request cannot be predicted: its scenario or the belief is invalid. *)
RejectInputs(s) ==
    /\ pc = "wait" /\ MoreRequests
    /\ ~ValidInputs(Inputs(s))
    /\ Return(<<>>, "estimate")
    /\ UNCHANGED <<cfg, ctxEnded, belief, sinceTransfer, down, learned>>

(* One turn of the loop up to the call: predict, choose, override the      *)
(* choice for a probe or a path that is down, record, count.               *)
Request(s) ==
    /\ pc = "wait" /\ MoreRequests
    /\ ValidInputs(Inputs(s))
    /\ LET candidates == Estimate(Inputs(s))
           action == Decide(candidates)
           calls == action = "transfer" /\ PrefixBytes(s) > 0
       IN  /\ results' = Append(results,
                 [believed |-> ChooseLowestTTFT(candidates).action, action |-> action,
                  bytes |-> PrefixBytes(s), seconds |-> 0, err |-> "none"])
           /\ sinceTransfer' = IF calls THEN 0 ELSE sinceTransfer + 1
           /\ pc' = IF calls THEN "call" ELSE "wait"
    /\ UNCHANGED <<cfg, ctxEnded, belief, down, err, learned>>

(* Mutant: the learner is told and the result is not.                      *)
CallSucceedsUnrecorded(t) ==
    /\ pc = "call"
    /\ pc' = "wait"
    /\ down' = FALSE
    /\ learned' = Append(learned, [bytes |-> results[Current].bytes, seconds |-> t])
    /\ belief' \in Beliefs
    /\ UNCHANGED <<cfg, ctxEnded, sinceTransfer, results, err>>

(* The worker measured the transfer and the learner is told.               *)
CallSucceeds(t) ==
    /\ pc = "call"
    /\ pc' = "wait"
    /\ down' = FALSE
    /\ results' = [results EXCEPT ![Current].seconds = t]
    /\ learned' = Append(learned, [bytes |-> results[Current].bytes, seconds |-> t])
    /\ belief' \in Beliefs
    /\ UNCHANGED <<cfg, ctxEnded, sinceTransfer, err>>

(* Mutant: a transfer that failed is tried again at once.                  *)
CallFailsRetries(e) ==
    /\ pc = "call" /\ e # "Canceled"
    /\ results' = [results EXCEPT ![Current].err = e]
    /\ down' = TRUE
    /\ UNCHANGED <<cfg, ctxEnded, pc, belief, sinceTransfer, err, learned>>

(* The call fails: with ctx ended or a worker that rejects the request Run *)
(* stops and leaves the request out, otherwise the path is down.           *)
CallFails(e) ==
    /\ pc = "call"
    /\ e = "Canceled" => ctxEnded
    /\ IF ctxEnded \/ e \in Misconfigured
       THEN Stop(e) /\ UNCHANGED down
       ELSE /\ pc' = "wait"
            /\ results' = [results EXCEPT ![Current].err = e]
            /\ down' = TRUE
            /\ UNCHANGED err
    /\ UNCHANGED <<cfg, ctxEnded, belief, sinceTransfer, learned>>

Finish ==
    /\ pc = "wait" /\ ~MoreRequests
    /\ Return(results, "none")
    /\ UNCHANGED <<cfg, ctxEnded, belief, sinceTransfer, down, learned>>

(* The caller ends the run. *)
CtxEnd ==
    /\ ~ctxEnded /\ pc # "returned"
    /\ ctxEnded' = TRUE
    /\ UNCHANGED <<cfg, pc, belief, sinceTransfer, down, results, err, learned>>

Loop == \/ Start \/ StopWaiting \/ Finish
        \/ \E s \in Scenarios : Request(s) \/ RejectInputs(s)

Answer == (\E t \in Times : CallSucceeds(t)) \/ (\E e \in CallErrors : CallFails(e))

Next == Loop \/ Answer \/ CtxEnd

Spec == Init /\ [][Next]_vars

(* Run's goroutine runs, and a call that nothing else ends is ended by its *)
(* timeout.  No answer is assumed: the worker may hang in every call.      *)
Fairness == WF_vars(Loop) /\ WF_vars(CallFails("DeadlineExceeded"))

-----------------------------------------------------------------------------
(* One row of WriteCSV; Empty is the empty string in a column of numbers.  *)
Empty == -1

(* Mutant: a transfer that failed reads as one that took no time.          *)
RowOfFailure(r) ==
    [action |-> r.action, bytes |-> r.bytes, error |-> r.err,
     actual |-> IF r.action = "transfer" THEN r.seconds ELSE Empty]

Row(r) ==
    [action |-> r.action, bytes |-> r.bytes, error |-> r.err,
     actual |-> IF r.err = "none" /\ r.action = "transfer" THEN r.seconds ELSE Empty]

WriteCSV(rs) == [i \in DOMAIN rs |-> Row(rs[i])]

-----------------------------------------------------------------------------
Result == [believed : Actions, action : Actions, bytes : Int,
           seconds : Nat, err : {"none"} \cup CallErrors]

TypeOK ==
    /\ cfg \in Configs /\ ctxEnded \in BOOLEAN /\ down \in BOOLEAN
    /\ pc \in {"start", "wait", "call", "returned"}
    /\ belief \in Beliefs
    /\ sinceTransfer \in Nat
    /\ results \in Seq(Result) /\ Len(results) <= N
    /\ err \in Errors
    /\ learned \in Seq([bytes : Int, seconds : Times])

(* A request for which the worker was asked to transfer.                   *)
Tried(r) == r.action = "transfer" /\ r.bytes > 0

Failed(r) == Tried(r) /\ r.err # "none"

(* The request before j that was the last to try a transfer.               *)
LastTry(i, j) == i < j /\ Tried(results[i]) /\ \A l \in i + 1..j - 1 : ~Tried(results[l])

(* A dead worker is tried at most once in K + 1 requests, and with probing *)
(* off never again: the spacing of retries is the same whatever succeeded, *)
(* failed or had nothing to send in between.                               *)
RetriesAreSpaced ==
    \A i, j \in DOMAIN results : LastTry(i, j) /\ Tried(results[j]) /\ Failed(results[i]) =>
        K > 0 /\ j - i > K

(* A belief is never left unmeasured for long: a request with something to *)
(* send transfers when the K before it did not.                            *)
BeliefIsProbed ==
    \A j \in DOMAIN results : K > 0 /\ j > K /\ results[j].bytes > 0 /\ ~Tried(results[j]) =>
        \E i \in j - K..j - 1 : Tried(results[i])

(* The action differs from the believed one for two reasons only: a probe  *)
(* that was due, or a path that was down.                                  *)
DivergenceIsExplained ==
    \A j \in DOMAIN results : results[j].believed # results[j].action =>
        \/ /\ results[j].action = "transfer"
           /\ K > 0 /\ j > K /\ \A i \in j - K..j - 1 : ~Tried(results[i])
        \/ /\ results[j].believed = "transfer"
           /\ \E i \in DOMAIN results : LastTry(i, j) /\ Failed(results[i])

Succeeded(r) == r.action = "transfer" /\ r.bytes > 0 /\ r.err = "none"
Successes(rs, j) == Cardinality({i \in 1..j : Succeeded(rs[i])})

(* The learner is told of every transfer that succeeded, once, in order,   *)
(* with the time the worker measured, and of nothing else: what it was     *)
(* told n-th is the n-th success.                                          *)
LearnsFromSuccesses ==
    err # "estimate" =>
        /\ Len(learned) = Successes(Finished, Len(Finished))
        /\ \A j \in DOMAIN Finished : Succeeded(Finished[j]) =>
                learned[Successes(Finished, j)] =
                    [bytes |-> Finished[j].bytes, seconds |-> Finished[j].seconds]

(* A run that is stopped by hand, by the worker or at its end returns every *)
(* request that finished and not the one in its call.                      *)
StopKeepsFinished ==
    [][err' # "estimate" => SubSeq(results', 1, Len(Finished)) = Finished
                            /\ (pc' = "returned" => results' = Finished)]_vars

(* As the documentation of Run has it, for every way to stop early.        *)
EarlyStopKeepsFinished ==
    [][pc' = "returned" => results' = Finished]_vars

(* As WriteCSV has it: "actual is empty when nothing was measured, so it    *)
(* can't be read as a 0-second transfer".                                  *)
ActualIsMeasured ==
    pc = "returned" =>
        LET rows == WriteCSV(results)
        IN  \A i \in DOMAIN rows : rows[i].actual # Empty =>
                \E j \in DOMAIN learned : learned[j].bytes = rows[i].bytes
=============================================================================

-------------------------------- MODULE Bench --------------------------------
(***************************************************************************)
(* The controller on the networks that kvbench measures policies on: Run,  *)
(* with a worker whose transfers take what the simulator says they take,   *)
(* and a learner that believes the last of them.  The path never goes      *)
(* down, nobody stops the run, and every request has something to send.    *)
(*                                                                         *)
(* There, the controller runs the policy that RunAdaptive scores.          *)
(***************************************************************************)
EXTENDS Controller, Scoring

CONSTANTS Workloads,    \* the sequences of N scenarios a run may be given
          Initial,      \* the belief the learner starts with
          Noise         \* what observe may multiply a duration by, in halves

VARIABLES truths,       \* the scenarios
          held          \* history: the belief each request was decided with

bvars == <<vars, truths, held>>

(* RunAdaptive counts a request once its transfer is over, Run before. *)
SinceTransfer ==
    IF pc = "call"
    THEN Cardinality({j \in DOMAIN Finished :
             \A i \in j..Len(Finished) : Finished[i].action # "transfer"})
    ELSE sinceTransfer

Held == SubSeq(held, 1, Len(Finished))

(* What RunAdaptive would have recorded of the requests that are over. *)
Outcomes == [i \in DOMAIN Finished |-> Record(truths[i], held[i], Finished[i].action)]

Policy == INSTANCE Simulator WITH
         Learners <- {"last"}, Probes <- {c.probeEvery : c \in Configs},
         learner <- "last", probeEvery <- cfg.probeEvery,
         pc <- IF pc \in {"wait", "call"} THEN "loop" ELSE pc,
         sinceTransfer <- SinceTransfer, outcomes <- Outcomes, held <- Held

Observed(truth) == Policy!NoisyObserve(TransferDuration(truth))

(* Settings are valid but for probeEvery, the one RunAdaptive has; a       *)
(* scenario that is rejected is so for the belief too, whose rate takes    *)
(* the place of its own; every measurement gives a belief.                 *)
ASSUME BenchAssumption ==
    /\ \A c \in Configs : c.timeout > 0 /\ c.interval >= 0
    /\ Initial \in Beliefs
    /\ Scenarios \subseteq Policy!Inputs
    /\ \A ts \in Workloads :
          /\ ts \in [1..N -> Scenarios]
          /\ \A i \in 1..N :
                /\ Bytes(ts[i]) > 0 /\ ts[i].secondsPerByte > 0 /\ ts[i].startup >= 0
                /\ \A seconds \in Observed(ts[i]) :
                      /\ seconds \in Times
                      /\ Policy!LastSample(Bytes(ts[i]), seconds) \in Beliefs

BInit ==
    /\ Init
    /\ truths \in Workloads
    /\ belief = Initial
    /\ held = <<>>

-----------------------------------------------------------------------------
DecideRequest ==
    /\ Request(truths[Current + 1])
    /\ held' = Append(held, belief)
    /\ UNCHANGED truths

(* The transfer takes as long as it really does, give or take the noise,   *)
(* and the learner believes that.                                          *)
AnswerTruly ==
    /\ pc = "call"
    /\ \E seconds \in Observed(truths[Current]) :
          CallSucceeds(seconds) /\ belief' = Policy!LastSample(Bytes(truths[Current]), seconds)
    /\ UNCHANGED <<truths, held>>

RejectScenario ==
    /\ RejectInputs(truths[Current + 1])
    /\ held' = <<>>
    /\ UNCHANGED truths

BNext ==
    \/ DecideRequest \/ AnswerTruly \/ RejectScenario
    \/ /\ Start \/ Finish
       /\ UNCHANGED <<truths, held>>

BSpec == BInit /\ [][BNext]_bvars

-----------------------------------------------------------------------------
(* kvbench measures the policies that kvcontrol runs: the controller asks  *)
(* for the same transfers in the same places as RunAdaptive, forced ones   *)
(* included, and holds the same beliefs, so that, as DECISIONS.md has it,  *)
(* "controller and kvbench results compare".                               *)
RunsThePolicy == Policy!Spec
=============================================================================

# KVFlow: specification and proofs

KVFlow decides, for each LLM request whose prefix already has its KV cache on
another machine, whether to *wait* for that machine, *transfer* the cache over
the network, or *recompute* it. It predicts the time to first token of each
plan, takes the lowest, and learns what transfers cost from the ones it makes.

This directory holds TLA+ modules of that program, TLC configurations that
check them on small instances, and TLAPS proofs of the main results for every
instance. `PROJECT.json` lists the runs, the properties, which lines of the
source every definition translates, the hazards the properties were written
for, and the theorems.

    tlc -workers 2 -config MCWorkerPair.cfg MCWorker
    tlapm WorkerProofs.tla

## 1. Inventory

| Component | State it keeps | Operations | Hard behaviour | What makes it correct |
|---|---|---|---|---|
| `internal/xfer`, the data path | none but the connection's | `Send`, `Serve`, `ServeAll` | one stream for many transfers and nothing on it that marks where one starts; a write may stop partway; the reply has no name; peers die or stop reading | both ends agree where a transfer ends; nil means it arrived; a cut-off transfer is reported |
| `internal/worker` | mutex, pool of connections by peer, allowlist | `Transfer` (a gRPC handler, many at once), `Close` | calls queue for the mutex; contexts end at any time and their `AfterFunc` runs in a goroutine of its own, perhaps after the call returned | a pooled connection is fit for reuse; no leak; warm connections stay; the right gRPC code; every call returns |
| `internal/controller` | per run: results, requests since a transfer, path down | `Run`, `WriteCSV` | the worker fails or times out, ctx ends mid-call, probes and the down state override the choice | attempts on a dead path are spaced; beliefs are re-measured; only what succeeded is learned; nothing finished is lost |
| `cmd/kvcontrol` | one run | `main`, Ctrl-C | what is written depends on how the run ended | a stopped run writes what finished |
| `internal/costmodel` | none | `Estimate` | `Duration`s have a width, rates may be anything | estimates are monotone while they fit |
| `internal/scheduler` | none | `ChooseLowestTTFT` | ties | first lowest |
| `internal/learner` | belief: startup and time per byte | `Observe` of `Line`, `EWMA`, `LastSample` | long sequences of noisy points; falling lines; sizes too much alike | the belief stays positive, is a least squares fit, and finds a line that is there |
| `internal/simulator` | per run: outcomes, probe count | `RunStatic`, `RunAdaptive`, `AdaptationTimes`, workloads | beliefs against truths that change | regret has known causes; probes are on time; changes are noticed |
| `internal/loadsim`, `internal/nettrace` | `Chunked`: learner, probe count | `Load` of four policies, `FromRows`, `SendTime` | Cake works from both ends; sends span segments; a choice moves when the next chunk meets the network | a send carries its bytes; the oracle is best; Cake stops when all is covered; probes stay spaced |
| `internal/xfercsv`, `internal/workerpb` | none | parser, generated messages | | |
| `cmd/kvworker` | a `Worker` and a `ServeAll` | `main` | | |
| `cmd/kvxfer`, `kvfit`, `kvreplay`, `kvbench`, `kvloadsim` | none | print measurements and tables | | |

How they interact. `kvcontrol` calls `controller.Run`, which asks `costmodel`
and `scheduler` for a plan with the learner's belief, calls `Worker.Transfer`
over gRPC when the plan is a transfer, and gives the learner the time the worker
measured. `Worker.Transfer` calls `xfer.Send` on a pooled connection under the
worker's mutex; the peer's `ServeAll` runs one `Serve` per connection. The
call's context reaches the connection through `AfterFunc`, which expires the
connection's deadline. `kvbench` runs the same cost model, scheduler and
learners against simulated truths; `kvreplay` and `kvloadsim` run the learners
and the loaders over files that `kvxfer` recorded.

## 2. Modules

| Module | Models | Extends |
|---|---|---|
| `Xfer` | `Send`, `Serve` and the connection between them | |
| `Worker` | `Transfer`, `conn`, `failure`, `Close` and contexts | `Xfer` |
| `Transfers` | what a worker promises to its callers | |
| `WorkerTransfers` | the mapping under which `Worker` implements it | `Worker`, instance of `Transfers` |
| `System` | controller, gRPC and worker process together | `Controller`, instance of `Transfers` |
| `Scheduler`, `CostModel` | the choice and the estimates | |
| `Controller` | `Run` and `WriteCSV` | `Scheduler`, `CostModel` |
| `KVControl` | the command around them | `Controller` |
| `Learner`, `Workload` | `LastSample`; the simulator's workloads | |
| `Scoring` | how a decision is scored against the true network | `Scheduler`, `CostModel` |
| `Simulator` | `RunStatic`, `RunAdaptive`, `AdaptationTimes` | `Scoring`, `Learner` |
| `Bench` | `Run` on the networks `kvbench` measures policies on | `Controller`, `Scoring`, instance of `Simulator` |
| `Rational` | `float64`, without its rounding | |
| `OnlineLearner` | `Line`, `EWMA`, `LastSample` behind `simulator.Learner` | `Rational` |
| `Recording` | what `kvreplay` and `kvloadsim` share: the recorded rows and the first belief | `OnlineLearner` |
| `Replay` | `kvreplay` | `Recording` |
| `NetTrace` | `internal/nettrace` | `Rational` |
| `LoadSim` | `internal/loadsim` and `kvloadsim` | `Recording`, `NetTrace` |
| `Analysis` | the two tools, one of them on one file | `Replay`, `LoadSim` |
| `WorkerProofs` | theorems about `Xfer` and `Worker`, and that `Worker` implements `Transfers` | `WorkerTransfers` |
| `RationalProofs` | the fractions as an ordered field, induction, and lemmas about spread | `Rational` |
| `SchedulerProofs` | the loop of the choice, the range of the estimates | `Scheduler`, `CostModel`, `RationalProofs` |
| `ScoringProofs` | what a belief does to the choice | `Scoring`, `SchedulerProofs` |
| `ControllerProofs` | theorems about `Controller`, `KVControl`, `System` and `Bench` | `KVControl`, `System`, `Bench`, `SchedulerProofs` |
| `SimulatorProofs` | theorems about `Simulator` | `Simulator`, `ScoringProofs` |
| `AnalysisProofs` | theorems about the learners, and the probes of the loaders | `Analysis`, `RationalProofs` |
| `LoadSimProofs` | theorems about sends, the oracle and Cake | `AnalysisProofs` |
| `MC*` | finite instances for TLC | the module they are named for |

### Xfer

One set of functions over the connections: `sender` is where `Send` stands on
the connection, `togo` its `left`; `wire` and `replies` are the two directions
of the stream; `receiver`, `frame` and `left` are where `Serve` stands, its `n`
and what it still has to read. `expired` is a deadline in the past, `broken` a
network or a receiving process that failed. `announced` and `received` are
history: which transfers were announced, and which the receiver took for whole.

The stream carries *units*. A header is a unit whose value is its length in
chunks; a chunk of zeros is the unit `Body`, and `Body` = 0 because that is
what the receiver would read if it took zeros for a header. A write that fails
may have written a part: of the body, by stopping after any chunk, of the
header, as the unit `PartHeader`. So the model can lose its framing exactly
where the code can. `WriteHeader`, `WriteChunk` and `ReadAck` are the steps of
`Send`, and it fails (`SendFails`) at any of them once the connection is expired
or broken. `ServeHeader`, `ServeBody` and `ServeReply` are the loop of `Serve`;
`ServeEnd` is its end of file, clean or not; `ServeFails` any other error.
A break is not seen at once: writes to a broken connection may go on for as
long as there is room, and either end may never notice.

`XNext` lets the environment begin a `Send` only on a connection whose last
`Send` returned nil (`Usable`) and close one only outside a `Send`. That is
what `xfer` asks of its callers, and `XSpec` is the abstract specification
that `Worker` is shown to implement.

### Worker

`mu` is the mutex and `conns` the pool. Each call has a program counter, a
request, a context, a tripwire (`trip`), the connection it uses and the code it
returned. A call dials at most once, so the connection it dials bears its name.

| Action | Code (`worker.go`) |
|---|---|
| `Transfer` | a call arrives; bad requests return before the mutex (54-61) |
| `Lock`, `LockTooLate` | the mutex is taken; a context that ended meanwhile returns (63-69) |
| `Dial`, `DialFails` | `conn`: nothing pooled (112-123) |
| `Begin` | the pooled connection, `AfterFunc`, the call of `Send` (71-81) |
| `Send`, `Serve` of `Xfer` | the transfer itself |
| `Finish` | `stop()`, keep or drop the connection, return, unlock (86-98) |
| `TripFire`, `TripRun` | the context's goroutine starts; it sets the deadline (79) |
| `CtxEnd`, `Break` | deadline or cancellation; a failing network or peer |
| `Close` | `Worker.Close` |

`TripFire` and `TripRun` are two steps because `stop()` returns false from the
first on, while the second may come long after the call returned. That is the
window the comment at `worker.go:83` calls too narrow to test. `Finish` is one
step: between `stop()` and the unlock the call does nothing another goroutine
can tell apart.

### Transfers, WorkerTransfers, System

`Transfers` is a worker seen from outside: a call is refused, or waits, sends
and returns; transfers that began arrive, once at most each; an OK is for one
that arrived and was nobody else's; any other code is the context's, or
`Unavailable` if the context was live. It has no mutex, pool, stream, tripwire
or reply. `ImplementsTransfers` maps `Worker` to it: `lock` and `conn` are
waiting, a transfer has begun when its call has a connection to send on, and
has arrived when the receiver took it for whole.

`System` extends `Controller` with that worker and uses its actions as they are:

| Action | What happens |
|---|---|
| `Control` | a turn of `Run`'s loop; one that decides to transfer makes a call |
| `Arrive` | the request reaches the worker, perhaps after `Run` gave up on it |
| `Begin`, `Returns`, `Data`, `HandlerCtxEnd` | `Transfers`; a handler is cancelled only if `Run` no longer waits |
| `Reply` | what the handler returned reaches a `Run` that still waits |
| `GiveUp`, `Disconnect` | the timeout or ctx on the controller's side; a lost connection |
| `Restart` | the worker process dies and is started with the same flags; what it was doing is never answered, and what it wrote may still arrive |

A call is named by its request, of which there is one at most.

### Scheduler, CostModel

Rates enter as reciprocals, the time of one token or byte, which is how both
the estimates and the beliefs use them; a rate is finite and positive exactly
when its reciprocal is a positive number. A `Duration` has a range
(`Horizon`); a conversion that does not fit gives `OutOfRange`, the most
negative value in the runs, as on amd64, and additions wrap.

### Controller, KVControl

One action per way `Run`'s loop goes on: `Start` checks the settings,
`StopWaiting` is `waitUntil` returning ctx's error, `RejectInputs` an error of
`Estimate`, `Request` everything from the estimate to the call (the choice,
the probe, the path that is down, the record, the count), `CallSucceeds` and
`CallFails` the answer, `Finish` the end of the loop. The worker may answer
with any time or any of its codes. The learner's belief moves anywhere on a
measurement, so what holds does not depend on which learner is used.
`WriteCSV` keeps the columns that say what happened. `KVControl` adds the end
of `main`: rows, or `log.Fatal`.
Pacing only decides when a request begins, so `waitUntil` has two outcomes and
no clock; when ctx has ended both are possible, as Go's `select` makes them.

### Scoring, Simulator, Workload, Learner

`Scoring` has no state: what an action really takes, what a belief predicts it
to take, and the outcome `record` makes of the two. `Request` is a turn of
either loop: decide with the belief, perhaps force a probe, record the outcome,
learn. `RunStatic` is the run whose learner is "static". Workloads drawn at
random are the sets of what may be drawn, and noise multiplies a duration by any
factor of `Noise`. `LastSample` divides, so every instance must keep the rates
whole (`ObservationsAssumption`).

### Bench

`Bench` gives `Controller` the world that `RunAdaptive` has: request i is
scenario i of a workload, a transfer takes its true duration give or take the
noise, the learner is `LastSample`, and neither ctx nor a failure ends anything.
Its actions are `Controller`'s with the open inputs filled in (`DecideRequest`,
`AnswerTruly`, `RejectScenario`). `RunsThePolicy` says that it implements
`Simulator`. A request without a call is a turn of `RunAdaptive`; one with a call
is one at its answer, and what happens before that is invisible, so the
mapping of the probe count (`SinceTransfer`) goes back over the finished requests
while a call is under way. `Outcomes` is what `RunAdaptive` would have recorded.

### Rational, OnlineLearner, Replay

What the learners compute is modelled exactly, over fractions. `AddPoint` is the
first half of `Line.Observe`, the moments; `Refit` the second, with its three
branches. The test of the spread compares squares, so no root is taken.
`Startup` is cut to a `Duration`, as the code does it. `ReplayRow` is a turn of
`kvreplay`'s loop: every learner predicts, then observes. Rows have positive
bytes and seconds, as those `kvxfer` writes do.

### NetTrace, LoadSim, Analysis

A trace is the two sequences of the code. `SendTime`'s loop over the segments is
the function `left` from segments to what is still to send. A `Chunk` step is a
turn of `Chunked.Load`, with a turn of `Oracle.Load` beside it: `now` and
`ideal` are the two clocks of one load, and `NextLoad` starts the next with the
learner and the probe count as they are. `AnyLoader` decides each chunk as it
likes and stands for every other policy that does one chunk at a time. `Fixed`
and `Cake` keep no state between loads and are functions of a start.
`Analysis` runs one of the tools on a file; without rows, or with one that is
not positive, `kvloadsim` ends before it begins.

## 3. Runs

| Run | Instance | Why the bounds are enough |
|---|---|---|
| `xfer` | 1 connection, 3 transfers of 1 to 3 chunks, room for 3 units | connections do not interact; two transfers are needed for one to be misread as another, three for an error to cancel out; the buffer both holds a whole short transfer and blocks a long one |
| `worker_three` | 3 calls, 1 peer, 1 chunk; symmetric calls | one call leaves a connection behind, one reuses it, one dials after a drop; a tripwire can outlive its call and meet the next two |
| `worker_pair` | 2 calls, 2 allowed peers and 1 forbidden, 2 chunks, room for 1 unit | a call stuck on one peer holds up a call to the other; with room for one unit every write can block |
| `controller` | `kvcontrol` with 5 requests, 3 scenarios and an invalid one, 2 beliefs, probing off, 1, 2 and invalid | with K = 2, a failure, the K requests without a transfer, the probe and one more after it; Ctrl-C before, in and after each of them |
| `simulator` | workloads of up to 7 requests, flapping phases of 2 to 4, probing off, 1, 2 and invalid | phases shorter, as long as and longer than K + 1; one workload's long prefix is believed to fit a `Duration`, then not, then again |
| `bench` | 5 requests of workloads as those of `simulator`, one of them ending in a scenario that is rejected; probing off, 1, 2 and invalid | K + 1 requests without a call, the forced one, and two more; calls next to each other and apart |
| `system` | 3 requests of 2 lengths, some that only a probe transfers, an allowed, a forbidden and an empty peer address, 1 restart | a call that is given up, one behind it on the same worker, and one after both; two lengths tell their arrivals apart |
| `analysis` | `kvreplay`: every file of 4 rows of sizes 1, 5, 6 and 4 times, 3 alphas; `kvloadsim`: every file of up to 3 rows of 3 sizes and 2 times, 3 chunks to a load, a load every 1.5 s, 7 loaders | 5 and 6 are too much alike to fit a line and 1 is not, so all of `Refit`'s branches are taken, and a fit is made, lost again and kept; sends start and end within, on and past the ends of segments; loads overlap the next one's start |

Each property, and the change to the code it would catch, is named in
`PROJECT.json`. Deadlock is not checked where calls, requests or transfers are
finite and the system comes to rest; `EveryCallReturns` and `ProgramExits` say
that it does not come to rest too early.

What they show:

* *The pool.* Nothing stays pooled that the next call could not use
  (`PoolIsUsable`): no torn transfer, no unread reply, no expired deadline,
  and no tripwire still on its way. The worker is also not too careful
  (`StaysWarm`), and nothing leaks (`NoLeak`).
* *The stream.* Transfers never mix (`InOrder`); an OK is a whole transfer of
  that call's own (`OKMeansDelivered`); an end of file in a transfer is an error
  (`CleanEndIsWhole`).
* *The code of a failure.* `Unavailable` after a send means that the connection
  broke (`NoFalseBlame`): a context that ended, even an earlier call's, is
  never blamed on the network.
* *Progress.* Every call returns although nothing obliges the peer to read
  (`EveryCallReturns`). One whose caller gave up while it was queued returns
  without having dialled or sent anything (`GivenUpNeverStarts`).
* *The worker from outside.* With all its machinery it is the simple service
  its callers see (`ImplementsTransfers`), one transfer at a time among it.
* *The system.* Whatever times out, is cut off or dies: each measurement the
  learner is given is of a transfer that arrived whole, and nothing is sent
  twice (`DeliveredAsAsked`). `Run`'s comment that after a rejection "every
  later transfer would be rejected too" holds, so a run that is rejected had
  sent nothing (`RejectedFromTheStart`). Run and every handler end
  (`ComesToRest`).
* *The controller.* `RetriesAreSpaced`, `BeliefIsProbed`,
  `DivergenceIsExplained`, `LearnsFromSuccesses`, `StopKeepsFinished`,
  `RowsAreComplete`, `ProgramExits`.
* *The two loops.* `Run` asks for the transfers `RunAdaptive` would have made,
  forced ones included, and holds the same beliefs (`RunsThePolicy`), so what
  `kvbench` measures of a policy is about the one `kvcontrol` runs. That needs
  something to send in every request; see below for what happens without.
* *The simulator.* Without a probe, regret is at most the misprediction of the
  transfer (`RegretIsMisprediction`). A policy that has learned that the network
  is slower transfers where it did not in one case only: the transfer's own
  estimate is past the end of a `Duration`, so that it is chosen *because* it is
  predicted to take for ever (`SlowerNeverTransfers`). That does happen; an
  overflow of the other two estimates never does it. Probes
  are exactly on time (`ProbesAreOnTime`); a policy that believes its last measurement notices a
  lasting change within K + 1 requests (`AdaptsInTime`), provided what it
  measures tells the two networks apart.

* *The line learner.* Its belief stays one that the cost model accepts
  (`BeliefIsPositive`); it is the weighted least squares line, or one through
  the mean point where that optimum cannot be told or cannot be
  (`BeliefIsLeastSquares`, from a definition by sums over the rows that knows
  nothing of running moments); a network that is a line is found from the first
  two neighbouring rows of which one is twice as large, and not forgotten
  (`LearnsTheLine`). The last is of the rates for which `Tells` holds, those
  from about 0.053 to 0.957 and so both of `kvreplay`'s, 0.1 and 0.5: at 1 a line
  forgets everything but the last row, and when next to nothing fades two rows
  may weigh too little among many.
* *The loaders.* A send takes what the area under the recorded bandwidth says
  (`SendTimeDelivers`). The comment on `Oracle` leaves open whether the best
  choice per chunk is best for the load; it is (`OracleIsBest`), because a send
  that starts later never ends earlier. Cake is done at the first moment at
  which its two ends cover the load, and so never after the oracle
  (`CakeIsEarliest`). Probes stay spaced across loads (`ProbesStaySpaced`).

### Where the code and its documentation disagree

Four runs expect a violation; each states a sentence of the documentation.

1. `kvcontrol_ctrl_c`. Ctrl-C during a transfer makes `Run` return the call's
   gRPC status, which `errors.Is(err, context.Canceled)` does not match:
   `kvcontrol` ends with `log.Fatal` and loses every row. Its documentation
   promises the rows. During a wait, Ctrl-C works as promised.
2. `controller_empty`. The row of a transfer with nothing to send has an actual
   time of 0 seconds, which `csv.go` says cannot be. Only callers of the
   package other than `kvcontrol` have such requests.
3. `controller_early`. A request `Estimate` rejects makes `Run` return no
   results, where its comment says those that finished are returned.
4. `simulator_empty`. `RunAdaptive` forces a transfer after `probeEvery` requests
   "so the network is measured again", but one of an empty prefix, from which it
   learns nothing, starts its count afresh, so that the next request with
   something to send is not forced. `Run` counts on (`BeliefIsProbed`), so on such
   a workload the two do not compare, as DECISIONS.md says they do. `kvbench`'s
   own workloads have a prefix in every request.

### Fairness

`worker_pair` assumes that a goroutine that can run does run, that every
context ends (the controller gives each call a timeout) and that a context that
ended fires its tripwire. It assumes nothing of the network, the peer or
`Close`, and no fairness of the mutex: the calls are finitely many and each takes
it once, so weak fairness of a call's own steps is enough. `controller` assumes
that `Run` runs, that `main` goes on after it, and that the timeout of a call
fires: it may be the only thing that ever ends a call, as no answer of the worker
is assumed. `system` assumes that `Run` runs, that its calls time out and that a
handler returns. The last is `EveryCallReturns`, checked of `Worker`
under the fairness above; of answers, bytes, gRPC and restarts nothing is
assumed.

## 4. Proofs

Every theorem is about all values of the constants: any number of requests,
calls, connections and transfers, any lengths, settings, beliefs and answers.

### The data path and the worker

`WorkerProofs` first proves that `XSpec` implies `[]XInv`, and from it `InOrder`,
`SentMeansReceived`, `CleanBoundary` and `CleanEndIsWhole`. None of these is
inductive. `SentMeansReceived`, for one, says nothing of a state in which the
sender has yet to read a reply that is already on its way. `XInv` says that
every connection is in one of six relations between what the sender has still
to write, what is on the wire and what the receiver expects: between transfers,
a torn header, a header not read yet, a body being read, a transfer cut off,
everything read. In the third and fourth the chunks on the wire and those still
to be written add up to what the receiver waits for, and that count is what
keeps the framing. It works because `Send` waits for its reply: there is never
more than one transfer on a connection. The proof has one lemma per action.

It then proves the inductive invariant `WInv` and from it `TypeOK`,
`OneSendAtATime`, `PoolIsUsable`, `NoFalseBlame`, `NoLeak`, `StaysWarm` and
`GivenUpNeverStarts`, and that `Spec` implies `XSpec`, so that what is proved of
`Xfer` holds in the worker (`BytesNeverMix`). The idea of `WInv` is ownership:
whatever is unsafe about a connection, a send under way, one that failed, a
deadline in the past or an armed tripwire, belongs to the call that holds the
mutex, and that call closes the connection before it lets go. The one thing that
outlives its call is a tripwire that fired, and it then points at a closed
connection (`TripInv`). `XInv` is carried along as part of the induction, since
`Finish` relies on what it says of a `Send` that returned nil.

Last, it proves `OKMeansDelivered` and that `Worker` implements
`Transfers` (`ImplementsTransfers`). Neither follows from `WInv`, which knows
that transfers arrive in order and not whose they are. `Delivery` adds a
`Ledger` to each connection: a one-to-one map from the transfers announced on
it to calls that use it and asked for that length. A call that returned OK is
in the part that was received; the one that is sending is not in the ledger
before its header is out, and is the last of it after. For the
refinement the ledgers of all connections are counted (`Tally`): the calls that
returned OK are as many as transfers of theirs that arrived, so a call about to
return OK has an arrival that is nobody else's, and those that arrived are no
more than those that began. Each action of `Worker` is then matched with one of
`Transfers` or a stutter, in a lemma of its own.

### The choice, the controller and the command

`SchedulerProofs` proves that `ChooseLowestTTFT` returns the first of the lowest
candidates of any list. This is an induction over the turns of its loop. The
library's induction theorems take a predicate, which the provers cannot
instantiate; `SimpleInduction` and `StrongInduction` of `RationalProofs` take a
*set* of naturals instead, and follow from `<` on the naturals being well
founded. That the function the loop is written as exists is proved in the same
way (`TurnsExist`).

`ControllerProofs` proves the seven safety properties of the `controller` run.
The results so far do not say whether `Run` will probe: that is in
`sinceTransfer` and `down`, which change when a request is *decided*, while its
outcome comes later. `IInv` relates them: `sinceTransfer` counts back to the
last entry that tried to transfer, none after it did (`CountInv`); outside a
call, `down` is whether that one failed (`DownInv`); in a call, the last entry
is the one that is tried and has no outcome yet (`CallInv`). With these a new
entry respects the spacing, the probes and the explanations, and entries before
it keep theirs. `LearnsFromSuccesses` is an induction of its own, by counting
the successes of a prefix. Two lemmas about the code's pure part carry the step
that decides: Estimate gives three candidates in order, and what
`bestWithoutTransfer` returns is one of the other two, for any inputs.

### The system

`ControllerProofs` also proves `STypeOK`, `DeliveredAsAsked`, `RejectedFromTheStart` and
that the system's steps, seen from `Run`, are steps of `Controller`
(`SystemRunsTheController`), so that all that is proved of `Run` holds with a
worker behind it. `SInv` is `IInv` and six relations between the two sides.
Calls are only of requests `Run` has come to (`AskedInv`); what the worker
serves is what that call asked, for an allowed peer (`ServeInv`); OKs, arrivals
and beginnings of one length are in that order by number (`TallyInv`); and
there is a one-to-one map from what was learned to calls that returned OK with
that length, never the call `Run` is waiting in (`LearnInv`). The last part is
what lets an answer be learned without having been learned before; it survives
calls that were given up, whose handler may still return OK to nobody. No
restart can break the order in `TallyInv`, as none of the three numbers is the
process's own.

### The two loops

`ControllerRunsThePolicy` is a refinement. Each action of `Bench` is a step of
`Controller`, so `IInv` is there to use; `BenchInv` adds which belief each request
was decided with, and of a request in its call that `RunAdaptive` would have
transferred it too, by a count that is still the one of before. `CountInv` is what
makes the two counts one: outside a call both are how many entries back the last
transfer is (`CountsAgree`). What is left is that `Outcomes` grows by what `Record`
makes of the request that has just ended (`OutcomesNext`).

### The simulator

`SimulatorProofs` proves `ProbesAreOnTime`, `RegretIsMisprediction` and
`SlowerNeverTransfers`. The invariant says that each outcome is what `Record`
makes of its scenario and the belief it was decided with, and that
`sinceTransfer` counts back to the last transfer. The bound on regret takes the
true best and the choice through the one action a belief can move. That a slower
belief never transfers is `SlowerChoice` of `ScoringProofs`, for any valid inputs:
while the transfer's estimate fits, it is its exact value, which grows with the
belief (`NetworkIsMonotone`), and the other two estimates are what they were,
whatever they wrapped to.

`AdaptsInTime` is about the list that `AdaptationTimes` makes of a run. The
invariant it needs is `LearnedInv`: after a transfer with something to send the
policy believes what one measurement of that scenario says. The proof first
says what the loops of `AdaptationTimes` list (`ListsChanges`: a change that is
listed did happen, and its window ends at the next one or the end of the run),
then that a window of K + 1 requests holds a transfer (`ProbedSoon`, from
`ProbesAreOnTime`), and then that this transfer told the policy the network of
the window (`TransferTells`), so that it chooses as the best policy does from
the next request on.

`TypeOK` holds only where no *predicted* time comes out negative, and a belief
may be any measured rate. `RunsAreTyped` therefore assumes `BeliefsFit`: no
scenario is predicted so by the first belief, or by one that a measurement can
give. TLC evaluates this of the instance it checks (`MCBeliefsFit`).

### The fractions

`Rational` computes with reduced fractions, as TLC needs it. `RationalProofs`
shows that this is the ordered field of the rationals. `Is(x, n, d)` says that
the fraction `x` is the number n/d, for any positive d. A fraction always is
one, and two fractions that are the same number are equal (`gcd` by strong
induction, Bezout's identity, and that a number prime to one factor of a product
divides the other). Each operator is then one lemma, for example that `x \oplus
y` is (a * d + b * c) / (c * d) when x is a/c and y is b/d. With it, a law of
the fractions is one of the integers that the SMT solver knows.

### The learners

`BeliefsArePositive` is an induction over the rows for all three branches of
`Refit`: the weight is at least 1 and the means positive from the first row on
(`HasPoints`); the variance that divides is positive when `EnoughSpread` says
so; a line through the mean point starts at a startup that is not negative and
below the mean time, so it rises.

`LinesAreLeastSquares` joins two definitions that have nothing in common. The
code keeps a weight, two means, a variance and a covariance and moves them by
differences; the property sums over all rows with powers of 1 - alpha.
`Faded` stands between them: a sum that is brought up to date by fading it once
and adding a term. It is the weighted sum (`SumIsFaded`) and it is linear
(`FadedIsLinear`). `Moments` says that what a line keeps are the moments as
faded sums; that one `AddPoint` preserves it is `MomentsMove`, the algebra by
which such a recurrence is derived on paper. `Fitted` says which of the branches
of `Refit` the belief came from, and the normal equations follow from the
branch that fits, since their two residuals are linear in those sums. The
invariant is `LinesInv`.

`LinesAreLearned` has to show that the fit is made when two neighbours differ by
a factor of 2, and that nothing undoes it. Moments of points on a line are on
that line (`MeanIsOnLine`, `CovarianceIsOnLine`), so a refit that fits finds it
(`SpreadIsLearned`), and one that does not keeps it, since a line that goes
through the mean already is left as it is (`LearnedIsKept`). That the fit is
made needs a bound: the total weight is at most 1/alpha (`WeightIsBounded`), the
last two rows weigh 1 and 1 - alpha, and by Cauchy's inequality those two alone
give the sizes the spread that `EnoughSpread` asks for, whatever the other rows
are (`SpreadIsEnough`). The invariant, `LearnedInv`, is quantified over every line
that the rows so far may be on; a row that leaves a line makes it hold vacuously
of that one.

### The loaders

`ProbesAreSpaced` is an invariant without arithmetic: the count the code keeps
is the number of chunks recomputed in a row.

The others rest on what the recorded network carries. `Bytes(T, t)` is how many
bytes a network that was never idle has carried by time t. It never falls and
does not depend on which of two segments a boundary is counted to. `SendCarries`
follows the loop of `SendTime` segment by segment and says that a send that
begins at `from` ends at a time by which `Bytes` has grown by what was sent.
From this a send that starts later never ends earlier.

`OracleWins` uses the invariant `LoadsInv`: the oracle's clock is never behind
any other loader's, is at most that of loading every chunk and of recomputing
every one, and some number of its chunks were loaded and the others recomputed.
`CakeWins` is about the loop of one load: after any turn each side is done with
its chunks, one of them only just now, and neither could have done one more
before (`CakeIsGreedy`). Hence no other way to share the chunks is faster.
`SendsDeliver` shows that the area under the bandwidth, summed over segments
with the window clipped to each, is the difference of `Bytes` at its two ends.

### Assumptions

TLC evaluates them in every run. Lengths are positive, a connection has room for
a unit, `None`, `NoPeer` and codes are different from calls, peers and each
other. Settings and scenarios are integers, measured times are not negative.
`System`: every length a request may ask for is one the worker may be asked for,
and the empty peer is not on its allowlist. `Simulator`: the estimates of a true
scenario fit a `Duration` (a predicted one need not), and measured rates are
whole numbers, which is the abstraction `Learner` makes. `Analysis`: files hold
fractions of any sign and any number of rows; the first belief and the learners'
rates are what `NewLine` and `NewEWMA` insist on, a rate above 0 and at most 1;
a load has at least one chunk, of a positive size and cost; `-probe` is not
negative (a negative one behaves as 0). `Bench`: settings are valid but for
`probeEvery`, every request of a workload has something to send and a true rate
above 0, and a measurement is one of the times and gives one of the beliefs.
`RunsAreTyped` alone has a hypothesis of its own, `BeliefsFit`.

### Only model-checked

Every safety property of a run is also stated by a theorem. What stays with TLC:

* `EveryCallReturns`, `ProgramExits` and `ComesToRest`: liveness under fairness
  is outside the prover.
* The four violations, which are about particular executions.

## 5. Not modelled, and why

* Measured times and the payload's bytes. A transfer is a whole number of
  chunks, so a chunk too many or too few is told apart from the right number and
  a byte too many or too few within the last, partial one is not.
* gRPC's own retries, flow control and shutdown; kernel buffers are one bound.
* Predictions in the controller's rows, flags, logging, the CSV's wording.
* `xfercsv`, `kvxfer`, `kvfit`, and the tables `kvreplay`, `kvbench` and
  `kvloadsim` print: sequential input and output. `kvfit` feeds filtered rows
  to one `Line`, with an alpha too small for exact fractions in TLC's integers.
* The rounding of `float64`. Nothing here says that the learners' moments are
  numerically stable, only that they are the right ones.
* A worker that is restarted with other `-peers`.

## 6. Plan

Done: `Xfer`, `Worker` and their proofs; `Scheduler`, `CostModel`;
`Controller`, `KVControl`; `Simulator` with `Workload` and `LastSample`;
`Transfers` and that `Worker` implements it; `System`; the learners, `Replay`,
`NetTrace`, `LoadSim` and `Analysis`; and the proofs of section 4, among them
the theory of `Rational` that those of `Analysis` needed.

Also done: `Controller` refines the simulator's loop where no transfer fails and
none is empty (`Bench`).

Left: the same refinement for the learners of `OnlineLearner` in place of
`LastSample`.

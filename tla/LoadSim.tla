------------------------------ MODULE LoadSim ------------------------------
(***************************************************************************)
(* kvloadsim and internal/loadsim: one load of Chunks chunks after another *)
(* is started on a recorded network, every Interval, and each loader takes *)
(* it on as if it were alone.                                              *)
(*                                                                         *)
(* The loaders that do one chunk at a time make their decisions step by    *)
(* step; the oracle goes through the same chunks beside them.  What Fixed  *)
(* and Cake need for a load follows from its start alone.                  *)
(***************************************************************************)
EXTENDS Recording, NetTrace

CONSTANTS Chunks,           \* of a load
          ChunkBytes,       \* of a chunk
          ChunkCompute,     \* seconds to recompute one
          Interval,         \* seconds between loads
          Probe             \* probeEvery of the loaders that probe

ASSUME ChunksAssumption == Chunks \in Nat \ {0}
ASSUME LoadAssumption ==
    \A x \in {ChunkBytes, ChunkCompute, Interval} : IsFraction(x) /\ Zero \prec x
ASSUME ProbeAssumption == Probe \in Nat

VARIABLES
    tr,         \* the trace made of the rows
    loader,     \* the loader whose loads these are
    learner,    \* its learner, carried from load to load
    sinceLoad,  \* chunks it recomputed since it last loaded one, likewise
    start,      \* when the load under way started
    done,       \* how many of its chunks are ready
    now,        \* when the last of these was
    ideal,      \* when the oracle's was
    inARow      \* history: how many chunks in a row it recomputed

lvars == <<rows, tr, loader, learner, sinceLoad, start, done, now, ideal, inARow>>

(* The Chunked loaders: three learners, each with and without probes.      *)
NewPolicies ==
    [learner : {NewLastSample(Initial), NewEWMA(Frac(1, 2), Initial), NewLine(Frac(1, 2), Initial)},
     probeEvery : {0, Probe}]

(* Stands for every other loader that does one chunk at a time.            *)
AnyLoader == [learner |-> NewLastSample(Initial), probeEvery |-> -1]

LInit(files) ==
    /\ rows \in {f \in files : ValidRows(f)}
    /\ tr = FromRows(rows)
    /\ loader \in NewPolicies \cup {AnyLoader}
    /\ learner = loader.learner
    /\ sinceLoad = 0
    /\ start = Zero /\ now = Zero /\ ideal = Zero
    /\ done = 0
    /\ inARow = 0

-----------------------------------------------------------------------------
ChunkSendTime(at) == SendTime(tr, at, ChunkBytes)

(* Mutant: the oracle takes it that a chunk loads no slower than it did at *)
(* the start of the load.                                                  *)
OracleChunkStale(at) ==
    at \oplus (IF ChunkSendTime(start) \prec ChunkCompute THEN ChunkSendTime(at) ELSE ChunkCompute)

(* Oracle.Load's turn for one chunk.                                       *)
OracleChunk(at) == at \oplus Lesser(ChunkSendTime(at), ChunkCompute)

(* What Chunked decides of its next chunk.                                 *)
Decides ==
    \/ Predicted(learner, ChunkBytes) \prec ChunkCompute
    \/ loader.probeEvery > 0 /\ sinceLoad >= loader.probeEvery

LoadChunk ==
    LET took == ChunkSendTime(now)
    IN  /\ learner' = Observe(learner, ChunkBytes, took)
        /\ now' = now \oplus took
        /\ sinceLoad' = 0

RecomputeChunk ==
    /\ now' = now \oplus ChunkCompute
    /\ sinceLoad' = sinceLoad + 1
    /\ UNCHANGED learner

(* One turn of Chunked.Load's loop, and of the oracle's.                   *)
Chunk(load) ==
    /\ done < Chunks
    /\ loader # AnyLoader => load = Decides
    /\ IF load THEN LoadChunk ELSE RecomputeChunk
    /\ ideal' = OracleChunk(ideal)
    /\ done' = done + 1
    /\ inARow' = IF load THEN 0 ELSE inARow + 1
    /\ UNCHANGED <<rows, tr, loader, start>>

(* Mutant: a loader forgets what it recomputed in the load before.         *)
NextLoadForgets ==
    /\ done = Chunks /\ (start \oplus Interval) \prec Duration(tr)
    /\ start' = start \oplus Interval
    /\ now' = start' /\ ideal' = start'
    /\ done' = 0 /\ sinceLoad' = 0
    /\ UNCHANGED <<rows, tr, loader, learner, inARow>>

(* The loop of main over the starts, which end where the recording ends.   *)
NextLoad ==
    /\ done = Chunks /\ (start \oplus Interval) \prec Duration(tr)
    /\ start' = start \oplus Interval
    /\ now' = start' /\ ideal' = start'
    /\ done' = 0
    /\ UNCHANGED <<rows, tr, loader, learner, sinceLoad, inARow>>

LNext == (\E load \in BOOLEAN : Chunk(load)) \/ NextLoad

-----------------------------------------------------------------------------
(* What Fixed and Cake need for a load that starts at this time.           *)
FixedLoad(at) == SendTime(tr, at, Whole(Chunks) \otimes ChunkBytes)
FixedRecompute == Whole(Chunks) \otimes ChunkCompute

(* Mutant: every chunk is taken to load as fast as at the start.           *)
CakeLoadStale(c) ==
    [c EXCEPT !.loaded = @ + 1, !.now = c.nextLoad, !.nextLoad = @ \oplus ChunkSendTime(start)]

(* The turns of Cake's loop: a chunk from the front is recomputed, or one  *)
(* from the back is loaded.                                                *)
CakeLoad(c) ==
    [c EXCEPT !.loaded = @ + 1, !.now = c.nextLoad, !.nextLoad = @ \oplus ChunkSendTime(@)]

CakeCompute(c) ==
    [c EXCEPT !.computed = @ + 1, !.now = c.nextCompute, !.nextCompute = @ \oplus ChunkCompute]

(* The turns are numbered; the loop ends when computed + loaded = Chunks.  *)
Cake(at) ==
    LET after[r \in 0..Chunks] ==
            IF r = 0 THEN [computed |-> 0, loaded |-> 0, now |-> at,
                           nextCompute |-> at \oplus ChunkCompute,
                           nextLoad |-> at \oplus ChunkSendTime(at)]
            ELSE LET c == after[r - 1]
                 IN  IF c.nextCompute \preceq c.nextLoad THEN CakeCompute(c) ELSE CakeLoad(c)
    IN  after[Chunks].now \ominus at

-----------------------------------------------------------------------------
(* How many bytes the recorded network carries from one time to another.   *)
Carried(from, to) ==
    LET begins(i) == IF i = 1 THEN Zero ELSE tr.ends[i - 1]
        till(i) == IF i = Last(tr) THEN to ELSE Lesser(to, tr.ends[i])
        overlap(i) == Greater(Zero, till(i) \ominus Greater(from, begins(i)))
    IN  Sum(LAMBDA i : overlap(i) \otimes tr.rates[i], Last(tr))

(* A send takes exactly as long as the recorded network needs to carry its *)
(* bytes, wherever in a segment it starts or ends.                         *)
SendTimeDelivers ==
    \A bytes \in {ChunkBytes, Whole(Chunks) \otimes ChunkBytes} :
        LET took == SendTime(tr, now, bytes)
        IN  Zero \prec took /\ Carried(now, now \oplus took) = bytes

(* No loader that does one chunk at a time, whatever it decides, has as    *)
(* many chunks of a load ready before the oracle has: what is best for     *)
(* each chunk is best for the whole load.                                  *)
OracleIsBest ==
    /\ ideal \preceq now
    /\ done = Chunks =>
        /\ (ideal \ominus start) \preceq FixedLoad(start)
        /\ (ideal \ominus start) \preceq FixedRecompute

(* Cake is done at the first moment at which the chunks loaded and those   *)
(* recomputed, each side at its own pace, are all of them; so no loader    *)
(* that does one chunk at a time is done before it.                        *)
LoadedBy(n) ==
    LET after[i \in 0..n] ==
            IF i = 0 THEN start ELSE LET at == after[i - 1] IN at \oplus ChunkSendTime(at)
    IN  after[n] \ominus start

CakeIsEarliest ==
    done = Chunks =>
        LET cake == Cake(start)
            splits == {Greater(LoadedBy(n), Whole(Chunks - n) \otimes ChunkCompute) : n \in 0..Chunks}
        IN  /\ cake \in splits /\ \A t \in splits : cake \preceq t
            /\ cake \preceq (ideal \ominus start)

(* A loader that probes never recomputes more than probeEvery chunks in a  *)
(* row, also across loads: however slow it believes the network, it will   *)
(* see it recover.                                                         *)
ProbesStaySpaced ==
    loader.probeEvery > 0 => inARow <= loader.probeEvery
=============================================================================

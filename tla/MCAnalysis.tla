----------------------------- MODULE MCAnalysis -----------------------------
(* Analysis on every file of a few rows of a few sizes and times.          *)
EXTENDS Analysis

CONSTANTS ReplaySizes, ReplayTimes, ReplayRows, TraceSizes, TraceTimes, TraceRows

FilesOf(sizes, times, lengths) ==
    LET row == [bytes : {Whole(n) : n \in sizes}, seconds : {Whole(n) : n \in times}]
    IN  UNION {[1..n -> row] : n \in lengths}

MCReplayFiles == FilesOf(ReplaySizes, ReplayTimes, {ReplayRows})
MCLoadSimFiles == FilesOf(TraceSizes, TraceTimes, TraceRows)

MCAlphas == {Frac(1, 4), Frac(1, 2), Frac(3, 4)}
MCInitial == Frac(1, 8)
MCChunkBytes == Whole(2)
MCChunkCompute == Whole(1)
MCInterval == Frac(3, 2)
=============================================================================

\* Every file of 4 rows for kvreplay and of up to 3 rows for kvloadsim.
CONSTANTS
    ReplaySizes = {1, 5, 6}
    ReplayTimes = {2, 4, 12, 14}
    ReplayRows = 4
    TraceSizes = {1, 3, 8}
    TraceTimes = {1, 2}
    TraceRows = {0, 1, 2, 3}
    Ticks = 1000
    Alphas <- MCAlphas
    Initial <- MCInitial
    ReplayFiles <- MCReplayFiles
    LoadSimFiles <- MCLoadSimFiles
    Chunks = 3
    ChunkBytes <- MCChunkBytes
    ChunkCompute <- MCChunkCompute
    Interval <- MCInterval
    Probe = 2
SPECIFICATION ASpec
INVARIANTS
    BeliefIsPositive BeliefIsLeastSquares LearnsTheLine
    SendTimeDelivers OracleIsBest CakeIsEarliest ProbesStaySpaced
CHECK_DEADLOCK FALSE

CONSTANTS
    N = 5
    InvalidScenarios = TRUE
    Configs <- MCConfigs
    Scenarios <- MCScenarios
    Beliefs <- MCBeliefs
    Times = {1}
    Horizon = 1000
    OutOfRange <- AMD64
SPECIFICATION KVSpec
INVARIANTS TypeOK RetriesAreSpaced BeliefIsProbed DivergenceIsExplained LearnsFromSuccesses
    RowsAreComplete
PROPERTIES StopKeepsFinished ProgramExits
CHECK_DEADLOCK FALSE

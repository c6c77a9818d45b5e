CONSTANTS
    N = 3
    InvalidScenarios = FALSE
    Configs <- FlagConfigs
    Scenarios <- OneScenario
    Beliefs <- MCBeliefs
    Times = {1}
    Horizon = 1000
    OutOfRange <- AMD64
SPECIFICATION KVSpec
INVARIANTS CtrlCWritesRows
CHECK_DEADLOCK FALSE

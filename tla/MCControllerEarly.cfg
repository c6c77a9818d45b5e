CONSTANTS
    N = 3
    InvalidScenarios = TRUE
    Configs <- MCConfigs
    Scenarios <- MCScenarios
    Beliefs <- MCBeliefs
    Times = {1}
    Horizon = 1000
    OutOfRange <- AMD64
SPECIFICATION Spec
PROPERTIES EarlyStopKeepsFinished
CHECK_DEADLOCK FALSE

CONSTANTS
    N = 3
    InvalidScenarios = FALSE
    Configs <- MCConfigs
    Scenarios <- MCScenarios
    Beliefs <- MCBeliefs
    Times = {1}
    Horizon = 1000
    OutOfRange <- AMD64
SPECIFICATION Spec
INVARIANTS ActualIsMeasured
CHECK_DEADLOCK FALSE

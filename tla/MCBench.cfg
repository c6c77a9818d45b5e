CONSTANTS
    N = 5
    Workloads <- MCWorkloads
    Scenarios <- MCScenarios
    Configs <- MCConfigs
    Beliefs <- MCBeliefs
    Times <- MCTimes
    Initial <- MCInitial
    Noise = {1, 2, 3}
    Horizon = 1000
    OutOfRange <- AMD64
SPECIFICATION BSpec
PROPERTIES RunsThePolicy
CHECK_DEADLOCK FALSE

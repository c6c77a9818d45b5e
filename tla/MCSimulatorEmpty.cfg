CONSTANTS
    Requests = 7
    Workloads <- MCWorkloads
    Initial <- MCInitial
    Learners = {"static", "last"}
    Probes <- MCProbes
    Noise = {1, 2, 3}
    Horizon = 1000
    OutOfRange <- AMD64
SPECIFICATION Spec
INVARIANTS NetworkIsMeasured
CHECK_DEADLOCK FALSE

\* Three requests of one or two lengths, to an allowed peer, a forbidden one
\* and none; the worker dies once.
CONSTANTS
    p1 = p1
    p2 = p2
    NoPeer = NoPeer
    None = None
    N = 3
    PeerAddrs = {p1, p2, NoPeer}
    Probes = {1}
    Lengths = {1, 2}
    Configs <- MCConfigs
    Scenarios <- MCScenarios
    Beliefs <- MCBeliefs
    Times = {1}
    Horizon = 1000
    OutOfRange <- AMD64
    Sizes = {1, 2}
    Peers = {p1, p2}
    Allowed = {p1}
    CtxErrs = {"DeadlineExceeded", "Canceled"}
    MaxRestarts = 1
SPECIFICATION SFairSpec
INVARIANTS STypeOK DeliveredAsAsked RejectedFromTheStart
CHECK_DEADLOCK FALSE
PROPERTIES ComesToRest

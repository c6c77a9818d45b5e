\* Two calls: to one peer, where one waits behind the other, or to two.
CONSTANTS
    k1 = k1
    k2 = k2
    p1 = p1
    p2 = p2
    p3 = p3
    NoPeer = NoPeer
    None = None
    Calls = {k1, k2}
    Conns = {k1, k2}
    Sizes = {2}
    BufCap = 1
    Peers = {p1, p2, p3}
    Allowed = {p1, p2}
    CtxErrs = {"DeadlineExceeded"}
SPECIFICATION FairSpec
INVARIANTS NoLeak
PROPERTIES XSpec ImplementsTransfers StaysWarm GivenUpNeverStarts EveryCallReturns
CHECK_DEADLOCK FALSE

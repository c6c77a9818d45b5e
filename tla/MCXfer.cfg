CONSTANTS
    c1 = c1
    Conns = {c1}
    Sizes = {1, 2, 3}
    BufCap = 3
    MaxSends = 3
SPECIFICATION MCSpec
INVARIANTS XInv SentMeansReceived CleanBoundary InOrder CleanEndIsWhole
CHECK_DEADLOCK FALSE

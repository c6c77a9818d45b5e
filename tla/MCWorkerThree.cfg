\* Three calls to one peer: a connection is reused, dropped and dialled again.
CONSTANTS
    k1 = k1
    k2 = k2
    k3 = k3
    p1 = p1
    p2 = p2
    NoPeer = NoPeer
    None = None
    Calls = {k1, k2, k3}
    Conns = {k1, k2, k3}
    Sizes = {1}
    BufCap = 1
    Peers = {p1, p2}
    Allowed = {p1}
    CtxErrs = {"Canceled"}
SPECIFICATION Spec
SYMMETRY CallSymmetry
INVARIANTS WInv PoolIsUsable NoFalseBlame OKMeansDelivered
CHECK_DEADLOCK FALSE

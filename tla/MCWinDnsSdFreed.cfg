SPECIFICATION Spec
CONSTANTS
    Contexts = {k1, k2, k3, k4}
    Peers = {p1, p2}
    MaxPosted = 3
    NoPeer = NoPeer
SYMMETRY Symmetry
INVARIANT
    InstanceOutlivesTheApi
CHECK_DEADLOCK FALSE

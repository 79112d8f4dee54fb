SPECIFICATION Spec
CONSTANTS
    Conns = {c1, c2}
    Devices = {d1}
    MaxTries = 2
    BlockingInput = TRUE
    NoConn = NoConn
    NoDevice = NoDevice
INVARIANT NoGhostPairing

SPECIFICATION FairSpec
CONSTANTS
    Conns = {c1, c2}
    Devices = {d1, d2}
    MaxTries = 2
    BlockingInput = FALSE
    NoConn = NoConn
    NoDevice = NoDevice
INVARIANTS
    SavedWasConfirmed
    PendingIsConsistent
PROPERTIES
    ImplementsPairingContract
    PairingIsBounded
    EveryPairEnds

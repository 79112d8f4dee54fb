SPECIFICATION Spec
CONSTANTS
    Backends = {"broadcast", "avahi"}
    Addresses = {x1, x2}
    Interval = 4
    Jitter = 1
    RefreshEvery = 4
    Expiry = 20
    LookupTimeout = 20
    ConnectTimeout = 6
    MaxLosses = 4
PROPERTIES
    OnlySilencePrunes
    DepartedPeerLeaves
    LookupEnds
CHECK_DEADLOCK FALSE

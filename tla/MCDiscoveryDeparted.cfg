SPECIFICATION Spec
CONSTANTS
    Backends = {"windnssd"}
    Addresses = {x1, x2}
    Interval = 4
    Jitter = 1
    RefreshEvery = 4
    Expiry = 20
    LookupTimeout = 20
    ConnectTimeout = 6
    MaxLosses = 4
PROPERTY DepartedPeerLeaves
CHECK_DEADLOCK FALSE

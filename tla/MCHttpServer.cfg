SPECIFICATION FairSpec
CONSTANTS
    Conns = {c1, c2, c3, c4}
    MaxConnections = 2
    MaxUnits = 2
    Base = 2
    MaxWord = 2
    Heads <- SomeHeads
INVARIANTS
    BodyIsExact
    LengthIsExact
    NothingLeftInBuffer
    SinkOutlivesItsCall
PROPERTIES
    ImplementsLife
    EveryConnectionEnds
CHECK_DEADLOCK FALSE

SPECIFICATION MCFairSpec
CONSTANTS
    f1 = f1
    f2 = f2
    d1 = d1
    Conns = {1, 2}
    Devices = {d1}
    Files = {f1, f2}
    SessionIds = {1, 2}
    Size <- SizeTwoFiles
    DirFaults = FALSE
    BlockingInput = FALSE
    NoConn = NoConn
    NoDevice = NoDevice
    NoFile = NoFile
    NoSession = NoSession
INVARIANT OneApprovalAtATime

SPECIFICATION TransferFairSpec
CONSTANTS
    f1 = f1
    Conns = {c1, c2, c3, c4, c5}
    Devices = {d1}
    Files = {f1}
    SessionIds = {s1}
    Size <- SizeTwo
    DirFaults = TRUE
    BlockingInput = FALSE
    MaxStarts = 2
    NoConn = NoConn
    NoDevice = NoDevice
    NoFile = NoFile
    NoSession = NoSession
INVARIANTS
    OkMeansDelivered
    LeavesNothingBehind
    DeviceOutlivesReader
PROPERTIES
    ImplementsSendContract
    EverySendReports

SPECIFICATION MCFairSpec
CONSTANTS
    f1 = f1
    f2 = f2
    d1 = d1
    Conns = {1, 2, 3}
    Devices = {d1, d2}
    Files = {f1, f2}
    SessionIds = {1, 2}
    Size <- SizeTwoFiles
    DirFaults = TRUE
    BlockingInput = FALSE
    NoConn = NoConn
    NoDevice = NoDevice
    NoFile = NoFile
    NoSession = NoSession
INVARIANTS
    PendingExcludesSession
    PendingIsLive
    UploadBelongs
    TtlOnlyWhenIdle
    LiveDirsKept
    TempDirsAccounted
    DeliveredOnce
    ReportIsFinal
PROPERTIES
    UntendedByCommit
    SessionEndsForACause
    KeepsToConnectionLife
    ImplementsContract
    TendedSlotComesFree
    ApprovalIsBounded

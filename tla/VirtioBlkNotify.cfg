SPECIFICATION Spec
CONSTANTS
    QueueSize = 3
    IdxMod = 4
    LastBlock = 0
    LbaMod = 2
    MaxBlocks = 1
    ReadOnly = FALSE
    WriteCaching = TRUE
    ServiceMayFail = FALSE
    NotifyMayFail = TRUE
INVARIANTS
    LockStep
CHECK_DEADLOCK FALSE

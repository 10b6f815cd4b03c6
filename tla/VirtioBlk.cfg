SPECIFICATION FairSpec
CONSTANTS
    QueueSize = 3
    IdxMod = 4
    LastBlock = 2
    LbaMod = 5
    MaxBlocks = 3
    ReadOnly = FALSE
    WriteCaching = TRUE
    ServiceMayFail = TRUE
    NotifyMayFail = FALSE
INVARIANTS
    TypeOK
    RingOutlivesDevice
    HostInMappedMemory
    NothingLeaked
    TransferOnDisk
PROPERTIES
    ImplementsBlockIo
    RequestReturns
CHECK_DEADLOCK FALSE

SPECIFICATION FairSpec
CONSTANTS
    TxQueueSize = 4
    RxQueueSize = 2
    VNET_MAX_PENDING = 64
    IdxMod = 4
    Buffers = {b1, b2}
    Bounce = {}
    Packets = {}
    ServiceMayFail = TRUE
    NotifyMayFail = FALSE
INVARIANTS
    AssertsHold
    StartedIsReset
    TxChainsAccounted
    TxBuffersAccounted
PROPERTIES
    BufferReturned
CHECK_DEADLOCK FALSE

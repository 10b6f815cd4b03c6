SPECIFICATION Spec
CONSTANTS
    TxQueueSize = 4
    RxQueueSize = 2
    VNET_MAX_PENDING = 64
    IdxMod = 4
    Buffers = {b1}
    Bounce = {}
    Packets = {p1}
    ServiceMayFail = FALSE
    NotifyMayFail = TRUE
INVARIANTS
    AssertsHold
CHECK_DEADLOCK FALSE

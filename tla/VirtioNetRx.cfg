SPECIFICATION Spec
CONSTANTS
    TxQueueSize = 2
    RxQueueSize = 4
    VNET_MAX_PENDING = 64
    IdxMod = 4
    Buffers = {b1, b2}
    Bounce = {a1, a2}
    Packets = {p1, p2}
    ServiceMayFail = TRUE
    NotifyMayFail = TRUE
SYMMETRY BufferSymmetry
INVARIANTS
    HostInMappedMemory
    NothingLeaked
    RxChainsAccounted
    PacketsIntact
CHECK_DEADLOCK FALSE

SPECIFICATION FairSpec
CONSTANTS
    NR_RESERVED_ENTRIES = 1
    NR_GRANT_ENTRIES = 4
    BLKIF_MAX_SEGMENTS_PER_REQUEST = 2
    PageSectors = 4
    RING_SIZE = 2
    IdxMod = 4
    Sectors = 7
    SectorSizes = {1, 2}
    DeviceTypes = {"disk", "cdrom"}
    CdRomBlockSize = 4
    Buffers = {0, 2}
    Lbas = {1}
    BlockCounts = {1, 5}
    StoreMayFail = TRUE
INVARIANTS
    TypeOK
    BackendInOwnedPages
    GrantsAccounted
    TransferComplete
    RequestsInSectors
PROPERTIES
    CallsReturn
CHECK_DEADLOCK FALSE

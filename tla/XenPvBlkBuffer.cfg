SPECIFICATION Spec
CONSTANTS
    NR_RESERVED_ENTRIES = 1
    NR_GRANT_ENTRIES = 4
    BLKIF_MAX_SEGMENTS_PER_REQUEST = 2
    PageSectors = 4
    RING_SIZE = 1
    IdxMod = 2
    Sectors = 9
    SectorSizes = {2}
    DeviceTypes = {"disk"}
    CdRomBlockSize = 4
    Buffers = {1}
    Lbas = {0}
    BlockCounts = {1}
    StoreMayFail = FALSE
INVARIANTS
    BuffersAligned
CHECK_DEADLOCK FALSE

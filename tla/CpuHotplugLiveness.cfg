SPECIFICATION FairSpec
CONSTANTS
    PossibleCpuCount = 3
    BootCpuCount = 2
    ArchId <- MCArchId
    HighSlots <- MCHighSlots
    ServiceMayFail = TRUE
    MAX_UINT64 = MAX_UINT64
PROPERTIES
    MmiCompletes
    SeenCpuRegistered
    RequestedCpuEjected
CHECK_DEADLOCK FALSE

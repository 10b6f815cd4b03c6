SPECIFICATION Spec
CONSTANTS
    PossibleCpuCount = 3
    BootCpuCount = 1
    ArchId <- MCArchId
    HighSlots <- MCNoHighSlots
    ServiceMayFail = FALSE
    MAX_UINT64 = MAX_UINT64
INVARIANTS
    TypeOK
    SmbaseUnique
    RunningRegistered
    DefaultSmbaseExclusive
    HaltedIsDoomed
    NoStaleSlot
    NeverFatal
PROPERTIES
    EjectOnlyReleased

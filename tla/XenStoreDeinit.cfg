SPECIFICATION Spec
CONSTANTS
    RING_SIZE = 2
    IdxMod = 4
    Watches = {w1, w2}
    MaxEvents = 1
    Features = {TRUE, FALSE}
INVARIANTS
    WaitsOnOpenEvent
CHECK_DEADLOCK FALSE

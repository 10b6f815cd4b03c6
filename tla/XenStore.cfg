SPECIFICATION FairSpec
CONSTANTS
    RING_SIZE = 2
    IdxMod = 4
    Watches = {w1, w2}
    MaxEvents = 1
    Features = {TRUE, FALSE}
INVARIANTS
    RepliesMatched
    IndexesInRange
    EventsAccounted
PROPERTIES
    CallsReturn
CHECK_DEADLOCK FALSE

SPECIFICATION Spec
CONSTANTS
    Files = {f1, f2}
    Offsets = {o1, o2}
    Slots = {w1, w2}
    NoTarget = NoTarget
    INSTALLED_TABLES_MAX = 2
    MaxCommands = 5
SYMMETRY Symmetry
CHECK_DEADLOCK FALSE
INVARIANTS
    HostPointersValid
    AllOrNothing
    PointersResolved

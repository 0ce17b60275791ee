SPECIFICATION Spec
CONSTANTS
    Worker = {w1, w2}
    Tables = 1
    Replaced = {}
    Refreshed = {}
    ReuseIds = FALSE
    HotPeriod = 1
    BatchSize = 1
    MaxClock = 3
    MaxRows = 2
CHECK_DEADLOCK FALSE
INVARIANTS
    NothingLost

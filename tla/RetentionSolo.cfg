SPECIFICATION Spec
CONSTANTS
    Worker = {w1}
    Tables = 2
    Replaced = {1}
    Refreshed = {2}
    ReuseIds = TRUE
    HotPeriod = 1
    BatchSize = 2
    MaxClock = 3
    MaxRows = 4
INVARIANTS
    ReadRowsKept
    SeenHotKept
CHECK_DEADLOCK FALSE

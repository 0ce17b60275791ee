SPECIFICATION HistorySpec
CONSTANTS
    Worker = {w1}
    Tables = 2
    Replaced = {}
    Refreshed = {}
    ReuseIds = FALSE
    HotPeriod = 0
    BatchSize = 1
    MaxClock = 2
    MaxRows = 4
PROPERTIES
    
    RecomputeKeeps
CHECK_DEADLOCK FALSE

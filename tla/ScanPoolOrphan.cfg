SPECIFICATION Spec
CONSTANTS
    Worker = {w1, w2}
    Customer = {c1, c2}
    Provider = {p1}
    Exporter = {}
    Uuid = {}
    None = none
    MaxClock = 0
    MaxAttempts = 1
    Cadence = 1
    Grace = 1
    MaxCrashes = 0
    RequireLive = TRUE
INVARIANT NoOrphanRun

SPECIFICATION Spec
CONSTANTS
    Worker = {w1}
    Customer = {c1}
    Provider = {p1}
    Exporter = {}
    Uuid = {}
    None = none
    MaxClock = 4
    MaxAttempts = 1
    Cadence = 1
    Grace = 1
    MaxCrashes = 0
    RequireLive = TRUE
INVARIANT OverdueOnce

SPECIFICATION Spec
CONSTANTS
    Worker = {w1, w2}
    Customer = {c1}
    Provider = {p1, p2}
    Exporter = {c1}
    Uuid = {u1}
    None = none
    MaxClock = 0
    MaxAttempts = 2
    Cadence = 1
    Grace = 1
    MaxCrashes = 1
    RequireLive = TRUE
SYMMETRY Interchangeable
INVARIANTS
    TypeOK
    OneExecutor
    CompletedHasEvidence
    LockHasHolder
PROPERTIES
    RetryFollowsFailure
    ImplementsLedger

SPECIFICATION FairSpec
CONSTANTS
    Worker = {w1}
    Customer = {c1}
    Provider = {p1}
    Exporter = {c1}
    Uuid = {}
    None = none
    MaxClock = 1
    MaxAttempts = 2
    Cadence = 1
    Grace = 1
    MaxCrashes = 0
    RequireLive = TRUE
INVARIANTS
    OnePassPerProcess
PROPERTIES
    CadenceKept
    
    FailureIsAlerted

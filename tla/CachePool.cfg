SPECIFICATION Spec
CONSTANTS
    Process = {p1, p2}
    Warmed = {p1}
    Client = {a, b}
    Key = {k1, k2}
    None = none
    TtlSeconds = 0
    Second = 1
    MaxEntries = 1
    MaxClock = 1
    MaxWrites = 1
SYMMETRY Interchangeable
INVARIANTS
    CacheBounded
    StalenessBounded
    SettledWritesVisible

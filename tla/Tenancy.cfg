SPECIFICATION Spec
CONSTANTS
    a = a
    b = b
    p1 = p1
    q1 = q1
    short = short
    long = long
    Process = {p1, q1}
    User = {"u"}
    AccessTtl = 1
    RefreshTtl = 2
    ResetTtl = 2
    MaxRows = 3
    MaxTime = 2
    Gate = {a, b}
    Key = {short, long}
    Window <- Windows
    Limit = 1
    LongWindow = 3
    PurgeInterval = 0
    MaxInstant = 4
    Worker = {p1, q1}
    Provider = {"aws", "oci"}
    MaxAdds = 2
SYMMETRY Servers
INVARIANTS
    SessionsEnd
    UsedOnce
    AttemptsLimited

    
CHECK_DEADLOCK FALSE

SPECIFICATION Spec
CONSTANTS
    a = a
    b = b
    Scanner = {a, b}
    Channel = {"email", "slack"}
    Message = {"m"}
    Critical = {}
    Policies <- DeliveryPolicies
    HoursPerDay = 3
    MaxEvents = 2
    MaxChanges = 2
    MaxHour = 1
    Taker = {a, b}
    Identified = {"e"}
    Anonymous = {"n"}
    MaxBatch = 2
    MaxAlerts = 3
    MaxSecond = 1
    Desk = {a, b}
    Item = {"i", "j"}
    Planned <- SavingsPlanned
    Realized = {1}
    MaxSeen = 2
    Candidate = {"c1", "c2", "c3"}
    Impacts = {1, 2}
    MaxActions = {1, 2}
    MaxTotal = {2, 3}
    Server = {a, b}
    Name = {"n1", "n2"}
    Kills = {9}
    Holding = {"h1", "h2", "h3"}
    Charge <- ProviderCharges
    ChargeForm <- ChargesBilled
    CostRequest <- CostRequests
    TopServices = 2
    TopZones = 2
    QueryServices = 1
    Process = {a, b}
    Schedule = {"daily", "weekly"}
    Day = 1
    Week = 2
    MaxJobs = 2
    MaxExports = 3
    MaxTick = 2
    CsvFile <- CsvFiles
    CsvProvider = {"aws", "oci"}
    MaxIssues = 1
    MaxUploads = 2
INVARIANTS
    
    ExportsKept
    ImportsTrue
    
    WithinGuardrails
    StartupSound
PROPERTIES
    
    FinanceKept
CHECK_DEADLOCK FALSE

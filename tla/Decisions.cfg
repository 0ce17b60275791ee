SPECIFICATION Spec
CONSTANTS
    a = a
    b = b
    Mapper = {a, b}
    RuleForm <- Forms
    Files <- Uploads
    MaxRules = 2
    MaxWork = 5
    TagForm <- TagForms
    Accounts <- ItemsScanned
    Imports <- ItemsImported
    MaxTagRules = 3
    Account = {"p", "q", "r"}
    Weight <- Weights
    Kind = {"account", "compartment"}
    MaxLines = 3
    LineCost <- LineCosts
    Budget = 10
    MaxDiffs = 3
    Provider = {"aws", "oci"}
    Amount = {0, 1}
    MaxSnapshots = 2
    Frequency = {"hourly", "daily"}
    IntervalOf <- Intervals
    HourTicks = 1
    Grace = {1, 2}
    Feed = {"aws", "oci"}
    StaleAfter = 2
    StatusRuns = 2
    FreshRuns = 1
    FreshRows = 2
    MaxRuns = 2
    MaxRows = 4
    MaxNow = 7
    Ingester = {a, b}
    Report <- ReportFiles
    MaxFiles = 3
    MaxObjects = 2
    Lookback = 1
    MaxMonth = 2
    MaxIngests = 3
    Region = {"r1", "r2"}
    Compartment = {"root", "sub"}
    Tenancy = "root"
    Resource = {"i", "v", "w", "x", "k", "g"}
    KindOf <- KindsSwept
    RegionOf <- RegionsSwept
    SweepLimit = 2
    MaxVisible = 2
    MaxPayloads = 2
    MaxChanges = 1
    MaxFaults = 1
    ScanForm <- ScanForms
    Area = {"east", "west"}
    Service = {"svc"}
    ProviderAnswer <- ProviderAnswers
    Least = 1000
    MostRows = 2
    TrendRows = 2
    MaxScans = 3
    Vendor = {"aws", "oci"}
    BillService = {"eks", "vm"}
    ContainerService = {"eks"}
    BillForm <- Bills
    EstateForm <- Estates
    ClusterForm <- Clusters
    FindingForm <- FindingsTried
    HolderForm <- HoldersTried
    ChargeForm <- ChargesTried
    PageSize = {1, 2, 5}
    MaxOffset = 2
INVARIANTS
    
    PagesTrue
    SweepsTrue
    
    HierarchyAddsUp
    SourcesTrue
PROPERTIES
    CostsAllocated
    TagsExplained
    
    
CHECK_DEADLOCK FALSE

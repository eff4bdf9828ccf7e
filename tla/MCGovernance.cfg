CONSTANTS
    MaxEvents = 4
    Limit = 3
    MinLabels = 2
    MinHighRisk = 1
    OverallFloor = 60
    HighRiskFloor = 90
    Handler = {1, 2}
    MaxBuilt = 2
    Versions = {1, 2}
    Process = {1, 2}
    Statements <- StatementsOfEach
    MaxKills = 2
    Client = {1, 2}
    CategoryOf <- CategoryOfEach
    Alert = {"a1"}
    Snapshot = {"s1"}
    Rollback = {"r1"}
    Old = {"e1", "a1", "s1"}
    Batches <- OneBatch
    Thresholds = {"fraud"}
    Required = {"billing"}
    Needed = 1
    MaxRequests = 3
    Role <- RoleOfEach
    Burst = 2
    Unit = 3
    Refill = 2
    Span = 4
    Kind = {"escalated", "resolved"}
    Escalated = {"escalated"}
    Configs <- ThreeConfigs
    SandboxBaseline = 2
    SandboxWindow = 2
    ReplayLimit = 3
    MaxReplayed = 4
    Values = {0, 2, 4, 6}
    Baselines = {1, 3}
    Missing = Missing
    Setups <- ForecastSetups
    Gaps = {1, 2}
    Horizon = 2
    Realert = 2
    HistoryLimit = 4
    LastHour = 4
    CaseCategory = {"fraud", "billing"}
    DriftThresholds <- TwoThresholds
    MinBaseline = 2
    RecentWindow = 2
    BaselineFetch = 4
    RecentFetch = 3
    MaxDecisions = 4
INIT Init
NEXT Next
INVARIANTS
    DetectionIsRight
    BreachClosesGate
    ForecastIsSound
    BurstIsBounded
    ServicesAgree
    RecordedIsApplied
    TrailIsTrue
    VerdictIsFounded
    LiveColumnIsLive
CHECK_DEADLOCK FALSE

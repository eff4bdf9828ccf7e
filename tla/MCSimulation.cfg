CONSTANTS
    Fleet = 3
    Starts <- Scenarios
    Duration = 2
    SplitAt = 1
    SplitMin = 1
    MaxTime = 3
    Lag = 1
    Keep = 2
    Commands <- Accelerations
    RouteLengths = {2, 3, 6}
    StuckTime = 2
    StuckSteps = 3
    AdviceCooldown = 2
    IsolationTime = 2
    Scouts = {0, 1}
    Lifetime = 1
    MaxLag = 1
    Places = {0, 1}
    Announced = 1
    LastStep = 2
    Gate = 2
    FixStd = 1
    Offset = 3
    DriftRates = {0, 1}
    Cap = 4
    Spike = 2
    MaxError = 4
    MaxBias = 1
    MaxHeading = 1
    Parties = 3
    Window = 2
    Threshold = 2
    PairThreshold = 2
    ReplanCooldown = 1
    HoldTime = 2
    BrakeTime = 1
    Halting = {0}
    Nodes = 4
    Subject = 0
    Interval = 2
    Period = 2
    MaxDelay = 2
    MaxHops = 1
    InRange <- Reach
    Size = 3
    Bids = {0, 1}
    MaxIterations = 20
INIT Init
NEXT Next
INVARIANTS
    ConvoysPartition
    RightOfWay
    RelaysDieOut
    NoCircleOfHolds
    BrakeGivesWay
    GoalIsVisited
    StuckIsHelped
    PlacesAreDistinct
    LockoutEnds
    EvidenceWasSensed
    BrakingReachesWheels
CHECK_DEADLOCK FALSE

SPECIFICATION Spec
CONSTANTS
    N = 3
    Timeout = 1
    MaxFuel = 2
    FuelWeight = 1
    Departing = {0}
    Lossy = {0}
    Stragglers = TRUE
INVARIANTS
    MemoryNeverUnderestimates
    LeaderlessElects
PROPERTIES
    VictoryIsJustified

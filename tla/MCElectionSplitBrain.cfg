SPECIFICATION Spec
CONSTANTS
    N = 3
    Timeout = 1
    MaxFuel = 1
    FuelWeight = 1
    Departing = {}
    Lossy = {}
    Stragglers = FALSE
INVARIANT
    ElectedLeaderIsUnique

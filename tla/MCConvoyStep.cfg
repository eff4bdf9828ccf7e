SPECIFICATION Spec
CONSTANTS
    Vehicle = {v1, v2, v3}
    Tank = 2
    Timeout = 1
    WarmUp = 1
    LeaderFails = TRUE
SYMMETRY Symmetry
INVARIANTS
    CommsLossIsSafe
    LookupsResolve

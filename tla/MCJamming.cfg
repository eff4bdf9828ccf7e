CONSTANTS
    Scouts = {0, 1}
    Places = {0, 1}
    Lifetime = 1
    MaxLag = 2
    Announced = 1
    LastStep = 2
SPECIFICATION JammingSpec
INVARIANT LocatedFromDistinctPositions
CHECK_DEADLOCK FALSE

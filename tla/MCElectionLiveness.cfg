SPECIFICATION ReliableSpec
CONSTANTS
    N = 3
    Timeout = 1
    MaxFuel = 1
    FuelWeight = 1
    Departing = {}
    Lossy = {0, 1, 2}
    Stragglers = FALSE
PROPERTIES
    LeaderEventually
    FollowersSettle

CONSTANTS
    Values = {0, 2, 4, 6}
    Baselines = {3}
    Missing = Missing
    Setups <- WatchedForAll
    Gaps = {1}
    Horizon = 2
    Realert = 2
    HistoryLimit = 4
    LastHour = 4
SPECIFICATION ForecastSpec
INVARIANT EveryBreachAnnounced
CHECK_DEADLOCK FALSE

SPECIFICATION BackgroundSpec
CONSTANTS
    a = a
    b = b
    c = c
    Payload = {a, b, c}
    Worker = {w1, w2}
    QueueSize = 2
    MaxTargets = 2
    MaxRetries = 2
    Wanted <- MCWanted
    Unsendable = {b, c}
    Stop = Stop
    NoPayload = NoPayload
    Handler = {h1, h2}
    MaxSchedulers = 3
INVARIANTS
    OneLoopWhenSerial
PROPERTIES
    ImplementsNotification
    EarlyPayloadsSettle
    StoppedLoopEnds
CHECK_DEADLOCK FALSE

INIT PolicyAndAlertsInit
NEXT PolicyAndAlertsNext
CONSTANTS
    Policy = {p1, p2, p3}
    Request = {r1, r2}
    NoPolicy = NoPolicy
    drift = drift
    unsafe = unsafe
    Evaluator = {loop, handler}
    Threshold = {drift}
    Condition = {unsafe}
    SeverityOf <- MCSeverityOf
    Cooldown = 2
    EscalateAfter <- MCEscalateAfter
    MaxTime = 3
    MaxAlerts = 3
    NoRule = NoRule
SYMMETRY Symmetry
INVARIANTS
    LatestActiveWhenAlone
    SomeVersionStaysActive
    VersionsRetained
    CooldownBetweenFirings
    TriggeredIsRecorded
    EscalationPatience

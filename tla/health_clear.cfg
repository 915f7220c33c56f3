SPECIFICATION HealthSpec
CONSTANTS
    Sites = {s1}
    Models = {m1}
    NoModel = NoModel
    NoEntry = NoEntry
    s1 = s1
    m1 = m1
    Threshold = 2
    StreakWindow = 1
    MaxLevel = 2
    BreakerLength <- MCBreakerLength
    Requests = {r1}
    r1 = r1
    MaxTime = 2
    MaxOutcomes = 3
    MaxClears = 1
    MaxCrashes = 1
    MaxFaults = 0
INVARIANTS ClearSurvivesRestart
CHECK_DEADLOCK FALSE

SPECIFICATION FairSpec
CONSTANTS
    Procs = {p1, p2}
    Tokens = {t1, t2, t3, t4}
    NoToken = NoToken
    MaxLog = 5
    CreatedAt <- InIdOrder
    DayOf <- TwoPerDay
    BatchSize = 2
    MaxBatches = 2
    MaxFaults = 2
    MaxRequests = 2
    MaxCleanups = 1
    InOrder = TRUE
    LeaseOutlivesPass = TRUE
    RacingRequests = FALSE
    RequestsAhead = FALSE
INVARIANTS NothingCountedTwice WatermarkMatchesTables OneProjectionAtATime
PROPERTIES AllLogsCounted RecomputeServed ImplementsLedger

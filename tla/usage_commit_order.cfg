SPECIFICATION FairSpec
CONSTANTS
    Procs = {p1}
    Tokens = {t1, t2, t3}
    NoToken = NoToken
    MaxLog = 2
    CreatedAt <- InIdOrder
    DayOf <- TwoPerDay
    BatchSize = 2
    MaxBatches = 2
    MaxFaults = 0
    MaxRequests = 0
    MaxCleanups = 0
    InOrder = FALSE
    LeaseOutlivesPass = TRUE
    RacingRequests = FALSE
    RequestsAhead = FALSE
PROPERTIES AllLogsCounted

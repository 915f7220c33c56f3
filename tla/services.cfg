CONSTANTS
    Readers = {x1, x2}
    x1 = x1
    x2 = x2
    Patterns = {p1}
    p1 = p1
    Groups = {g}
    g = g
    Channels = {c1, u1}
    c1 = c1
    u1 = u1
    RouteOf <- MCRouteOf
    Units = {u1}
    Ttl = 1
    LoadLimit = 0
    MaxNow = 2
    MaxWrites = 1
    MaxBookings = 1
    SnapKeys = {k1, k2}
    k1 = k1
    k2 = k2
    SnapReaders = {x1, x2}
    Loads = {l1, l2, l3}
    l1 = l1
    l2 = l2
    l3 = l3
    NoLoad = NoLoad
    MaxEntries = 1
    TtlMs = 1
    StaleMs = 2
    Persisted = TRUE
    MaxMs = 3
    MaxClears = 1
    Tasks = {t1, t2, t3}
    t1 = t1
    t2 = t2
    t3 = t3
    DedupeKeys = {d1}
    d1 = d1
    NoKey = NoKey
    NoTask = NoTask
    LogLimit = 1
    MaxLogs = 2
    Callers = {x1, x2}
    Endpoints = {1, 2, 3}
    Initially = {1, 2}
    NoEndpoint = NoEndpoint
    Cooldown = 1
    MaxTick = 2
    MaxCalls = 3
    Workers = {x1, x2}
    Flights = {f1, f2}
    f1 = f1
    f2 = f2
    NoFlight = NoFlight
    MaxTokens = 3
    MaxCrashes = 1
    Conns = {x1, x2}
    Scopes = {s1, s2}
    s1 = s1
    s2 = s2
    Bare = Bare
    MaxSessions = 2
    MaxSockets = 2
    MaxInputs = 3
    ModelAccounts = {a1, a2}
    a1 = a1
    a2 = a2
    ModelNames = {n1}
    n1 = n1
    Passes = {x1, x2}
    MaxRuns = 2
    MaxFaults = 1
    ProbeChannels = {1, 2, 3}
    Pooled = {3}
    CredentialOf <- MCCredentialOf
    MaxBatch = 1
    CoolingRecheck = 1
    ActiveRecheck = 2
    CooldownSpan = 2
    MaxTime = 3
    MaxEvents = 1
    MaxRestarts = 1
    Logins = {x1, x2}
    LoginSessions = {o1}
    o1 = o1
    OauthAccounts = {1, 2}
    MaxMarks = 3
SPECIFICATION MCSpec
INVARIANTS ServicesTypeOK StaleWithinLifetime InvalidationTakes JoinsRunningLoads OneRunPerKey LogsFollowCounter EachReadyEndpointOnce NeverPresentsSpentToken StoredTokenIsValid SocketsHaveOwners ContinuesFromLastAnswer RoutesFollowAvailability NoChannelStarves AnswersMatchAccounts
SYMMETRY ServicesSymmetry
VIEW ServicesView
CHECK_DEADLOCK FALSE

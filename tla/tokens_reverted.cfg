CONSTANTS
    Workers = {w1, w2}
    w1 = w1
    w2 = w2
    Flights = {f1}
    f1 = f1
    NoFlight = NoFlight
    MaxTokens = 2
    MaxCrashes = 0
SPECIFICATION TokensSpec
INVARIANTS DiscoveryPreservesToken
CHECK_DEADLOCK FALSE

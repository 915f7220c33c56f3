SPECIFICATION ImpatientSpec
CONSTANTS
    Requests = {r1, r2, r3, r4}
    Channels = {c1, c2}
    Guarded = {c1}
    StateIds = {s1, s2}
    NoChannel = NoChannel
    NoState = NoState
    Limits = {0, 1, 2}
    QueueWaits = {TRUE, FALSE}
    KeepaliveInTime = FALSE
INVARIANTS NothingLeaks
PROPERTIES GrantsWithinLimit FirstComeFirstServed ImplementsSlots WaitEnds

SPECIFICATION PatientSpec
CONSTANTS
    Requests = {r1, r2, r3, r4}
    Channels = {c1}
    Guarded = {c1}
    StateIds = {s1, s2}
    NoChannel = NoChannel
    NoState = NoState
    Limits = {2}
    QueueWaits = {TRUE, FALSE}
    KeepaliveInTime = TRUE
INVARIANT NoWaiterBesideFreeSlot
PROPERTY WaitEnds

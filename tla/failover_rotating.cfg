CONSTANTS
  r1 = r1
  r2 = r2
  r3 = r3
  r4 = r4
  s1 = s1
  c1 = c1
  c2 = c2
  c3 = c3
  u1 = u1
  ma = ma
  mb = mb
  NoSession = NoSession
  NoChannel = NoChannel
  Requests = {r1,r2}
  Sessions = {s1}
  Channels = {c1,u1}
  Accounts = {ma,mb}
  SessionOf <- OneSession
  ForcedChannel <- NothingForced
  Units = {u1}
  Pool <- PoolOfTwo
  Owner <- OwnerIsMa
  SortOrder <- MaFirst
  UnitSticks = FALSE
  Strategy = "round_robin"
  Priority <- C1First
  Siblings <- OwnCredentials
  Guarded = {u1}
  Limit = 1
  MaxAttempts = 2
  FailureThreshold = 2
  OneStepRecords = TRUE
  UsageLimits = TRUE
  StreamsBreak = TRUE
SPECIFICATION FairSpec
INVARIANTS TypeOK StagedCooldown
PROPERTIES EveryRequestEnds
CHECK_DEADLOCK FALSE

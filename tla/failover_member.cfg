CONSTANTS
  r1 = r1
  r2 = r2
  r3 = r3
  r4 = r4
  s1 = s1
  c1 = c1
  c2 = c2
  c3 = c3
  u1 = u1
  ma = ma
  mb = mb
  NoSession = NoSession
  NoChannel = NoChannel
  Requests = {r1}
  Sessions = {}
  Channels = {u1}
  Accounts = {ma,mb}
  SessionOf <- NoSessions
  ForcedChannel <- NothingForced
  Units = {u1}
  Pool <- PoolOfTwo
  Owner <- OwnerIsMa
  SortOrder <- MaFirst
  UnitSticks = FALSE
  Strategy = "weighted"
  Priority <- OneLayer
  Siblings <- OwnCredentials
  Guarded = {}
  Limit = 1
  MaxAttempts = 3
  FailureThreshold = 3
  OneStepRecords = TRUE
  UsageLimits = FALSE
  StreamsBreak = FALSE
SPECIFICATION Spec
INVARIANTS PoolFailoverSwitchesMember
CHECK_DEADLOCK FALSE

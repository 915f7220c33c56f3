CONSTANTS
  r1 = r1
  r2 = r2
  r3 = r3
  r4 = r4
  s1 = s1
  c1 = c1
  c2 = c2
  c3 = c3
  u1 = u1
  ma = ma
  mb = mb
  NoSession = NoSession
  NoChannel = NoChannel
  Requests = {r1,r2,r3}
  Sessions = {s1}
  Channels = {c1,c2}
  Accounts = {}
  SessionOf <- OneSession
  ForcedChannel <- TesterForcesC1
  Units = {}
  Pool <- NoPool
  Owner <- NoOwner
  SortOrder <- NoMembers
  UnitSticks = FALSE
  Strategy = "weighted"
  Priority <- C1First
  Siblings <- SharedCredential
  Guarded = {c1,c2}
  Limit = 1
  MaxAttempts = 2
  FailureThreshold = 2
  OneStepRecords = FALSE
  UsageLimits = TRUE
  StreamsBreak = FALSE
SPECIFICATION Spec
INVARIANTS AttemptsAreFresh GivesUpOnlyWhenExhausted ChargedForOwnFailures SlotsHeldWhileServing
PROPERTIES RefusedOnlyWhenNothingLeft CooldownLasts KeepsContract
CHECK_DEADLOCK FALSE

SPECIFICATION SubmissionSpec
CONSTANTS
  JobIds = {1, 2}
  Tokens = {}
  NoToken = NoToken
  Tenants = {t1}
  Priorities = {5}
  IdemKeys = {k1}
  NoKey = NoKey
  RetryLimits = {1}
  FaultKinds = {"redis", "db", "crash"}
  MaxFaults = 1
  Workers = {}
  Requests = {r1, r2, r3}
  RateLimit = 1
  KeyTTL = 2
  MaxStall = 1
  MaxTime = 2
SYMMETRY Interchangeable
INVARIANTS SubmissionTypeOK RateLimitHolds AnswersAgree ConflictOnlyAfterCancel
CHECK_DEADLOCK FALSE

SPECIFICATION FairSpec
CONSTANTS
  JobIds = {1}
  Tokens = {c1, c2}
  NoToken = NoToken
  Tenants = {t1}
  Priorities = {5}
  IdemKeys = {}
  NoKey = NoKey
  RetryLimits = {2}
  FaultKinds = {"crash", "terminate", "redis", "db", "lease", "drain"}
  MaxFaults = 2
  Workers = {w1}
  Schedulers = {s1}
  NoScheduler = NoScheduler
  Loops = {"due", "reap", "dead", "pending"}
  DeadListLimit = 200
  MaxQueue = 2
  MaxRequests = 0
  MayStall = FALSE
PROPERTIES EventuallySettled

SPECIFICATION Spec
CONSTANTS
  JobIds = {1}
  Tokens = {c1, c2}
  NoToken = NoToken
  Tenants = {t1}
  Priorities = {5}
  IdemKeys = {}
  NoKey = NoKey
  RetryLimits = {2}
  FaultKinds = {"crash", "terminate", "redis", "db", "lease", "drain"}
  MaxFaults = 1
  Workers = {w1, w2}
  Schedulers = {s1}
  NoScheduler = NoScheduler
  Loops = {"due", "reap", "pending"}
  DeadListLimit = 200
  MaxQueue = 2
  MaxRequests = 1
  MayStall = TRUE
SYMMETRY ProcessSymmetry
INVARIANTS TypeOK ClaimsOwned NoStrandedJob
PROPERTIES ImplementsStore

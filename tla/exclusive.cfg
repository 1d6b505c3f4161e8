SPECIFICATION Spec
CONSTANTS
  JobIds = {1}
  Tokens = {c1, c2, c3}
  NoToken = NoToken
  Tenants = {t1}
  Priorities = {5}
  IdemKeys = {}
  NoKey = NoKey
  RetryLimits = {0, 2}
  FaultKinds = {"crash", "db", "lease"}
  MaxFaults = 2
  Workers = {w1, w2}
  Schedulers = {s1, s2}
  NoScheduler = NoScheduler
  Loops = {"due", "reap"}
  DeadListLimit = 200
  MaxQueue = 2
  MaxRequests = 1
  MayStall = FALSE
SYMMETRY ProcessSymmetry
INVARIANTS HolderHasRun AttemptAccounting RetryBudget ExclusiveExecution
PROPERTIES SucceededIsFinal

SPECIFICATION Spec
CONSTANTS
  JobIds = {1}
  Tokens = {c1, c2}
  NoToken = NoToken
  Tenants = {t1}
  Priorities = {5}
  IdemKeys = {}
  NoKey = NoKey
  RetryLimits = {3}
  FaultKinds = {"lease"}
  MaxFaults = 1
  Workers = {w1}
  Schedulers = {s1, s2}
  NoScheduler = NoScheduler
  Loops = {"due"}
  DeadListLimit = 200
  MaxQueue = 2
  MaxRequests = 0
  MayStall = FALSE
SYMMETRY ProcessSymmetry
PROPERTIES BackoffRespected

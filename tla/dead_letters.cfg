SPECIFICATION FairSpec
CONSTANTS
  JobIds = {1, 2}
  Tokens = {c1, c2}
  NoToken = NoToken
  Tenants = {t1}
  Priorities = {5}
  IdemKeys = {}
  NoKey = NoKey
  RetryLimits = {1}
  FaultKinds = {}
  MaxFaults = 0
  Workers = {w1}
  Schedulers = {s1}
  NoScheduler = NoScheduler
  Loops = {"due", "reap", "dead"}
  DeadListLimit = 1
  MaxQueue = 2
  MaxRequests = 0
  MayStall = FALSE
PROPERTIES DeadIsListed

SPECIFICATION FairCronSpec
CONSTANTS
  JobIds = {1, 2, 3, 4, 5}
  Tokens = {}
  NoToken = NoToken
  Tenants = {t1}
  Priorities = {5}
  IdemKeys = {}
  NoKey = NoKey
  RetryLimits = {3}
  FaultKinds = {"crash", "terminate", "db"}
  MaxFaults = 1
  Workers = {}
  Schedulers = {s1, s2}
  NoScheduler = NoScheduler
  Loops = {}
  DeadListLimit = 200
  MaxQueue = 2
  ScheduleIds = {i1, i2}
  Names = {n1, n2}
  Periods = {2}
  Zones = {1}
  CronBatchSize = 2
  Horizon = 3
INVARIANTS CronTypeOK OncePerOccurrence DeletedFiresOnce
PROPERTIES NextRunAdvances EventuallyFired

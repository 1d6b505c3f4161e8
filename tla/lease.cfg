SPECIFICATION LeaseSpec
CONSTANTS
  ClaimTTL = 60
  BeatEvery = 5
  BeatTTL = 15
  ReapEvery = 5
  MaxVacancy = 5
  MaxPutOff = 10
  HttpTimeout = 25
  MaxLag = 4
  MaxFlight = 15
  Backoffs = {0, 30, 3599, 9000}
  Attempts = {1, 6, 7, 20}
  MaxBackoff = 3600
  IntBits = 16
INVARIANTS LiveClaimKept CrashDetected RetryDelayInRange
CHECK_DEADLOCK FALSE

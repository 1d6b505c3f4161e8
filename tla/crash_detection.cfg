SPECIFICATION LeaseSpec
CONSTANTS
  ClaimTTL = 60
  BeatEvery = 5
  BeatTTL = 15
  ReapEvery = 5
  MaxVacancy = 5
  MaxPutOff = 0
  HttpTimeout = 25
  MaxLag = 4
  MaxFlight = 15
  Backoffs = {30}
  Attempts = {1}
  MaxBackoff = 3600
  IntBits = 16
INVARIANTS NodeLossRecovered
CHECK_DEADLOCK FALSE

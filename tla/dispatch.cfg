SPECIFICATION DispatchSpec
CONSTANTS
  FaultKinds = {"db", "redis"}
  MaxFaults = 1
  Tenants = {t1, t2}
  Weights = {0}
  Inactive = Inactive
  Entries = {e1, e2}
  Loaded = {5, 10}
  Changing = {t1}
  MaxPolls = 1
INVARIANTS DispatchTypeOK HigherLaneFirst ReloadNotLost
PROPERTY HeadOfLaneServed

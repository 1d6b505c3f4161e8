SPECIFICATION FairLocksSpec
CONSTANTS
  JobIds = {1}
  Tokens = {c1, c2}
  NoToken = NoToken
  Tenants = {tn}
  Priorities = {5}
  IdemKeys = {}
  NoKey = NoKey
  RetryLimits = {1, 2}
  Sessions = {p, q}
INVARIANTS LocksTypeOK SuccessOnce
PROPERTIES ImplementsContract RequeueClosesRun TransactionsEnd
CHECK_DEADLOCK FALSE

SPECIFICATION RateSpec
CONSTANTS
  Requests = {q1, q2}
  Sessions = {s1}
  Bearers = {b1}
  Accounts = {a1}
  Addresses = {i1}
  AccountOf <- MCAccountOf
  Carried <- MCCarried
  Window = 1
  Limits = {1, 2}
  MaxTime = 2
  MaxRequests = 3
  NoRow = NoRow
  NoRequest = NoRequest
SYMMETRY Symmetric
INVARIANTS PublicRequestsCount NothingIsChargedTwice RetryAfterIsExact
CHECK_DEADLOCK FALSE

SPECIFICATION Spec
CONSTANTS
  Requests = {r1}
  Workers = {w1, w2}
  Tokens = {k1, k2, k3}
  Logins = {s1}
  Confirmations = {c1, c2}
  MaxAttempts = 3
  MaxPassword = 2
  MaxFaults = 1
  Nobody = Nobody
  NoToken = NoToken
  NoRequest = NoRequest
INVARIANTS SessionsFollowPassword OneLinkWorks
PROPERTIES ProcessedIsFinal RequestsAreSettled
CHECK_DEADLOCK FALSE

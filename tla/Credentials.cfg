SPECIFICATION Spec
CONSTANTS
  Requests = {q1, q2}
  Tokens = {t1, t2}
  Agents = {a1, a2}
  Keys = {k1, k2}
  Creds = {c1, c2, c3}
  TokenLimit = 1
  AgentLimit = 1
  Nobody = Nobody
  Operator = Operator
  None = None
SYMMETRY Symmetric
INVARIANTS OneLiveCredential OneRotationPerKey DisablingRevokes LimitsHold

SPECIFICATION Spec
CONSTANTS
  Tasks = {t1}
  Agents = {a1, a2}
  Runs = {r1, r2}
  Keys = {k1}
  Conns = {c1}
  MaxTaskEntries = 1
  NoAgent = NoAgent
  NoRun = NoRun
  NoKey = NoKey
  Human = Human
  Keep = Keep
  NoRequest = NoRequest
SYMMETRY Symmetric
INVARIANTS TypeOK QueueIsFree ReviewIsBacked StateIsSound
PROPERTIES ManagedWorkEndsInOutput ImplementsOwnership

SPECIFICATION Spec
CONSTANTS
  Watchers = {w1, w2}
  Runs = {r1, r2, r3}
  MaxRetained = 1
  Faults = {"crash"}
  NoRun = NoRun
  NoRecord = NoRecord
SYMMETRY Symmetric
INVARIANT CleanRefusesLiveRuns
CHECK_DEADLOCK FALSE

SPECIFICATION Spec
CONSTANTS
  Watchers = {w1, w2}
  Runs = {r1, r2, r3}
  MaxRetained = 2
  Faults = {"save", "remove", "discard", "survive", "crash", "count", "skip"}
  NoRun = NoRun
  NoRecord = NoRecord
SYMMETRY Symmetric
INVARIANTS TypeOK RetentionIsBounded NoOrphans OneGroupPerWatcher LiveRunKeepsWorktree
CHECK_DEADLOCK FALSE

CONSTANTS
  NRules = 2
  Rows = 4
  BatchSize = 2
  RowBudget = 3
  MaxFaults = 1
  MaxBatches = 5
  Lapsing = {2}
  MaxLate = 2
  None = None
SPECIFICATION Spec
INVARIANTS BatchesAreFair ReportIsHonest
PROPERTIES RunsEnd
CHECK_DEADLOCK FALSE

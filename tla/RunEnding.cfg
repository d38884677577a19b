SPECIFICATION Spec
CONSTANTS
  Environment = {"failures", "refusals", "interrupt", "descendants", "recycling"}
  PostExitReadAttempts = 5
  NoRequest = NoRequest
INVARIANTS TypeOK ClearedMeansGone
PROPERTY SupervisionEnds
CHECK_DEADLOCK FALSE

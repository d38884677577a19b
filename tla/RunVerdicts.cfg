SPECIFICATION Spec
CONSTANTS
  Environment = {"person", "rival", "failures"}
  PostExitReadAttempts = 1
  NoRequest = NoRequest
INVARIANTS VerdictIsBacked DisposableWroteNothing DeliveredIsReported
CHECK_DEADLOCK FALSE

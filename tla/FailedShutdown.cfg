SPECIFICATION Spec
CONSTANTS
  Processes = {p1}
  FatalCodes = {1, 7}
  Overlap = FALSE
  None = None
INVARIANT
  FailedShutdownIsAServerError
CHECK_DEADLOCK FALSE

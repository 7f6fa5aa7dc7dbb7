SPECIFICATION Spec
CONSTANTS
  Processes = {p1, p2}
  FatalCodes = {1}
  Overlap = TRUE
  None = None
INVARIANT
  RunningIsServing
CHECK_DEADLOCK FALSE

SPECIFICATION FairSpec
CONSTANTS
  Processes = {p1, p2}
  FatalCodes = {1, 7}
  Overlap = FALSE
  None = None
INVARIANTS
  TypeOK
  HandlersFindTheirManager
  ShutdownIsComplete
  ChannelIsAtThePath
  ExitCodeHasItsCause
  FatalErrorsAreCounted
PROPERTY
  ShutdownEnds
CHECK_DEADLOCK FALSE

SPECIFICATION FairSpec
CONSTANTS
  Keys = {plc1}
  degradedErrorThreshold = 2
  degradedWindow = 2
  timeout = 1
  MaxErrors = 3
  Ports = {p4840, p48040}
  EnvPort = None
  DotEnvPort = None
  DefaultPort = p4840
  None = None
INVARIANTS
  TypeOK
  DegradedAsDocumented
  VerdictHasItsCause
  ChecksEndInTime
PROPERTY
  BurstsPass

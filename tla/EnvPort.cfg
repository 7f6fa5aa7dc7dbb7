SPECIFICATION Spec
CONSTANTS
  Keys = {plc1}
  degradedErrorThreshold = 2
  degradedWindow = 2
  timeout = 1
  MaxErrors = 1
  Ports = {p4840, p48040}
  EnvPort = None
  DotEnvPort = p48040
  DefaultPort = p4840
  None = None
INVARIANT
  CommandsFindTheServer

SPECIFICATION FairSpec
CONSTANTS
  d1 = d1
  d2 = d2
  t1 = t1
  t2 = t2
  t3 = t3
  num = num
  bool = bool
  off = off
  on = on
  Keys = {d1, d2, Unnamed}
  NodeIds = {t1, t2, t3}
  Types = {num, bool}
  Values = {off, on}
  Unnamed = Unnamed
  NoDevice = NoDevice
  NoNode = NoNode
  NoTag = NoTag
  NoKey = NoKey
  Orphan = Orphan
  Configs <- FaultyFiles
  Rejected = {t3}
  DeleteMayFail = TRUE
  MaxErrors = 3
INVARIANTS
  RegisteredDevicesAreComplete
  ConnectedIffRegistered
  ConfiguredOrReported
  TagCountMatchesAddressSpace
  FailuresAreCounted
  OnlyKnownDevicesAnswer
PROPERTY
  RunsToCompletion

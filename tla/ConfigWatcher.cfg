SPECIFICATION Spec
CONSTANTS
  Versions = {v1, v2, v3}
  Partial = Partial
  Absent = Absent
  Nothing = Nothing
  Debounce = 3
  Off = Off
  Replaced = TRUE
  StartupEdits = FALSE
  LateStart = FALSE
INVARIANTS
  TypeOK
  NoLostEdit
PROPERTIES
  FollowsTheFile
  QuietAfterStop

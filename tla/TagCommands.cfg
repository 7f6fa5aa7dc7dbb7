SPECIFICATION FairSpec
CONSTANTS
  Unset = Unset
  Blank = Blank
  NaN = NaN
  Null = Null
  NoValue = NoValue
  None = None
  Unsupported = Unsupported
  plc1 = plc1
  plc2 = plc2
  trim = trim
  empty = empty
  other = other
  temp = temp
  level = level
  state = state
  n1 = n1
  n2 = n2
  n3 = n3
  n4 = n4
  n5 = n5
  Configs <- MCConfigs
  Nodeset <- MCNodeset
  NodeIds = {n1, n2, n3, n4, n5}
  CommandLines <- MCCommandLines
  Values = {2, NaN}
  defaultThreshold = 0
  MaxChanges = 2
INVARIANTS
  TypeOK
  AnswersWhatWasAsked
  PrintsEveryChange
PROPERTIES
  OldValueIsWhatGetAnswers
  NoStraySubscription

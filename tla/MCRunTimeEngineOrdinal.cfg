SPECIFICATION Spec
CONSTANTS
  Obj <- MCObj
  NoObj <- MCNoObj
  NoneObj <- MCNoneObj
  NotAField <- MCNotAField
  Dangling <- MCDangling
  Operators <- MCConversions
  ReadScales <- MCReadScales
  MaxMaps = 2
  MaxCalls = 2
  MaxClones = 2
PROPERTIES
  NotModified
CHECK_DEADLOCK FALSE

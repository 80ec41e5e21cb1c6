SPECIFICATION Spec
CONSTANTS
  Obj <- MCObj
  NoObj <- MCNoObj
  NoneObj <- MCNoneObj
  NotAField <- MCNotAField
  Dangling <- MCDangling
  Operators <- MCOperators
  ReadScales <- MCReadScales
  MaxMaps = 2
  MaxCalls = 2
  MaxClones = 2
INVARIANTS
  OneOwner
  OutsideNotReadOnly
PROPERTIES
  ImplementsPure
CHECK_DEADLOCK FALSE

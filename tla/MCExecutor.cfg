SPECIFICATION Spec
CONSTANTS
  Names = {"a", "b", "l"}
  Obj <- MCObj
  EnableCache = TRUE
  Programs <- MCPrograms
  StartInt = 1
  LastInt = 2
  MaxSpins = 1
INVARIANTS
  TypeOK
  NoFaults
  Ownership
  HeldIsNeeded
  FreedAtEnd
  CacheFresh
PROPERTIES
  ReadOnlyKept
  ImplementsSemantics
  RunEnds

SPECIFICATION Spec
CONSTANTS
  Names = {"a", "b", "l"}
  Obj <- MCObj
  EnableCache = TRUE
  Programs <- AccuTwicePrograms
  StartInt = 1
  LastInt = 2
  MaxSpins = 1
INVARIANTS
  NoFaults

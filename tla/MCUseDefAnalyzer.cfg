SPECIFICATION Spec
CONSTANTS
  Codes <- MCCodes
INVARIANTS
  WellNested
  LastUseExact
  DeletesExact
  InputsExact
PROPERTIES
  AnalysisEnds
CHECK_DEADLOCK FALSE

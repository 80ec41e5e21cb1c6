SPECIFICATION FairSpec
CONSTANTS
  NrSamples = 3
  NrTimeSteps = 3
  FilterTimesteps <- Either
  Weights = {0, 1, 3}
  Schemes = {"SIR", "RR"}
  Forking = {TRUE, FALSE}
  Failing = {TRUE, FALSE}
  SuspendBy = {"reportState", "report"}
  ResumeBy = {"readState", "readmap"}
  None = None
INVARIANTS
  GraphIsAncestry
  ResidualKeeps
  NoGaps
  LossesAreNoticed
PROPERTIES
  ImplementsPopulation
  RunEnds
CHECK_DEADLOCK FALSE

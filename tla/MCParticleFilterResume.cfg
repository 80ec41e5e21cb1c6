SPECIFICATION Spec
CONSTANTS
  NrSamples = 3
  NrTimeSteps = 3
  FilterTimesteps <- Two
  Weights = {0, 1, 3}
  Schemes = {"SIR", "RR"}
  Forking = {TRUE, FALSE}
  Failing = {FALSE}
  SuspendBy = {"reportState"}
  ResumeBy = {"readmap"}
  None = None
INVARIANTS
  ResumesClone
CHECK_DEADLOCK FALSE

SPECIFICATION FairSpec
CONSTANTS
  NrSamples = 4
  NrCPUs = 2
  CpuCount = 3
  MaxRuns = 2
INVARIANTS
  AtMostProcessors
  ListIsProcesses
  LossesAreKnown
PROPERTIES
  ImplementsEnsemble
  RunEnds
CHECK_DEADLOCK FALSE

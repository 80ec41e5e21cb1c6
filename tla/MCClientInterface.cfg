SPECIFICATION FairSpec
CONSTANTS
  o1 = o1
  o2 = o2
  b1 = b1
  b2 = b2
  b3 = b3
  b4 = b4
  Null = Null
  Caller = Caller
  Outputs <- MCOutputs
  Buffers <- MCBuffers
  LastInts = {0, 1, 3}
INVARIANTS
  NothingDangles
  EveryStepOnce
  OutputReadable
PROPERTIES
  BuffersKept
  ErrorsStay
  StepwiseEnds
CHECK_DEADLOCK FALSE

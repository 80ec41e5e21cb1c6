SPECIFICATION Spec
CONSTANTS
  NrRows = 2
  NrCols = 2
  Ldds <- MCLdds
  Streams <- MCStreams
  Dems <- Few
  Materials <- Few
  DiffusionArgs <- MCArgs
  NrIterations = 2
  None = None
INVARIANTS
  TermOfVisit

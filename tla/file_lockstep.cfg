SPECIFICATION FairSpec
CONSTANTS
  Undo = FALSE
  Numbers = 3
  MaxRuns = 3
CHECK_DEADLOCK FALSE
INVARIANTS
  InStep
  GetsWhatWasSent
PROPERTIES
  RunEnds

SPECIFICATION Spec
CONSTANTS
  Cells = {a, b}
  NULL = NULL
  LastNames <- TwoNames
  Rests = {1}
  JunkName <- Junk
  MaxFile = 2
  MaxRuns = 2
CHECK_DEADLOCK FALSE
INVARIANTS
  DeletedIsGone

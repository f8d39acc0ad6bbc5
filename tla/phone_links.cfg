SPECIFICATION Spec
CONSTANTS
  Cells = {a, b, c}
  NULL = NULL
  LastNames <- TwoNames
  Rests = {1}
  JunkName <- Junk
  MaxFile = 3
  MaxRuns = 2
CHECK_DEADLOCK FALSE
SYMMETRY Symmetry
INVARIANTS
  TypeOK
  LinkedBothWays
PROPERTIES
  ActsOnSequence

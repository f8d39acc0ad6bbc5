SPECIFICATION PairsSpec
CONSTANTS
  Lines = {"a"}
  Capacity = 3
  Last = 3
  MaxMsg = 3
  MaxLines = 5
  MaxRuns2 = 3
  Total = 5
  Room = 2
  Numbers = 3
  Widths = {1, 2}
  ReadSize = 4
  MaxOld = 9
  Values = {1, 2}
  Batch = 1
  Slots = 6
  MaxOverlaps = 1
CHECK_DEADLOCK FALSE
INVARIANTS
  PairsTypeOK
  OneText
  FoundWhileSending
  OnePerRun
  NothingMissing
  ReadsAreAsked
  PrintedInTime
  RightWhileApart
PROPERTIES
  ExitEndsSender
  BothEnd

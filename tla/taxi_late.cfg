SPECIFICATION FairSpec
CONSTANTS
  Drivers = {d1}
  NoDriver = NoDriver
  MaxDrivers = 1
  MaxMsg = 2
  FdLimit = 6
  TaskTimes <- AnySign
  Punctual = FALSE
INVARIANTS
  NoMutualBlock
  BacklogBound
  BusyLeftIsUpperBound
PROPERTIES
  CommandReturns
  BacklogOnlyFromTimeouts
  TaskReplacedOnlyWhenLate

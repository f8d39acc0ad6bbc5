SPECIFICATION FairSpec
CONSTANTS
  Drivers = {d1, d2}
  NoDriver = NoDriver
  MaxDrivers = 2
  MaxMsg = 2
  FdLimit = 6
  TaskTimes = {2}
  Punctual = TRUE
PROPERTIES
  ImplementsDispatch
  BusyIsShown

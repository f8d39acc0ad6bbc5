SPECIFICATION Spec
CONSTANTS
  Drivers = {d1}
  NoDriver = NoDriver
  MaxDrivers = 1
  MaxMsg = 2
  FdLimit = 6
  TaskTimes = {3}
  Punctual = FALSE
PROPERTIES
  BusyDriverGetsNoTask

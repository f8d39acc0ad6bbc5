SPECIFICATION FairSpec
CONSTANTS
  Messages = 10
  MaxWriters = 3
  MaxReaders = 3
  MaxKills = 3
CHECK_DEADLOCK FALSE
PROPERTIES
  FirstIsHandedOver
  ImplementsHandoff

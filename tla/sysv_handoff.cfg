SPECIFICATION FairSpec
CONSTANTS
  Undo = TRUE
  Messages = 5
  MaxLeft = 6
CHECK_DEADLOCK FALSE
INVARIANTS
  AllButLast
PROPERTIES
  ImplementsHandoff
  PermissionCarries

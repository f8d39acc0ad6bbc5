SPECIFICATION Spec
CONSTANTS
  c1 = c1
  c2 = c2
  c3 = c3
  Clients = {c1, c2, c3}
  MaxClients = 2
  BufferSize = 2
  MaxTyped <- Lines
  MaxStarts <- Runs
CHECK_DEADLOCK FALSE
SYMMETRY Symmetry
INVARIANTS
  OneSlotEach
PROPERTIES
  HeardGoesUp
  ImplementsSessions

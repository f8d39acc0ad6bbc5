SPECIFICATION PollFairSpec
CONSTANTS
  Clients = {c1, c2}
  Lines = {0, 2, 3, 12}
  Garbage <- NoGarbage
  Pieces = {2}
  Listener = Listener
  Closed = Closed
  MaxBacklog = 2
CHECK_DEADLOCK FALSE
INVARIANTS
  PollTypeOK
  PollsListenerAlone
  ServedInOrder
  InStep
  OwnResult
PROPERTIES
  EveryoneServed

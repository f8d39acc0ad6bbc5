SPECIFICATION ForkFairSpec
CONSTANTS
  Clients = {c1, c2, c3}
  Lines = {3}
  Garbage <- NoGarbage
  Pieces = {2}
  MaxBacklog = 2
  MaxProcs = 2
  Prompt = {c1}
CHECK_DEADLOCK FALSE
INVARIANTS
  OneChildEach
PROPERTIES
  ServedAnyway

SPECIFICATION FairSpec
CONSTANTS
  h1 = h1
  h2 = h2
  Handle <- MCHandle
  Procedure = {"connectionUpdate"}
  MaxCommands = 3
  MaxLinks = 2
  MaxFaults = 1
INVARIANTS
  ResponsesAreOwn
PROPERTIES
  ServesInOrder
  EveryCommandSettles
CHECK_DEADLOCK FALSE

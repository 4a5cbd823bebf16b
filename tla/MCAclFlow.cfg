SPECIFICATION FairSpec
CONSTANTS
  h1 = h1
  h2 = h2
  Handle <- MCHandle
  NumPackets = 2
  MaxSdus = 3
  MaxFragments = 2
  MaxLinks = 3
  MaxOverreport = 0
INVARIANTS
  IInv
  PacketsInOrder
PROPERTIES
  EverySduSettles
CHECK_DEADLOCK FALSE

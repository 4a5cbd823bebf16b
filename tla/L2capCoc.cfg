SPECIFICATION FairSpec
CONSTANTS
  Initiators = {"local", "peer"}
  RxGrant = 2
  LowWater = 1
  InitialTxCredits = 1
  CreditLimit = 1
  MaxSdus = 2
  MaxExchanged = 3
  MaxFrames = 2
  MaxGrants = 1
  MaxViolations = 0
INVARIANTS
  CreditsAgree
  SdusInOrder
  ReleasedOnce
PROPERTIES
  EverySduArrives
CHECK_DEADLOCK FALSE

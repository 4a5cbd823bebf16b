SPECIFICATION Spec
CONSTANTS
  Initiators = {"local"}
  RxGrant = 2
  LowWater = 1
  InitialTxCredits = 1
  CreditLimit = 65535
  MaxSdus = 2
  MaxExchanged = 4
  MaxFrames = 2
  MaxGrants = 1
  MaxViolations = 0
INVARIANTS
  TxCreditsAgree
CHECK_DEADLOCK FALSE

SPECIFICATION FairSmpSpec
CONSTANTS
  None = None
  Offers <- MCOffers
  Defaults <- MCDefaults
  Rounds = 2
  Passkeys = {1, 2}
  MayBeBonded = TRUE
  SmpBudgets <- MCBudgets
INVARIANTS PairingAgrees LateAnswersIgnored BondsMatch
PROPERTIES EverySideSettles
CHECK_DEADLOCK FALSE

SPECIFICATION ManagerSpec
CONSTANTS
  Device <- MCDevice
  Connect = {1, 2, 3}
  Scan = {1, 2}
  WhiteListSize = 3
  Budgets <- MCBudgets
  None = None
  MaxStarts = 4
  Refusals = 2
  StopsEarly = FALSE
INVARIANTS  ScanServesEveryScanner InitiatorServesEveryConnect 
PROPERTIES OutcomeIsFinal EveryCallerServed
CHECK_DEADLOCK FALSE

SPECIFICATION FairClientSpec
CONSTANTS
  None = None
  Uuid = {"u", "v"}
  MaxHandle = 8
  Databases <- MCShort
  NumsToFind = {1, 8}
  Invalidations <- MCInvalidations
  Budgets <- MCBudgets
PROPERTIES EveryProcedureEnds
CHECK_DEADLOCK FALSE

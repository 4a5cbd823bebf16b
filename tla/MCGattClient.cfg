SPECIFICATION FairClientSpec
CONSTANTS
  None = None
  Uuid = {"u", "v"}
  MaxHandle = 8
  Databases <- MCDatabases
  NumsToFind = {1, 8}
  Invalidations <- MCInvalidations
  Budgets <- MCBudgets
INVARIANTS   StagedOnlyInReliable
PROPERTIES EveryProcedureEnds
CHECK_DEADLOCK FALSE

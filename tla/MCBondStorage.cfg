SPECIFICATION StorageSpec
CONSTANTS
  Key = {"a", "b", "c", "d"}
  Capacity = 2
  Peer = {1, 2}
  Budgets <- MCBudgets
INVARIANTS
  CacheIsSound
  BondsSurviveRestart
  
CHECK_DEADLOCK FALSE

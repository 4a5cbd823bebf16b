SPECIFICATION FairSpec
CONSTANTS
  end1 = end1
  end2 = end2
  Side <- MCSide
  DefaultMtu = 1
  RxMtu <- MCRxMtu
  Budgets <- MCBudgets
  LongCommands = FALSE
INVARIANTS
  TransactionsMatch
  MtuRespected
PROPERTIES
  ProceduresInOrder
  EveryTransactionEnds
CHECK_DEADLOCK FALSE

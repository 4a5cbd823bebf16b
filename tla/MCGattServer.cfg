SPECIFICATION Spec
CONSTANTS
  Peer = {p, q}
  Service = {"a", "b", "c"}
  Includes <- MCIncludes
  Allowed <- MCAllowed
  BuiltIn = 2
  Limit = 13
  Proposals = {0, 5}
  DbBudgets <- MCDbBudgets
  Attribute = {"v", "w", "x"}
  Handler <- MCHandler
  MaxLength = 2
  QueueSize = 2
  MaxPieces = {0, 3}
  MaxExecutions = 2
INVARIANTS DbMatchesServices ApplicationKnowsSubscribers  ExecutionsAreFaithful
PROPERTIES EveryExecutionAnswered
CHECK_DEADLOCK FALSE

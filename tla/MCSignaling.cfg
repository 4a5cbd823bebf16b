SPECIFICATION FairSpec
CONSTANTS
  MaxId = 3
  Retries = 2
  LateAnswers = FALSE
  SigBudgets <- MCBudgets
INVARIANTS
  AnswersAreTruthful
  UpdatesAreSerial
  RequestsAreTheirOwn
PROPERTIES
  EveryUpdateAnswered
CHECK_DEADLOCK FALSE

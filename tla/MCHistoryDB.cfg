SPECIFICATION Spec
CONSTANTS
  Workers = {w1, w2}
  Conns = {c}
  Excluded = {}
  QueueBudget = 2
  QueueLength = 1
  StatementsFail = TRUE
  BatchSize = 2
  MaxMessages = 3
  Settings <- MCSettings
CHECK_DEADLOCK FALSE
VIEW AllButCleared
INVARIANTS BudgetIsKept WaitedForIsWritten IndexAnswersForAll
PROPERTY ChangesReturn

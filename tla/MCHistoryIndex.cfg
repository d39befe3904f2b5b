SPECIFICATION Spec
CONSTANTS
  Workers = {w1, w2}
  Conns = {c}
  Excluded = {}
  QueueBudget = 2
  QueueLength = 1
  StatementsFail = FALSE
  BatchSize = 2
  MaxMessages = 1
  Settings <- MCReopened
CHECK_DEADLOCK FALSE
INVARIANT IndexIsWhole

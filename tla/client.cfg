CONSTANTS
  a = a
  b = b
  Calls = {a, b}
  Unset = Unset
  Closed = Closed
  Settings <- MCSettings
  MaxWord <- Word
SPECIFICATION FairSpec
INVARIANTS TypeOK HandedOutPooled RetryBudget DelayFormula
PROPERTIES PoolNeverReplaced CallsReturn
CHECK_DEADLOCK FALSE

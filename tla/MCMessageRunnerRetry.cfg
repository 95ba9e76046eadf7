SPECIFICATION Spec
CONSTANTS
  Workers = {w1}
  Buffer = 1
  MaxRetries = 1
  LogEnd = 2
  MaxRestarts = 0
  MaxRejoins = 0
INVARIANT
  RetryLeavesUncommitted
CHECK_DEADLOCK FALSE

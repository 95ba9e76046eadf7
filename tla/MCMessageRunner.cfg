SPECIFICATION LiveSpec
CONSTANTS
  Workers = {w1, w2}
  Buffer = 1
  MaxRetries = 1
  LogEnd = 2
  MaxRestarts = 1
  MaxRejoins = 1
INVARIANTS
  ReturnReports
PROPERTIES
  NoCommitAfterClose
  KeepsContract
  ServesHandlers
  ShutdownCompletes
  UndisturbedRunFinishes
CHECK_DEADLOCK FALSE

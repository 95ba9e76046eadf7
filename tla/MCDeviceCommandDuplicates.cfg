SPECIFICATION Spec
CONSTANTS
  Workers = {w1}
  Prefetch = 1
  MaxRetries = 1
  MaxRestarts = 1
  MaxRejoins = 0
  Commands = {s1}
  SetCommands = {s1}
  AckDeadline = 1
  MaxTime = 2
  MaxReplies = 1
PROPERTY
  DuplicateRequestsAreNoOps
CHECK_DEADLOCK FALSE

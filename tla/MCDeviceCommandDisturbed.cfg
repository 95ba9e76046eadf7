SPECIFICATION LiveSpec
CONSTANTS
  Workers = {w1}
  Prefetch = 1
  MaxRetries = 1
  MaxRestarts = 1
  MaxRejoins = 1
  Commands = {c1}
  SetCommands = {}
  AckDeadline = 1
  MaxTime = 2
  MaxReplies = 1
PROPERTY
  AcceptedIsSettled
CHECK_DEADLOCK FALSE

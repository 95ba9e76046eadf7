SPECIFICATION Spec
CONSTANTS
  Workers = {w1, w2}
  Prefetch = 1
  MaxRetries = 1
  MaxRestarts = 0
  MaxRejoins = 0
  Commands = {s1}
  SetCommands = {s1}
  AckDeadline = 1
  MaxTime = 2
  MaxReplies = 2
SYMMETRY WorkerSymmetry
INVARIANTS
  NothingUnrecorded
  LastReplyShown
  SendsBounded
PROPERTY
  KeepsPromise
CHECK_DEADLOCK FALSE

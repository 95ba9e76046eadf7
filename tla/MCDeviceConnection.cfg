SPECIFICATION MCSpec
CONSTANTS
  Workers <- MCWorkers
  Devices = {d1}
  Times = {1, 2}
  LogEnd = 2
  Prefetch = 1
  MaxRetries = 1
  MaxRestarts = 1
  MaxRejoins = 1
INVARIANTS
  NewestWins
  PublishedWasApplied
  NewestPublished
PROPERTIES
  Converges
  OfflineKeyFades
CHECK_DEADLOCK FALSE

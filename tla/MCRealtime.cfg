SPECIFICATION MCSpec
CONSTANTS
  a = a
  b = b
  t1 = t1
  t2 = t2
  t3 = t3
  bad = bad
  Clients = {a, b}
  Console = b
  Tenants = {t1, t2, t3}
  Owners <- MCOwners
  Malformed = bad
  Log <- MCLog
  Buffer = 1
  InboxSize = 2
  Conns = {1, 2}
  Budgets <- MCBudgets
INVARIANTS
  NothingSkipped
  OnlyOwnTenants
  CommittedWasBroadcast
  InboxIsConsistent
PROPERTIES
  GoneAreUnregistered
  BroadcastsEnd
  Reconnects
CHECK_DEADLOCK FALSE

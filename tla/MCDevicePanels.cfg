SPECIFICATION Spec
CONSTANTS
  Devices = {d1, d2}
  NoDevice = NoDevice
  Names = {n1}
  MaxTrend = 1
  PageSize = 2
  Budgets <- MCBudgets
  MaxAsks = 2
INVARIANTS
  NoForeignData
  SettledShowsSelection
  LoadingIsAwaited
  EventsOnce
CHECK_DEADLOCK FALSE

SPECIFICATION Spec
CONSTANTS
  t1 = t1
  t2 = t2
  p1 = p1
  p2 = p2
  p3 = p3
  Tenants = {t1, t2}
  Products = {p1, p2, p3}
  None = None
  TenantOf <- MCTenantOf
  Sizes = {1, 2}
  InitialRows <- MCRows
  Budgets <- MCBudgets
  MaxAsks = 2
INVARIANTS
  SettledShowsSelection
  PageExists
  IndicatorsAreAwaited
  CreateFitsTenant
CHECK_DEADLOCK FALSE

SPECIFICATION Spec
CONSTANTS
  t1 = t1
  t2 = t2
  p1 = p1
  p2 = p2
  p3 = p3
  d1 = d1
  d2 = d2
  d3 = d3
  d4 = d4
  s1 = s1
  s2 = s2
  Tenants = {t1, t2}
  Products = {p1, p2, p3}
  Devices = {d1, d2, d3, d4}
  None = None
  TenantOf <- MCTenantOf
  ProductOf <- MCProductOf
  Services <- MCServices
  Writable = {p2, p3}
  Budgets <- MCBudgets
INVARIANTS
  SelectionSettles
  CommandFitsDevice
  ResultIsOfSelection
  IndicatorsAreAwaited
CHECK_DEADLOCK FALSE

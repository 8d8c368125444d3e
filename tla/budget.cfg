\* Two tasks of one tenant, completions that stray from another, two months
\* and a caps file that changes between restarts.
SPECIFICATION BudgetFairSpec
\* Every task may be settled: the model stops there.
CHECK_DEADLOCK FALSE
CONSTANTS
  k1 = k1
  k2 = k2
  NoCap = NoCap
  NoRow = NoRow
  NoReservation = NoReservation
  Tenants = {"acme", "beta"}
  Tasks = {k1, k2}
  Owner <- BothOfAcme
  Estimates = {2}
  Costs = {3}
  CapFiles <- CapsMove
  MaxPeriod = 2
  MaxStrays = 1
  MaxReloads = 1
INVARIANTS LedgerIsExact SettlesItsOwn
PROPERTIES OneBooking BooksSettle

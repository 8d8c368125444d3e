\* Two tenants with a task each, two overlapping sweeps, halts set and lifted.
SPECIFICATION HaltFairSpec
CHECK_DEADLOCK FALSE
CONSTANTS
  Tenants = {"a", "b"}
  Tasks = {"k1", "k2"}
  Owner <- OneEach
  FlipKeys = {"fleet", "a"}
  Early = {"k2"}
  Sweeps = {1, 2}
  MaxFlips = 3
  MaxFaults = 1
INVARIANTS HaltIsScoped
PROPERTIES HaltReaches SweepingStops

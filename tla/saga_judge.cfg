\* Expected violation of CompletedWritesUnwound.
SPECIFICATION Spec
CONSTANTS
  N = 3
  Plans <- ParallelPlans
  JudgeSampled = {2}
  Budgets <- NoBudgets
  MaxUse = 0
  Rate = 1
INVARIANT CompletedWritesUnwound

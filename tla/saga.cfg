\* Tasks of three steps in every plan shape, with and without a budget.
SPECIFICATION FairSpec
CONSTANTS
  N = 3
  Plans <- AllPlans
  JudgeSampled = {2}
  Budgets <- WithAndWithout
  MaxUse = 1
  Rate = 2
INVARIANTS UnwindIsSound ReportIsTrue
PROPERTIES DispatchWithinBudget TaskEndsHonestly ImplementsContract

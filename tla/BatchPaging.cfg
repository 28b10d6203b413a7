CONSTANTS
  Targets <- MCTargets
  Budgets <- MCBudgets
SPECIFICATION FairSpec
INVARIANTS
  BudgetIsKept
  QuietSweepsAreComplete
PROPERTIES
  ActiveWorkIsRead
  EveryTargetGetsATurn

CONSTANTS
  Ids = {1, 2, 3}
  Entries <- MCEntries
  Budgets <- MCBudgets
  Needs = {1, 2}
SPECIFICATION PlanSpec
CHECK_DEADLOCK FALSE
INVARIANTS
  PlannerRight

SPECIFICATION Spec
CONSTANTS
  Runtimes = {r1, r2}
  Models = {"small", "large"}
  r1 = r1
  r2 = r2
  Serves <- MCServes
  Size <- MCSize
  Estimates <- MCEstimates
  Outside <- MCOutside
  Setups <- MCSetups
  Grain = 2
  Epsilon = 1
  Remote = {r2}
  MaxRestarts = 1
  None = None
INVARIANTS EntriesTrue JointBudget HeadroomKept
PROPERTIES NoGrowthWhenFull
CHECK_DEADLOCK FALSE

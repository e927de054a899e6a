\* Four models, one of them as large as the three others, and requests that
\* overestimate the small ones.
CONSTANTS
  a = a
  b = b
  d = d
  e = e
  c1 = c1
  c2 = c2
  pin = pin
  lru1 = lru1
  Models <- MCFour
  Policies = {lru1, pin}
  PinnedPolicies = {pin}
  StartupPolicy = pin
  Size <- MCFourSizes
  Estimates <- MCFourEstimates
  Budget = 5
  Callers <- MCOneCaller
  MaxCalls = 0
  MaxOps = 3
  MaxCrashes = 1
  DirtyRetryOom = FALSE
  None = None
SPECIFICATION Spec
SYMMETRY MCSymmetry
CHECK_DEADLOCK FALSE
INVARIANTS
  NoOvercommit
  ChargesCoverEngine
  FenceCoversEngineLoad
  SlotsHonest
PROPERTIES
  UnconfirmedStays

\* An unconfirmed load of a model adopted at start-up.
CONSTANTS
  a = a
  b = b
  d = d
  e = e
  c1 = c1
  c2 = c2
  pin = pin
  lru1 = lru1
  Models <- MCPair
  Policies = {lru1, pin}
  PinnedPolicies = {pin}
  StartupPolicy = pin
  Size <- MCPairSizes
  Estimates <- MCPairExact
  Budget = 3
  Callers <- MCOneCaller
  MaxCalls = 1
  MaxOps = 2
  MaxCrashes = 1
  DirtyRetryOom = FALSE
  None = None
SPECIFICATION Spec
CHECK_DEADLOCK FALSE
INVARIANTS
  UnconfirmedKeepsFootprint

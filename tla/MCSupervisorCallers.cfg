\* Two callers whose requests may overestimate, and may ask for the same load
\* with different policies.
CONSTANTS
  a = a
  b = b
  d = d
  e = e
  c1 = c1
  c2 = c2
  pin = pin
  lru1 = lru1
  Models <- MCPair
  Policies = {lru1, pin}
  PinnedPolicies = {pin}
  StartupPolicy = pin
  Size <- MCPairSizes
  Estimates <- MCPairEstimates
  Budget = 3
  Callers <- MCTwoCallers
  MaxCalls = 2
  MaxOps = 2
  MaxCrashes = 1
  DirtyRetryOom = FALSE
  None = None
SPECIFICATION FairSpec
CHECK_DEADLOCK FALSE
INVARIANTS
  ChatsProtected
PROPERTIES
  OkMeansDone
  CallersAnswered

\* Proxied sends through a provider and two origins, and its local executions.
CONSTANTS
  p = p
  c1 = c1
  c2 = c2
  Requests = {r1, r2, r3}
  Providers = {p}
  Connections = {c1, c2}
  Routes <- MCRoutes
  Threshold <- MCThreshold
  Recovery <- MCRecovery
  Delays <- MCDelays
  MaxNow = 3
  MaxSends = 4
  Nobody = Nobody
SPECIFICATION FairSpec
INVARIANTS ProbesAccounted OneProbeAtATime
PROPERTIES GatesMoveInTurn GatesSafe ProbesAnswered
CHECK_DEADLOCK FALSE

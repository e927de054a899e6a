\* Two calls, free or paid, with one key or none.
CONSTANTS
  Requests = {r1, r2}
  Keys = {k}
  NoKey = NoKey
  Estimates = {0, 2}
  Bills = {1}
  NoBill = NoBill
  Nobody = Nobody
SPECIFICATION Spec
INVARIANTS GuardsSound MoneyFollowsWork BillsAgree LogTellsTruth
SYMMETRY MCSymmetry
CHECK_DEADLOCK FALSE

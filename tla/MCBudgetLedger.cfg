\* Amounts that fit, overrun and overflow; two zones that fall in different
\* periods at times; configured, dropped and configured again at any time.
CONSTANTS
  s1 = s1
  s2 = s2
  utc = utc
  bangkok = bangkok
  NoConfig = NoConfig
  Ids = {r1, r2}
  Scopes = {s1, s2}
  Zones = {utc, bangkok}
  Offset <- MCOffset
  PeriodLength = 2
  Ttl = 1
  Limits = {1}
  Gates = {"paid_only"}
  Costs = {1}
  Charges = {2, 5}
  MaxAmount = 5
  MaxNow = 2
SYMMETRY MCSymmetry
SPECIFICATION Spec
INVARIANTS BooksBalance WithinLimits AnswersStand HoldsVisible
PROPERTIES NothingUndone
CHECK_DEADLOCK FALSE

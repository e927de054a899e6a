CONSTANTS
  Modes = {"data", "event"}
  MaxLen = 5
SPECIFICATION FairStreamSpec
INVARIANTS CleanEndsTrue EventsMatch
 
CHECK_DEADLOCK FALSE

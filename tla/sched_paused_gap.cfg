CONSTANTS
  t = t
  None = None
  Tx = {t}
  Period = 3
  Base = 1
  MaxDelay = 2
  Overlap = 4
  Backfill = 8
  Late = 1
  CallTime = 0
  MaxTime = 14
  MaxStops = 0
  MaxAttempt = 3
  Hazards = {"fail", "pause"}
SPECIFICATION Spec
CHECK_DEADLOCK FALSE
INVARIANTS
  WindowReachesBack

CONSTANTS
  t = t
  None = None
  Tx = {t}
  Period = 3
  Base = 1
  MaxDelay = 2
  Overlap = 4
  Backfill = 8
  Late = 1
  CallTime = 1
  MaxTime = 6
  MaxStops = 1
  MaxAttempt = 2
  Hazards = {"fail", "auth", "pause", "request"}
SPECIFICATION Spec
CHECK_DEADLOCK FALSE
INVARIANTS
  SchedulerInv
  NothingLost
  FiresAttended
PROPERTIES
  FreshAtFire
  WaitsAhead

CONSTANTS
  a = a
  b = b
  c = c
  d = d
  NoRow = NoRow
  NoId = NoId
  NoWork = NoWork
  Tx = {a}
  Card = {a}
  Stable = {}
  Pairs <- NoPairs
  Alike <- NobodyAlike
  Slots = {1, 2}
  PendingImport = TRUE
  ManualMatch = TRUE
  Casts <- Everyone
  Rough <- Everyone
  Faults = {"lost_reply", "crash", "db_loss", "user_delete", "delete_refused"}
SPECIFICATION LiveSpec
PROPERTIES
  EventuallySettled
  EventuallyCleared
  SuccessClears

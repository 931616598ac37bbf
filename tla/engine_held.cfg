CONSTANTS
  a = a
  b = b
  c = c
  d = d
  NoRow = NoRow
  NoId = NoId
  NoWork = NoWork
  Tx = {a, b}
  Card = {a}
  Stable = {b}
  Pairs <- NoPairs
  Alike <- NobodyAlike
  Slots = {1}
  PendingImport = TRUE
  ManualMatch = TRUE
  Casts <- Everyone
  Rough <- Everyone
  Faults = {"lost_reply", "crash", "native_match", "delete_refused"}
SPECIFICATION Spec
INVARIANTS
  NoLogicError
PROPERTIES
  ImplementsBooking
  RetryDeletesSafely
  SuccessClosesHolds

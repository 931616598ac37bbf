CONSTANTS
  a = a
  b = b
  c = c
  d = d
  NoRow = NoRow
  NoId = NoId
  NoWork = NoWork
  Tx = {a, b, c, d}
  Card = {d}
  Stable = {}
  Pairs <- OnePair
  Alike <- BothAlike
  Slots = {1}
  PendingImport = TRUE
  ManualMatch = TRUE
  Casts <- SmallCasts
  Rough <- RoughCasts
  Faults = {"lost_reply", "crash", "db_loss", "user_delete", "native_match", "delete_refused", "no_leg"}
SPECIFICATION Spec
INVARIANTS
  TypeOK
  TrackedIsReal
  LedgerInv
  NoSurplus
  NoDoubleBooking
  DeletedMeansGone
PROPERTIES
  KeepsTracked
  SuccessSettlesAll

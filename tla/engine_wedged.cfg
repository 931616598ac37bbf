CONSTANTS
  a = a
  b = b
  c = c
  d = d
  NoRow = NoRow
  NoId = NoId
  NoWork = NoWork
  Tx = {a}
  Card = {a}
  Stable = {}
  Pairs <- NoPairs
  Alike <- NobodyAlike
  Slots = {1, 2}
  PendingImport = TRUE
  ManualMatch = TRUE
  Casts <- Everyone
  Rough <- Everyone
  Faults = {"user_delete"}
SPECIFICATION Spec
INVARIANTS
  NoLogicError

CONSTANTS
  r = r
  c = c
  d = d
  None = None
  Typed = Typed
  Row = {r}
  Client = {c, d}
  MaxReadds = 3
  Faults = {"lost_reply", "crash", "native_match", "resubmit"}
SPECIFICATION Spec
SYMMETRY Interchangeable
CHECK_DEADLOCK FALSE
INVARIANTS
  ReaddInv
  IdsInOrder
  OneEntry
  RowNamesEntry
PROPERTIES
  RecordsOnce

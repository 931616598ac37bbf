CONSTANTS
  t = t
  u = u
  None = None
  Tx = {t, u}
  Backfill = 1
  Overlap = 1
  Retention = 2
  Late = 1
  MaxDay = 5
SPECIFICATION Spec
INVARIANTS
  WindowInv
  PrunedStaysOut
PROPERTIES
  HoldsAreSettled
SYMMETRY Interchangeable

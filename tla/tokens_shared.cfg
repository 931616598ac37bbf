CONSTANTS
  c = c
  d = d
  Caller = {c, d}
  MaxGrants = 4
  LoginMayRevoke = TRUE
SPECIFICATION Spec
INVARIANTS
  TokenInv
  NeverStranded
PROPERTIES
  SavedTokenWorks
SYMMETRY Interchangeable

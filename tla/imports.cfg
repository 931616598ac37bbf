CONSTANTS
  n = n
  x = x
  y = y
  c = c
  d = d
  p = p
  q = q
  None = None
  NoRow = NoRow
  Name = {n}
  PayeeId = {p, q}
  Content = {x, y}
  NameIn <- SameName
  Reserved = {x, y}
  Client = {c, d}
SPECIFICATION Spec
INVARIANTS
  ImportInv
  WrittenOffIsGone
  LearnedRight
PROPERTIES
  CommitCompletes
  Anchored
  PayeeRestored
SYMMETRY Interchangeable

CONSTANTS
  N = 3
  Candidates <- ThreeAccounts
  Window = 1
SPECIFICATION Spec
CHECK_DEADLOCK FALSE
INVARIANTS
  ReturnsMutual
  OneTransferEach
  LoopInv

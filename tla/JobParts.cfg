SPECIFICATION Spec
CONSTANTS
  Writer = {w1, w2}
  Content = {c1, c2}
  MaxTime = 4
  N = 3
INVARIANTS
  LedgerTypeOK
  OrderlyLedgerVerifies
  TamperEvident
  NoDanglingLink
  ExecutionTypeOK
  SuccessIsKept
  PinnedRunsRevert
SYMMETRY Symmetry
CHECK_DEADLOCK FALSE

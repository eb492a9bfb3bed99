SPECIFICATION LedgerSpec
CONSTANTS
  Writer = {w1, w2}
  Content = {a, b}
  MaxTime = 3
INVARIANTS
  OnlyTamperingIsReported
CHECK_DEADLOCK FALSE

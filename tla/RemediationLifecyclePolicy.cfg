SPECIFICATION Spec
CONSTANTS
  Plan = {p1}
  Job = {j1, j2}
  Request = {r1, r2}
  h1 = h1
  Host = {h1}
  HostOf <- MCHostOf
  Outcome = {"SUCCESS", "ROLLED_BACK"}
  NoPlan = NoPlan
  NoJob = NoJob
  NoOne = NoOne
  Nowhere = Nowhere
  MaxCalls = 4
INVARIANTS
  PolicyIsNotBypassed
CHECK_DEADLOCK FALSE

SPECIFICATION FairSpec
CONSTANTS
  Plan = {p1}
  Job = {j1, j2}
  Request = {r1, r2}
  h1 = h1
  Host = {h1}
  HostOf <- MCHostOf
  Outcome = {"SUCCESS", "ROLLED_BACK"}
  NoPlan = NoPlan
  NoJob = NoJob
  NoOne = NoOne
  Nowhere = Nowhere
  MaxCalls = 3
INVARIANTS
  TypeOK
  RunsAreApproved
  SuccessIsReal
  RunningJobIsAttended
  DecisionsAndRunsAreAudited
  OneRunPerHost
PROPERTIES
  JobsSettle
CHECK_DEADLOCK FALSE

SPECIFICATION Spec
CONSTANTS
  plan1 = plan1
  Button <- MCButton
  Minute = 2
  Limit = 2
  MaxRecords = 2
  MaxOthers = 1
  HostCount = 5
  Attempts = 2
  Tag = {"2.0.0", "3.0.0"}
  Name = {n1, n2}
  Url = {u1, u2}
  None = None
  Caller = {caller1}
  Vulnerability = {v1}
  MaxTickets = 1
  MaxRestarts = 1
  User = {user1, user2}
  Cve = {cve1}
  Listed = {cve1}
INVARIANT RollbackRestores
CHECK_DEADLOCK FALSE

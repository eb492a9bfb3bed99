SPECIFICATION FairSpec
CONSTANTS
  a1 = a1
  server = server
  serverId = serverId
  clientId = clientId
  Agent = {a1}
  Server = server
  Proc <- MCProc
  Identity = {serverId, clientId}
  IdentityOf <- MCIdentityOf
  CA = CA
  Missing = Missing
  Torn = Torn
  RootFirst = {a1}
  MaxPairs = 6
  MaxFaults = 3
  MaxStops = 1
INVARIANTS
  TypeOK
  Trust
  UnknownIsExcused
PROPERTIES
  SilentAfterStop
  Recovers
CHECK_DEADLOCK FALSE

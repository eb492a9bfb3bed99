SPECIFICATION Spec
CONSTANTS
  r1 = r1
  Request = {r1}
  Asset <- MCAsset
  Plan <- MCPlan
  Providers = 2
  MaxRetries = 3
  MaxTicks = 2
INVARIANTS
  TypeOK
  PlansAreLogged
  FallbackIsLastResort
PROPERTIES
  ImplementsPlanIntake
  RequestsEnd
CHECK_DEADLOCK FALSE

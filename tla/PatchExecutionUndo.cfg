SPECIFICATION ExecutionSpec
CONSTANT N = 2
INVARIANTS
  RolledBackMeansReverted
CHECK_DEADLOCK FALSE

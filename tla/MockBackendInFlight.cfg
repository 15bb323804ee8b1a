SPECIFICATION Spec
CONSTANTS
  MaxConns = 2
  MaxItems = 1
  Ten = 1
  Broken = {}
  Says = {"a", "b"}
  MaxSaid = 1
CHECK_DEADLOCK FALSE
INVARIANTS
  OneTaskInFlight

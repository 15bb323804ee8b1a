SPECIFICATION Spec
CONSTANTS
  MaxRetries = 2
  MaxConnections = 2
  MaxEvents = 1
CHECK_DEADLOCK FALSE
INVARIANTS
  ClosedAnyway

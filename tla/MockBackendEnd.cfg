SPECIFICATION Spec
CONSTANTS
  MaxConns = 1
  MaxItems = 1
  Ten = 1
  Broken = {}
  Says = {"a", "approve", "end"}
  MaxSaid = 3
CHECK_DEADLOCK FALSE
PROPERTIES
  SessionsEnd

SPECIFICATION Spec
CONSTANTS
  MaxConns = 1
  MaxItems = 1
  Ten = 1
  Broken = {}
  Says = {"c", "interrupt", "approve"}
  MaxSaid = 3
CHECK_DEADLOCK FALSE
PROPERTIES
  WindowStaysOpen

SPECIFICATION Spec
CONSTANTS
  MaxConns = 1
  MaxItems = 1
  Ten = 1
  Broken = {}
  Says = {"a", "query"}
  MaxSaid = 2
CHECK_DEADLOCK FALSE
INVARIANTS
  FirstIntentIsTaken

SPECIFICATION Spec
CONSTANTS
  MaxConns = 3
  MaxItems = 1
  Ten = 1
  Broken = {}
  Says = {"b", "query"}
  MaxSaid = 1
CHECK_DEADLOCK FALSE
INVARIANTS
  CompletedAfterDone
PROPERTIES
  ResumedTasksComplete

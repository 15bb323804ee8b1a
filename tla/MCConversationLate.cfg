SPECIFICATION Spec
CONSTANTS
  Tasks = {t1}
  Turns = {u1}
  NoTask = NoTask
  NoEvent = NoEvent
  NoSnapshot = NoSnapshot
  StoreKind = "redis"
  Faults = {"crash", "late_save"}
  Blocks = {}
  MaxInbox = 1
  MaxCalls = 2
CHECK_DEADLOCK FALSE
INVARIANTS
  StoreMatchesAgent

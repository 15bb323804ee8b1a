SPECIFICATION Spec
CONSTANTS
  Tasks = {t1}
  Turns = {u1}
  NoTask = NoTask
  NoEvent = NoEvent
  NoSnapshot = NoSnapshot
  StoreKind = "memory"
  Faults = {}
  Blocks = {}
  MaxInbox = 1
  MaxCalls = 1
CHECK_DEADLOCK FALSE
INVARIANTS
  SavesActiveTasksOnly

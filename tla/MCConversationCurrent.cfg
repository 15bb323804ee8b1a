SPECIFICATION Spec
CONSTANTS
  Tasks = {t1, t2}
  Turns = {u1}
  NoTask = NoTask
  NoEvent = NoEvent
  NoSnapshot = NoSnapshot
  StoreKind = "memory"
  Faults = {}
  Blocks = {"user_confirm", "external"}
  MaxInbox = 1
  MaxCalls = 1
CHECK_DEADLOCK FALSE
INVARIANTS
  CurrentTaskWaitsOnUser

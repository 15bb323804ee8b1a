SPECIFICATION Spec
CONSTANTS
  Tasks = {t1, t2}
  Turns = {u1}
  NoTask = NoTask
  NoEvent = NoEvent
  NoSnapshot = NoSnapshot
  StoreKind = "memory"
  Faults = {}
  Blocks = {"user_confirm"}
  MaxInbox = 1
  MaxCalls = 2
CHECK_DEADLOCK FALSE
PROPERTIES
  ResumeKeepsWhoIsWaiting

SPECIFICATION Spec
CONSTANTS
  Tasks = {t1}
  Turns = {u1}
  NoTask = NoTask
  NoEvent = NoEvent
  NoSnapshot = NoSnapshot
  StoreKind = "redis"
  Faults = {"drop", "crash", "store_error", "speak_error", "lost_turn", "unknown_event"}
  Blocks = {"user_confirm", "external"}
  MaxInbox = 1
  MaxCalls = 2
CHECK_DEADLOCK FALSE
INVARIANTS
  StoreMatchesAgent
PROPERTIES
  TerminalEventsAreHandled
  StopCompletes

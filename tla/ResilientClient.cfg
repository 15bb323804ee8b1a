SPECIFICATION Spec
CONSTANTS
  MaxRetries = 2
  MaxConnections = 3
  MaxEvents = 2
CHECK_DEADLOCK FALSE
INVARIANTS
  TypeOK
  NothingSkipped
  ReconnectsResume
  GivesUpInTime
  ClosedForGood
PROPERTIES
  OutageEnds
  ImplementsTransport

SPECIFICATION Spec
CONSTANTS
  MaxConns = 1
  MaxItems = 3
  Ten = 1
  Broken = {2}
  Says = {"a", "c", "interrupt", "approve", "other", "end"}
  MaxSaid = 4
CHECK_DEADLOCK FALSE
INVARIANTS
  TypeOK
  WritesAreAgreed
  WishesAreGranted
PROPERTIES
  ApprovedScriptsEnd

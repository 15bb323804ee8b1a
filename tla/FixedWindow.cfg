SPECIFICATION Spec
CONSTANTS
  Calls = {c1, c2, c3}
  Limit = 2
  Window = 3
  MaxCount = 4
INVARIANTS
  TypeOK
  AtMostTwice
PROPERTIES
  LockoutEnds

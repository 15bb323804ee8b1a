SPECIFICATION Spec
CONSTANTS
  Users = {u1, u2}
  Capacity = 6
  Rate = 2
  Cost = 3
  MaxTime = 5
SYMMETRY Interchangeable
INVARIANTS
  TypeOK
  BurstBounded
  RefusedOnlyWhenFast

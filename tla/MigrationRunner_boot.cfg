SPECIFICATION Spec
CONSTANTS
  Instance = {i1, i2, i3}
  Count = 3
  Optional <- SecondOnly
  Slow = FALSE
  None = None
INVARIANTS
  TypeOK
  MigrationsExclusive
  MigrationsInOrder
  ServesMigratedData
PROPERTIES
  LockKeptByOthers
CHECK_DEADLOCK FALSE
SYMMETRY InstanceSymmetry

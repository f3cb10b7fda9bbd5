SPECIFICATION Spec
CONSTANTS
  Instance = {i1, i2}
  Count = 3
  Optional <- SecondOnly
  Slow = FALSE
  None = None
INVARIANT
  NeverHalfMigrated
CHECK_DEADLOCK FALSE
SYMMETRY InstanceSymmetry

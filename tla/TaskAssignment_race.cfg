SPECIFICATION Spec
CONSTANTS
  Person = {ann, bob}
  Request = {r1, r2, r3, r4}
  Attempts = 2
  Faults = TRUE
  Nobody = Nobody
  None = None
INVARIANTS
  TypeOK
  NoticesAreTrue
  LastAssigneeKnows
  ConflictMeansContention
PROPERTIES
  RevCountsTransitions
CHECK_DEADLOCK FALSE
SYMMETRY TaskSymmetry

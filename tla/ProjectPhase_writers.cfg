SPECIFICATION Spec
CONSTANTS
  t1 = t1
  t2 = t2
  Task <- MCTask
  Request = {r1, r2}
  Last = 2
  Commands <- AllCommands
  DragDrop = TRUE
  Faults = TRUE
  Keep = Keep
  None = None
INVARIANTS
  TypeOK
  FinishedPhaseAdvances
PROPERTIES
  AutoAdvancesOneStep
CHECK_DEADLOCK FALSE
SYMMETRY PhaseSymmetry

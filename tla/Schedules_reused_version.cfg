SPECIFICATION Spec
CONSTANTS
  a = a
  b = b
  x = x
  y = y
  s1 = s1
  s2 = s2
  Schedule <- MCSchedule
  Employee <- MCEmployee
  Slot <- MCSlot
  Staff <- SoloStaff
  Overlap <- MCOverlap
  Padded <- MCPadded
  Request = {r1, r2, r3, r4}
  Commands <- SoloCommands
  ProjectSync = TRUE
  Crashes = FALSE
  None = None
  Keep = Keep
INVARIANTS
  RelocationExclusive
CHECK_DEADLOCK FALSE
SYMMETRY RequestSymmetry

SPECIFICATION Spec
CONSTANTS
  a = a
  b = b
  x = x
  y = y
  s1 = s1
  s2 = s2
  Schedule <- MCSchedule
  Employee <- MCEmployee
  Slot <- MCSlot
  Staff <- MCStaff
  Overlap <- MCOverlap
  Padded <- MCPadded
  Request = {r1, r2, r3}
  Commands <- PinnedCommands
  ProjectSync = FALSE
  Crashes = TRUE
  None = None
  Keep = Keep
INVARIANTS
  TypeOK
  RelocationExclusive
  RefusedHoldsNoClaims
PROPERTIES
  RelocatesWhatItClaimed
  VersionsOnlyGrow
  PinnedWriteSawCurrent
CHECK_DEADLOCK FALSE
SYMMETRY RequestSymmetry

SPECIFICATION FairSpec
CONSTANTS
  a = a
  b = b
  x = x
  y = y
  s1 = s1
  s2 = s2
  Schedule <- MCSchedule
  Employee <- MCEmployee
  Slot <- MCSlot
  Staff <- MCStaff
  Overlap <- MCOverlap
  Padded <- MCPadded
  Request = {r1, r2}
  Commands <- PinnedCommands
  ProjectSync = TRUE
  Crashes = TRUE
  None = None
  Keep = Keep
PROPERTIES
  ClaimsReleased
CHECK_DEADLOCK FALSE

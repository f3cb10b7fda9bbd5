SPECIFICATION Spec
CONSTANTS
  Item = {i1, i2}
  Value = {v1, v2}
  Status = {s1, s2, s3}
  Single = {one}
  Last = 3
  Class <- Classes
  Length = 3
  DayEnd = 4
  Hub <- Hubs
  Town = 15
  MaxCalls <- Bounds
  MaxFaults = 1
  None = None
SYMMETRY Symmetric
INVARIANTS
  TypeOK
  ShowsOwn
  PagesSettle
  StatusSettles
  NoStuckControl
  ForcedWasAsked
  SendsWholeRule
  NoFalseAlarm
  SignedOutIsOut
  DayIsLaidOut
CHECK_DEADLOCK FALSE

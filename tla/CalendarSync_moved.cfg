SPECIFICATION Spec
CONSTANTS
  Employee = {bob}
  OutlookUsers = {bob}
  GoogleUsers = {}
  Slot = {s1, s2}
  Request = {r1, r2}
  MaxTries = 1
  None = None
INVARIANT OutlookInLine
CHECK_DEADLOCK FALSE

SPECIFICATION Spec
CONSTANTS
  Employee = {ann, bob}
  OutlookUsers = {ann, bob}
  GoogleUsers = {ann}
  Slot = {s1, s2}
  Request = {r1, r2, r3}
  MaxTries = 2
  None = None
CONSTRAINT Telling
SYMMETRY Same
INVARIANTS TypeOK NothingForgotten GoogleInLine OutlookCleared
CHECK_DEADLOCK FALSE

SPECIFICATION Spec
CONSTANTS
  Task = {t1, t2}
  Contact = {c1}
  Dates <- MCDates
  Prefs <- MCPrefs
  Day = 2
  Week = 2
  Cap = 0
  LastHour = 3
  Rows = 2
  MaxFaults = 1
  MaxEdits = 1
  None = None
INVARIANTS
  TypeOK
  QueuedIsDelivered
  RemindedOnce
  FinishedRunReminded
  DigestsInTime
PROPERTY
  IsDigestQueue
SYMMETRY TaskSymmetry
CHECK_DEADLOCK FALSE

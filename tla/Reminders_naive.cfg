SPECIFICATION Spec
CONSTANTS
  Task = {t1, t2}
  Contact = {c1}
  Dates <- MCDates
  Prefs <- MCPrefs
  Day = 2
  Week = 2
  Cap = 1
  LastHour = 2
  Rows = 2
  MaxFaults = 0
  MaxEdits = 0
  None = None
INVARIANT
  DueTasksReminded
CHECK_DEADLOCK FALSE

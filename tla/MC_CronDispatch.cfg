\* Two schedules, one trigger, one reload, one edit, three minutes.
CONSTANTS
  Ids = {1, 2}
  Workflows = {"deploy", "report"}
  Files <- MCFiles
  Libraries <- MCLibraries
  Requests = {"t"}
  Reloaders = {"hup"}
  MaxTime = 3
  MaxSets = 2
  MaxEdits = 1
  MinutesPerHour = 2
  HoursPerDay = 2
  DaysPerWeek = 2
  MonthsPerYear = 2
  MonthLengths <- MCMonthLengths
  LongestMonth = 4
SPECIFICATION Spec
CHECK_DEADLOCK FALSE
INVARIANTS
  TypeOK
  FiresOncePerOccurrence
PROPERTIES
  CursorNeverBack
  DueIsServed

\* Six years of a small calendar, all starts in the first two.
CONSTANTS
  MinutesPerHour = 2
  HoursPerDay = 2
  DaysPerWeek = 2
  MonthsPerYear = 2
  MonthLengths <- MCMonthLengths
  LongestMonth = 4
  SearchYears = 2
  Expressions <- MCExpressions
  Starts <- MCStarts
SPECIFICATION SearchSpec
CHECK_DEADLOCK FALSE
INVARIANT NextIsFirstFire

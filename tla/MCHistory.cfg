\* Days of two hours of two slots, two of them kept.
CONSTANTS
  home = home
  away = away
  Locations = {home, away}
  HourLen = 2
  DayHours = 2
  RetentionDays = 2
  MaxAge = 3
  MaxPoints = 1
  MaxTime = 8
  MaxSamples = 2
  MaxOutages = 1
SPECIFICATION Spec
SYMMETRY Alike
CHECK_DEADLOCK FALSE
INVARIANTS
  UptimeCountsOnce
  FailuresShow
  LatencyPlotsOnce
PROPERTIES
  DaysDropByRaceOrDelay

\* Two locations, three hours: runs across the hours' boundaries, an hour without
\* samples, gaps within and beyond MaxAge and MergeGap.
CONSTANTS
  home = home
  away = away
  refused = refused
  timeout = timeout
  Locations = {home, away}
  Messages = {refused, timeout}
  Hour = 2
  MergeGap = 1
  MaxAge = 3
  MaxTime = 4
SPECIFICATION Spec
SYMMETRY Alike
CHECK_DEADLOCK FALSE
INVARIANTS
  StitchedIsDirect
  IncidentsPartition
PROPERTIES
  LadderIsMonotone

\* Three hours, outages of either location, restarts; a service only one location knows.
CONSTANTS
  home = home
  away = away
  Locations = {home, away}
  Primary = home
  Retention = 2
  MaxHour = 2
  Scenarios <- MCSafe
SPECIFICATION Spec
INVARIANTS
  TypeOK
  UnmarkedIsComplete
PROPERTIES
  OnlyRacesDrop

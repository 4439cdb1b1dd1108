\* A pass and the backfill of a restart on the same hour.
CONSTANTS
  home = home
  away = away
  Locations = {home, away}
  Primary = home
  Retention = 2
  MaxHour = 2
  Scenarios <- MCRestarted
SPECIFICATION Spec
PROPERTIES
  CountsNeverDrop

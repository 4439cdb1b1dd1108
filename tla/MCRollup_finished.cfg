\* A backfill that cannot read the list it repairs from.
CONSTANTS
  home = home
  away = away
  Locations = {home, away}
  Primary = home
  Retention = 3
  MaxHour = 2
  Scenarios <- MCTwoOutages
SPECIFICATION FairSpec
PROPERTIES
  MarkedIsFinished

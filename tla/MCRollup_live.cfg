\* Fair scheduling; a second outage while the first one is repaired.
CONSTANTS
  home = home
  away = away
  Locations = {home, away}
  Primary = home
  Retention = 3
  MaxHour = 2
  Scenarios <- MCTwoOutages
SPECIFICATION FairSpec
PROPERTIES
  MarkedIsFinishedIfSeen

\* One check of every kind of monitor, over one family or both.
CONSTANTS
  Monitors <- MCMonitors
  MaxBehind = 1
  DaysToExpire = 1
SPECIFICATION Spec
CHECK_DEADLOCK FALSE
INVARIANTS
  PasswordsProtected
PROPERTIES
  EarnedSuccess
  CheckEnds
  SessionsClosed

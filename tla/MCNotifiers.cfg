\* One alert of every kind of notifier, sent until it is reported as sent.
CONSTANTS
  Configs <- MCConfigs
  Dashboards <- MCDashboards
  MaxSends = 2
  MaxErrors = 1
SPECIFICATION Spec
CHECK_DEADLOCK FALSE
INVARIANTS
  AcknowledgedIsTaken
  MailIsAuthenticated
  SampleIsComplete
PROPERTIES
  SendEnds

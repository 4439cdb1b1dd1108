\* One webhook for failures and changes; API faults, a failing setup, a restart.
CONSTANTS
  hook = hook
  mail = mail
  Notifiers = {hook}
  Webhooks = {hook}
  AlertOn <- MCAlertOn
  Tries = 2
  MarkTries = 2
  CheckInterval = 1
  SetupRetry = 1
  MaxTime = 2
  MaxEdits = 1
  MaxCrashes = 1
  MaxFaults = 1
  MaxSetupFaults = 1
SPECIFICATION Spec
CHECK_DEADLOCK FALSE
INVARIANTS
  TypeOK
  NoOverlap
  AlertAccounted
PROPERTIES
  AnnouncesAsPromised

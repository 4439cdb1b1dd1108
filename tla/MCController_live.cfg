\* Fair scheduling, one webhook, a user action and a fault.
CONSTANTS
  hook = hook
  mail = mail
  Notifiers = {hook}
  Webhooks = {hook}
  AlertOn <- MCChangeOnly
  Tries = 3
  MarkTries = 2
  CheckInterval = 1
  SetupRetry = 1
  MaxTime = 2
  MaxEdits = 1
  MaxCrashes = 0
  MaxFaults = 1
  MaxSetupFaults = 0
SPECIFICATION FairSpec
CHECK_DEADLOCK FALSE
PROPERTIES
  ReconcileEnds
  RetriesEnd
  EditsAreChecked

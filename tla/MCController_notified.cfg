\* A spec edit between the two status updates of a check.
CONSTANTS
  hook = hook
  mail = mail
  Notifiers = {hook}
  Webhooks = {hook}
  AlertOn <- MCChangeOnly
  Tries = 2
  MarkTries = 2
  CheckInterval = 1
  SetupRetry = 1
  MaxTime = 2
  MaxEdits = 1
  MaxCrashes = 0
  MaxFaults = 0
  MaxSetupFaults = 0
SPECIFICATION Spec
CHECK_DEADLOCK FALSE
INVARIANTS
  NotifiedIsSent

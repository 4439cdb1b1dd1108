\* A webhook and a notifier whose failures are final, for changes; two user
\* actions against a lagging cache.
CONSTANTS
  hook = hook
  mail = mail
  Notifiers = {hook, mail}
  Webhooks = {hook}
  AlertOn <- MCChangeOnly
  Tries = 2
  MarkTries = 2
  CheckInterval = 1
  SetupRetry = 1
  MaxTime = 2
  MaxEdits = 2
  MaxCrashes = 0
  MaxFaults = 0
  MaxSetupFaults = 0
SPECIFICATION Spec
CHECK_DEADLOCK FALSE
INVARIANTS
  AlertMatchesStore
  RetryTellsCurrent
  NeverForgotten
PROPERTIES
  StatusAdvances
  AnnouncesAsPromised

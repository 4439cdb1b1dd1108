----------------------------- MODULE MCController -----------------------------
(* Small instances of MonitorController for TLC.                           *)
EXTENDS MonitorController

CONSTANTS hook, mail

\* Both notifiers subscribe to change; the hook to failures as well.
MCAlertOn == [n \in Notifiers |-> IF n = hook THEN {"failure", "change"} ELSE {"change"}]
MCChangeOnly == [n \in Notifiers |-> {"change"}]
=============================================================================

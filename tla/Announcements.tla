----------------------------- MODULE Announcements -----------------------------
(***************************************************************************)
(* What the operator promises the receivers of a monitor's change alerts,  *)
(* whatever checks, edits, retries, failures and restarts there are: they  *)
(* are told of the monitor's own status and only while it is not announced *)
(* yet, and a status is recorded as announced only once every receiver has *)
(* been told of it.  MonitorController implements this.                    *)
(***************************************************************************)
CONSTANTS Receivers, Statuses

VARIABLES
  present,        \* there is a monitor
  first,          \* and it is the first one of its name
  status,         \* LastStatus, "" before the first check
  announced,      \* the status whose change alert is recorded as sent
  told            \* what each receiver was told last
vars == <<present, first, status, announced, told>>

Init ==
  /\ present = TRUE /\ first = TRUE
  /\ status \in Statuses \cup {""} /\ announced = status
  /\ told = [r \in Receivers |-> ""]

\* A check finds a status.
Observe ==
  /\ present /\ status' \in Statuses
  /\ UNCHANGED <<present, first, announced, told>>

\* Some of the receivers are told.
Tell ==
  /\ present /\ status \in Statuses /\ status # announced
  /\ \E some \in SUBSET Receivers :
       told' = [r \in Receivers |-> IF r \in some THEN status ELSE told[r]]
  /\ UNCHANGED <<present, first, status, announced>>

Record ==
  /\ present /\ \A r \in Receivers : told[r] = status
  /\ announced' = status
  /\ UNCHANGED <<present, first, status, told>>

Delete ==
  /\ present /\ present' = FALSE
  /\ UNCHANGED <<first, status, announced, told>>

Recreate ==
  /\ ~present /\ present' = TRUE /\ first' = FALSE
  /\ status' = "" /\ announced' = "" /\ UNCHANGED told

\* An alert of a monitor that has been deleted meanwhile.
Stray ==
  /\ ~present \/ ~first
  /\ told' \in [Receivers -> Statuses \cup {""}]
  /\ \A r \in Receivers : told'[r] = "" => told[r] = ""
  /\ UNCHANGED <<present, first, status, announced>>

Next == Observe \/ Tell \/ Record \/ Delete \/ Recreate \/ Stray
Spec == Init /\ [][Next]_vars
=============================================================================

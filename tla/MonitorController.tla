--------------------------- MODULE MonitorController ---------------------------
(***************************************************************************)
(* The reconciler of one EndpointMonitor and the background retries of its *)
(* alerts: internal/controller/endpointmonitor_controller.go and retry.go, *)
(* over the cluster of ClusterApi.  Reconciles of one key never overlap,   *)
(* so there is one reconciler process; every retried alert is a goroutine  *)
(* of its own.  A step is what happens between two calls another process   *)
(* can come between: an API read or write, an alert, a mutex section, a    *)
(* channel wait.                                                           *)
(***************************************************************************)
EXTENDS ClusterApi

CONSTANTS
  Notifiers,      \* the monitor's configured notifiers
  Webhooks,       \* those whose failures can be RetryableErrors
  AlertOn,        \* AlertOn[n]: the alertOn list of notifier n
  Tries,          \* AlertRetries.Tries
  MarkTries,      \* attempts of retry.DefaultRetry
  CheckInterval,  \* spec.checkInterval, when it is in range
  SetupRetry,     \* min(checkInterval, setupRetry)
  MaxCrashes,     \* operator restarts
  MaxFaults,      \* failed reads, failed or unacknowledged writes, failed checks
  MaxSetupFaults  \* drivers or notifiers that cannot be created

Alerts == Statuses \cup {"change"}

ASSUME ControllerAssumption ==
  /\ Webhooks \subseteq Notifiers
  /\ AlertOn \in [Notifiers -> SUBSET Alerts]
  /\ Tries \in Nat /\ MarkTries \in Nat \ {0}
  /\ CheckInterval \in Nat \ {0} /\ SetupRetry \in 1..CheckInterval
  /\ MaxCrashes \in Nat /\ MaxFaults \in Nat /\ MaxSetupFaults \in Nat

VARIABLES
  rpc,            \* where Reconcile is
  mon,            \* Reconcile's copy of the monitor
  locals,         \* its other locals
  waiting,        \* the runs Stop took and has not seen done
  pending,        \* AlertRetries.pending
  wrote,          \* AlertRetries.wrote
  runs,           \* the retry goroutines
  heard,          \* what each notifier's last change alert said (observer)
  debts,          \* failed alerts neither delivered nor reported (observer)
  used            \* crashes and faults so far (bounds)

reconcilerVars == <<rpc, mon, locals, waiting>>
retryVars == <<pending, wrote, runs>>
observerVars == <<heard, debts>>
vars == <<clusterVars, reconcilerVars, retryVars, observerVars, used>>

-----------------------------------------------------------------------------
(***************************************************************************)
(* A retried alert is known by its kind, the status alert or the change    *)
(* alert of the check, and the notifier that failed.                       *)
(***************************************************************************)
Kinds == {"status", "change"}
RunIds == Kinds \X Notifiers

\* status, since: the check's status; uid: the object checked; marks: a
\* delivered alert is recorded by markAnnounced; copy: the version read there.
Run == [pc: {"off", "wait", "send", "mark", "write", "note", "exit"},
        try: Nat, stop: BOOLEAN, status: Statuses \cup {""}, since: Nat,
        uid: Nat, marks: BOOLEAN, copy: Nat, attempt: Nat]

Off == [pc |-> "off", try |-> 0, stop |-> FALSE, status |-> "", since |-> 0,
        uid |-> 0, marks |-> FALSE, copy |-> 0, attempt |-> 0]

Live(r) == runs[r].pc # "off"

NoLocals == [started |-> 0, past |-> FALSE, gone |-> FALSE,
             notified |-> "", notifiedSince |-> 0]
NoCopy == Created(0, 0, FALSE)

\* The work queue hands over the key.
Dequeue == rpc = "idle" /\ queued /\ queued' = FALSE

Fault == used.faults < MaxFaults /\ used' = [used EXCEPT !.faults = @ + 1]
SetupFault == used.setups < MaxSetupFaults /\ used' = [used EXCEPT !.setups = @ + 1]

\* Reconcile returns; its caller requeues as the result says.
Finish ==
  /\ rpc' = "idle" /\ mon' = NoCopy /\ locals' = NoLocals
  /\ UNCHANGED waiting

ReturnAfter(t) == Finish /\ AddAfter(t)
ReturnError == ReturnAfter(clock)
ReturnDone == Finish /\ UNCHANGED wakeAt

-----------------------------------------------------------------------------
(* AlertRetries.Stop, its first section: take the runs and the flag.       *)
\* (mutant) It empties pending without keeping what was there.
StopForgets ==
  /\ waiting' = {} /\ pending' = {}
  /\ UNCHANGED <<wrote, runs>>

StopTake ==
  /\ waiting' = pending /\ pending' = {}
  /\ UNCHANGED <<wrote, runs>>

SpecChanged(m) == m.obs # 0 /\ m.obs # m.gen
\* (mutant) A new generation waits for the interval like any check.
DueByTime(m) == m.checked = 0 \/ clock >= m.checked + CheckInterval

Due(m) == m.checked = 0 \/ clock >= m.checked + CheckInterval \/ SpecChanged(m)

\* The monitor is not in the cache: stop its retries and forget it.
ReconcileGone ==
  /\ Dequeue /\ ~cached.live
  /\ rpc' = "stop" /\ locals' = [NoLocals EXCEPT !.gone = TRUE]
  /\ StopTake
  /\ UNCHANGED <<store, cached, events, wakeAt, clock, edits, mon, observerVars, used>>

\* checkInterval is out of range: an event, and wait for the spec to change.
ReconcileInvalid ==
  /\ Dequeue /\ cached.live /\ ~cached.valid
  /\ ReturnDone
  /\ UNCHANGED <<store, cached, events, clock, edits, retryVars, observerVars, used>>

ReconcileSkip ==
  /\ Dequeue /\ cached.live /\ cached.valid /\ ~Due(cached)
  /\ ReturnAfter(cached.checked + CheckInterval)
  /\ UNCHANGED <<store, cached, events, clock, edits, retryVars, observerVars, used>>

ReconcileGetFails ==
  /\ Dequeue /\ Fault /\ ReturnError
  /\ UNCHANGED <<store, cached, events, clock, edits, retryVars, observerVars>>

ReconcileDue ==
  /\ Dequeue /\ cached.live /\ cached.valid /\ Due(cached)
  /\ rpc' = "stop" /\ mon' = cached
  /\ locals' = [NoLocals EXCEPT !.started = clock, !.past = pending # {} \/ wrote]
  /\ StopTake
  /\ UNCHANGED <<store, cached, events, wakeAt, clock, edits, observerVars, used>>

\* Stop closes the stop channel of one run at a time...
StopClose(r) ==
  /\ rpc = "stop" /\ r \in waiting
  /\ \A q \in waiting : ~runs[q].stop
  /\ runs' = [runs EXCEPT ![r].stop = TRUE]
  /\ UNCHANGED <<clusterVars, reconcilerVars, pending, wrote, observerVars, used>>

\* (mutant) It does not wait for the goroutine.
StopNoWait(r) ==
  /\ rpc = "stop" /\ r \in waiting /\ runs[r].stop
  /\ waiting' = waiting \ {r}
  /\ UNCHANGED <<clusterVars, rpc, mon, locals, retryVars, observerVars, used>>

\* ...waits until that run's goroutine is done...
StopWait(r) ==
  /\ rpc = "stop" /\ r \in waiting /\ runs[r].stop /\ ~Live(r)
  /\ waiting' = waiting \ {r}
  /\ UNCHANGED <<clusterVars, rpc, mon, locals, retryVars, observerVars, used>>

\* ...and at last clears the flag.
StopDone ==
  /\ rpc = "stop" /\ waiting = {}
  /\ wrote' = FALSE
  /\ \/ locals.gone /\ ReturnDone
     \/ /\ ~locals.gone
        /\ rpc' = IF locals.past THEN "reread" ELSE "check"
        /\ UNCHANGED <<wakeAt, mon, locals, waiting>>
  /\ UNCHANGED <<store, cached, events, queued, clock, edits, pending, runs,
                 observerVars, used>>

\* A retry was pending or has written: read the monitor past the cache.
Reread ==
  /\ rpc = "reread"
  /\ \/ /\ store.live
        /\ rpc' = "check" /\ mon' = store
        /\ UNCHANGED <<wakeAt, locals, waiting, used>>
     \/ ~store.live /\ ReturnDone /\ UNCHANGED used
     \/ Fault /\ ReturnError
  /\ UNCHANGED <<store, cached, events, queued, clock, edits, retryVars, observerVars>>

-----------------------------------------------------------------------------
\* No driver or no notifier: an event, and try again after SetupRetry.
SetupFails ==
  /\ rpc = "check" /\ SetupFault
  /\ ReturnAfter(clock + SetupRetry)
  /\ UNCHANGED <<store, cached, events, queued, clock, edits, retryVars, observerVars>>

CheckFails ==
  /\ rpc = "check" /\ Fault
  /\ ReturnError
  /\ UNCHANGED <<store, cached, events, queued, clock, edits, retryVars, observerVars>>

\* What the last change alert announced, with the rule for a nil field.
Notified(m) == IF m.noti = "absent" THEN m.last ELSE m.noti
NotifiedSince(m) == IF m.noti = "absent" THEN m.since ELSE m.notiSince

\* (mutant) An unchanged status takes the announced one's time.
CheckedMixed(m, status, now) ==
  [m EXCEPT !.noti = Notified(m), !.notiSince = NotifiedSince(m),
            !.last = status,
            !.since = IF m.last # status THEN now ELSE NotifiedSince(m),
            !.checked = now, !.obs = m.gen]

\* The status a check that started at time now and found status writes.
Checked(m, status, now) ==
  [m EXCEPT !.noti = Notified(m), !.notiSince = NotifiedSince(m),
            !.last = status,
            !.since = IF m.last # status THEN now ELSE m.since,
            !.checked = now, !.obs = m.gen]

Check ==
  /\ rpc = "check"
  /\ \E status \in Statuses : mon' = Checked(mon, status, locals.started)
  /\ locals' = [locals EXCEPT !.notified = Notified(mon),
                              !.notifiedSince = NotifiedSince(mon)]
  /\ rpc' = "update"
  /\ UNCHANGED <<clusterVars, waiting, retryVars, observerVars, used>>

(***************************************************************************)
(* A status update of the version in m, by Reconcile: accepted, refused    *)
(* (a conflict, the object gone, or an API failure), or written with the   *)
(* answer lost.                                                            *)
(***************************************************************************)
Write(m) == Put(m) /\ UNCHANGED wakeAt
WriteLost(m) == Accepts(m) /\ Fault /\ Put(m) /\ ReturnError
\* (mutant) The refusal is swallowed: nothing requeues the key.
WriteSwallowed(m) ==
  /\ ~Accepts(m) /\ UNCHANGED used
  /\ ReturnDone
  /\ UNCHANGED <<store, events>>
WriteRefused(m) ==
  /\ \/ ~Accepts(m) /\ UNCHANGED used
     \/ Accepts(m) /\ Fault
  /\ ReturnError
  /\ UNCHANGED <<store, events>>

\* (mutant) A refused update is logged and the alerts go out.
UpdateIgnored ==
  /\ rpc = "update"
  /\ rpc' = "alert"
  /\ IF Accepts(mon) THEN Put(mon) /\ mon' = store' ELSE UNCHANGED <<store, events, mon>>
  /\ UNCHANGED <<cached, queued, wakeAt, clock, edits, locals, waiting, retryVars,
                 observerVars, used>>

UpdateStatus ==
  /\ rpc = "update"
  /\ \/ /\ Accepts(mon) /\ Write(mon)
        /\ mon' = store' /\ rpc' = "alert"
        /\ UNCHANGED <<locals, waiting, used>>
     \/ WriteLost(mon)
     \/ WriteRefused(mon)
  /\ UNCHANGED <<cached, queued, clock, edits, retryVars, observerVars>>

-----------------------------------------------------------------------------
(***************************************************************************)
(* CompositeNotifier.SendAlert: every notifier that subscribes to the      *)
(* alert sends it, fails for good, or fails in a way a retry may not.      *)
(***************************************************************************)
ShouldAlert(n, alert) ==
  IF AlertOn[n] = {} THEN alert = "failure" ELSE alert \in AlertOn[n]

Outcomes(n, alert) ==
  IF ~ShouldAlert(n, alert) THEN {"ok"}
  ELSE {"ok", "permanent"} \cup (IF n \in Webhooks THEN {"temporary"} ELSE {})

Sends(alert) == {sent \in [Notifiers -> {"ok", "permanent", "temporary"}] :
                   \A n \in Notifiers : sent[n] \in Outcomes(n, alert)}

Retried(sent) == {n \in Notifiers : sent[n] = "temporary" /\ Tries >= 2}
Rest(sent) == {n \in Notifiers : sent[n] # "ok"} \ Retried(sent)

\* (mutant) Failures that are not retried do not count.
OnlyRetried(sent) == \E n \in Notifiers : Retried(sent) = {n}

\* The retry that delivers a change alert records it when it was the only
\* failure.
OnlyFailure(sent) == Rest(sent) = {} /\ \E n \in Notifiers : Retried(sent) = {n}

NewRun(marks) ==
  [Off EXCEPT !.pc = "wait", !.try = 2, !.status = mon.last, !.since = mon.since,
              !.uid = mon.uid, !.marks = marks]

\* The failures that are not retried get their AlertFailed event now.
QueueRetries(kind, sent) ==
  LET new == {kind} \X Retried(sent) IN
  /\ runs' = [r \in RunIds |->
                IF r \in new THEN NewRun(kind = "change" /\ OnlyFailure(sent))
                             ELSE runs[r]]
  /\ pending' = pending \cup new
  /\ debts' = debts \cup new
  /\ UNCHANGED wrote

AfterAlert ==
  IF locals.notified # mon.last
    THEN rpc' = "change" /\ UNCHANGED <<wakeAt, mon, locals, waiting>>
    ELSE ReturnAfter(clock + CheckInterval)

SendStatusAlert ==
  /\ rpc = "alert"
  /\ \E sent \in Sends(mon.last) : QueueRetries("status", sent)
  /\ AfterAlert
  /\ UNCHANGED <<store, cached, events, queued, clock, edits, heard, used>>

Delivered(sent) == {n \in Notifiers : ShouldAlert(n, "change") /\ sent[n] = "ok"}

SendChangeAlert ==
  /\ rpc = "change"
  /\ \E sent \in Sends("change") :
       /\ heard' = [n \in Notifiers |->
                      IF n \in Delivered(sent) THEN mon.last ELSE heard[n]]
       /\ QueueRetries("change", sent)
       /\ IF \A n \in Notifiers : sent[n] = "ok"
            THEN rpc' = "record" /\ UNCHANGED <<wakeAt, mon, locals, waiting>>
            ELSE ReturnAfter(clock + CheckInterval)
  /\ UNCHANGED <<store, cached, events, queued, clock, edits, used>>

\* The change as announced.
Announced(m) == [m EXCEPT !.noti = m.last, !.notiSince = m.since]

RecordChange ==
  /\ rpc = "record"
  /\ \/ /\ Accepts(mon) /\ Put(Announced(mon))
        /\ ReturnAfter(clock + CheckInterval) /\ UNCHANGED used
     \/ Accepts(mon) /\ Fault /\ Put(Announced(mon)) /\ ReturnError
     \/ WriteRefused(mon)
  /\ UNCHANGED <<cached, queued, clock, edits, retryVars, observerVars>>

-----------------------------------------------------------------------------
(* retryAlert, one goroutine per retried alert.                            *)

Goto(r, pc) == runs' = [runs EXCEPT ![r].pc = pc]

\* The debt is settled: delivered, reported by an event, or the monitor gone.
Settle(r) == debts' = debts \ {r}

\* (mutant) A stopped retry leaves without its event.
RetryStoppedSilently(r) ==
  /\ runs[r].pc = "wait" /\ runs[r].stop
  /\ Goto(r, "exit")
  /\ UNCHANGED <<clusterVars, reconcilerVars, pending, wrote, observerVars, used>>

\* The stop channel is closed: report the alert unless the monitor is gone.
RetryStopped(r) ==
  /\ runs[r].pc = "wait" /\ runs[r].stop
  /\ Goto(r, "exit") /\ Settle(r)
  /\ UNCHANGED <<clusterVars, reconcilerVars, pending, wrote, heard, used>>

\* The delay is over and the monitor is still there, as far as can be read.
RetryTimer(r) ==
  /\ runs[r].pc = "wait"
  /\ \/ store.live /\ Goto(r, "send") /\ UNCHANGED <<debts, used>>
     \/ ~store.live /\ Goto(r, "exit") /\ Settle(r) /\ UNCHANGED used
     \/ ~store.live /\ Fault /\ Goto(r, "send") /\ UNCHANGED debts
  /\ UNCHANGED <<clusterVars, reconcilerVars, pending, wrote, heard>>

RetrySends(r) ==
  /\ runs[r].pc = "send"
  /\ Goto(r, IF runs[r].marks THEN "mark" ELSE "exit") /\ Settle(r)
  /\ heard' = IF r[1] = "change" THEN [heard EXCEPT ![r[2]] = runs[r].status] ELSE heard
  /\ UNCHANGED <<clusterVars, reconcilerVars, pending, wrote, used>>

\* (mutants) One try too many; the try is not counted.
RetryOnceMore(r) ==
  /\ runs[r].pc = "send" /\ runs[r].try <= Tries
  /\ runs' = [runs EXCEPT ![r].pc = "wait", ![r].try = @ + 1]
  /\ UNCHANGED <<clusterVars, reconcilerVars, pending, wrote, observerVars, used>>
RetryUncounted(r) ==
  /\ runs[r].pc = "send" /\ runs[r].try < Tries
  /\ Goto(r, "wait")
  /\ UNCHANGED <<clusterVars, reconcilerVars, pending, wrote, observerVars, used>>

\* Another temporary failure, with a try left.
RetryAgain(r) ==
  /\ runs[r].pc = "send" /\ runs[r].try < Tries
  /\ runs' = [runs EXCEPT ![r].pc = "wait", ![r].try = @ + 1]
  /\ UNCHANGED <<clusterVars, reconcilerVars, pending, wrote, observerVars, used>>

\* The last try failed, or failed for good: an AlertFailed event.
RetryGivesUp(r) ==
  /\ runs[r].pc = "send"
  /\ Goto(r, "exit") /\ Settle(r)
  /\ UNCHANGED <<clusterVars, reconcilerVars, pending, wrote, heard, used>>

\* markAnnounced reads the monitor past the cache.
MovedOn(r) == store.last # runs[r].status \/ store.since # runs[r].since

MarkRead(r) ==
  /\ runs[r].pc = "mark"
  /\ \/ /\ store.live /\ ~MovedOn(r)
        /\ runs' = [runs EXCEPT ![r].pc = "write", ![r].copy = store.rv,
                                ![r].attempt = @ + 1]
        /\ UNCHANGED used
     \/ (~store.live \/ MovedOn(r)) /\ Goto(r, "note") /\ UNCHANGED used
     \/ Fault /\ Goto(r, "exit")
  /\ UNCHANGED <<clusterVars, reconcilerVars, pending, wrote, observerVars>>

MarkWrite(r) ==
  LET accepted == store.live /\ store.rv = runs[r].copy IN
  /\ runs[r].pc = "write"
  /\ \/ accepted /\ Put(Announced(store)) /\ Goto(r, "note") /\ UNCHANGED used
     \/ accepted /\ Fault /\ Put(Announced(store)) /\ Goto(r, "exit")
     \/ accepted /\ Fault /\ Goto(r, "exit") /\ UNCHANGED <<store, events>>
     \/ /\ ~accepted
        /\ Goto(r, IF store.live /\ runs[r].attempt < MarkTries THEN "mark" ELSE "exit")
        /\ UNCHANGED <<store, events, used>>
  /\ UNCHANGED <<cached, queued, wakeAt, clock, edits, reconcilerVars, pending,
                 wrote, observerVars>>

NoteWrite(r) ==
  /\ runs[r].pc = "note"
  /\ wrote' = TRUE /\ Goto(r, "exit")
  /\ UNCHANGED <<clusterVars, reconcilerVars, pending, observerVars, used>>

\* (mutant) done is closed only by a run that is still in pending.
ExitIfPending(r) ==
  /\ runs[r].pc = "exit" /\ r \in pending
  /\ pending' = pending \ {r}
  /\ runs' = [runs EXCEPT ![r] = [Off EXCEPT !.stop = runs[r].stop]]
  /\ UNCHANGED <<clusterVars, reconcilerVars, wrote, observerVars, used>>

\* The deferred calls: leave pending, then close the done channel.
RetryExit(r) ==
  /\ runs[r].pc = "exit"
  /\ pending' = pending \ {r}
  /\ runs' = [runs EXCEPT ![r] = [Off EXCEPT !.stop = runs[r].stop]]
  /\ UNCHANGED <<clusterVars, reconcilerVars, wrote, observerVars, used>>

-----------------------------------------------------------------------------
\* The operator dies and comes back: goroutines, queue and flags are lost,
\* the cache lists the monitor again, and the watch queues it.
Restart ==
  /\ used.crashes < MaxCrashes /\ used' = [used EXCEPT !.crashes = @ + 1]
  /\ cached' = store /\ events' = << >> /\ queued' = store.live /\ wakeAt' = Never
  /\ rpc' = "idle" /\ mon' = NoCopy /\ locals' = NoLocals /\ waiting' = {}
  /\ pending' = {} /\ wrote' = FALSE /\ runs' = [r \in RunIds |-> Off]
  /\ debts' = {}
  /\ UNCHANGED <<store, clock, edits, heard>>

Init ==
  /\ ClusterInit
  /\ rpc = "idle" /\ mon = NoCopy /\ locals = NoLocals /\ waiting = {}
  /\ pending = {} /\ wrote = FALSE /\ runs = [r \in RunIds |-> Off]
  /\ heard = [n \in Notifiers |-> ""] /\ debts = {}
  /\ used = [crashes |-> 0, faults |-> 0, setups |-> 0]

\* What the controller itself does, without the failures.
Reconcile ==
  \/ ReconcileGone \/ ReconcileInvalid \/ ReconcileSkip \/ ReconcileDue
  \/ (\E r \in RunIds : StopClose(r) \/ StopWait(r))
  \/ StopDone \/ Reread \/ Check \/ UpdateStatus
  \/ SendStatusAlert \/ SendChangeAlert \/ RecordChange

ReconcileFails == ReconcileGetFails \/ SetupFails \/ CheckFails

Retry(r) ==
  \/ RetryStopped(r) \/ RetryTimer(r) \/ RetrySends(r) \/ RetryAgain(r)
  \/ RetryGivesUp(r) \/ MarkRead(r) \/ MarkWrite(r) \/ NoteWrite(r) \/ RetryExit(r)

Cluster ==
  /\ TimerFires \/ Deliver \/ Tick \/ User
  /\ UNCHANGED <<reconcilerVars, retryVars, observerVars, used>>

Next ==
  \/ Reconcile \/ ReconcileFails \/ Restart \/ Cluster
  \/ \E r \in RunIds : Retry(r)

Spec == Init /\ [][Next]_vars

\* The scheduler runs what can run: the reconciler, each goroutine, the queue
\* and the watch.  Nothing is promised of users, crashes, faults or the clock.
Fairness ==
  /\ WF_vars(Reconcile)
  /\ WF_vars(Cluster /\ TimerFires) /\ WF_vars(Cluster /\ Deliver)
  /\ \A r \in RunIds : WF_vars(Retry(r))

FairSpec == Spec /\ Fairness
-----------------------------------------------------------------------------
(* Correctness.                                                            *)

ReconcilerTypeOK ==
  /\ rpc \in {"idle", "stop", "reread", "check", "update", "alert", "change", "record"}
  /\ mon \in Monitor
  /\ locals \in [started: Nat, past: BOOLEAN, gone: BOOLEAN,
                  notified: Statuses \cup {""}, notifiedSince: Nat]
  /\ waiting \subseteq RunIds

RetryTypeOK ==
  /\ pending \subseteq RunIds /\ wrote \in BOOLEAN
  /\ runs \in [RunIds -> Run]

ObserverTypeOK ==
  /\ heard \in [Notifiers -> Statuses \cup {""}] /\ debts \subseteq RunIds
  /\ used \in [crashes: Nat, faults: Nat, setups: Nat]

\* A live run is at one of the tries 2 to AlertRetries.Tries.
TriesBounded == \A r \in RunIds : Live(r) => runs[r].try \in 2..Tries

\* Every variable has its type, and no alert is tried more than Tries times.
TypeOK ==
  /\ ClusterTypeOK /\ ReconcilerTypeOK /\ RetryTypeOK /\ ObserverTypeOK
  /\ TriesBounded

\* From the moment Stop returns until the new alerts go out no retry of an
\* earlier check runs, and none of an earlier change alert until the change is
\* recorded: Reconcile's wait for run.done covers every goroutine, including
\* one in the middle of markAnnounced.
NoOverlap ==
  /\ rpc \in {"reread", "check", "update", "alert"} => \A r \in RunIds : ~Live(r)
  /\ rpc \in {"change", "record"} => \A n \in Notifiers : ~Live(<<"change", n>>)

\* While Reconcile sends the alerts of a check, and until it has recorded the
\* change, the stored status is the one it alerts about: nothing but an edit
\* of the spec or metadata, a deletion or a new object can have come between,
\* so only those make the second Status().Update fail.
AlertMatchesStore ==
  rpc \in {"alert", "change", "record"} /\ store.live /\ store.uid = mon.uid
     => StatusOf(store) = StatusOf(mon)

\* An alert a retry still has to send tells the status the monitor has now:
\* a retry never announces a status that a newer check has replaced.
RetryTellsCurrent ==
  \A r \in RunIds :
     runs[r].pc \in {"wait", "send"} /\ store.live /\ store.uid = runs[r].uid
        => store.last = runs[r].status

\* A failed alert is retried until it is delivered, or it gets its
\* AlertFailed event: nothing but a deletion or the operator's end loses one.
AlertAccounted ==
  \A r \in debts : runs[r].pc \in {"wait", "send"}

\* Every live goroutine is in Stop's hands while Reconcile is in Stop, and in
\* AlertRetries.pending at any other time: none is lost.
RunsOwned ==
  IF rpc = "stop"
    THEN pending = {} /\ \A r \in RunIds : Live(r) => r \in waiting
    ELSE waiting = {} /\ \A r \in RunIds : Live(r) => r \in pending

\* Only the retry of a change alert writes the monitor.
OnlyChangesMark ==
  \A r \in RunIds :
     runs[r].marks \/ runs[r].pc \in {"mark", "write", "note"} => r[1] = "change"

\* A version number stands for one object and one spec, so an update that the
\* API server accepts leaves both alone.
SpecOf(m) == [uid |-> m.uid, live |-> m.live, valid |-> m.valid, gen |-> m.gen]
IsCopy(m) == /\ m.uid <= store.uid /\ m.rv <= store.rv
             /\ m.rv = store.rv => SpecOf(m) = SpecOf(store)
CopiesAreVersions ==
  /\ store.rv > 0 /\ IsCopy(mon) /\ IsCopy(cached)
  /\ \A i \in 1..Len(events) : IsCopy(events[i])
  /\ \A r \in RunIds : runs[r].uid <= store.uid

\* The inductive invariant behind the alerts' safety: who owns a goroutine, who
\* may write, and which copies the API server still accepts.
AlertInv ==
  /\ RunsOwned /\ OnlyChangesMark /\ CopiesAreVersions
  /\ NoOverlap /\ AlertMatchesStore /\ RetryTellsCurrent /\ AlertAccounted

\* The notifiers that subscribe to change, told what the store says: no step of
\* a check, a retry, an edit, a fault or a restart tells them anything else, or
\* moves LastNotifiedStatus to a status that one of them has not been told of.
Subscribers == {n \in Notifiers : ShouldAlert(n, "change")}
Promise == INSTANCE Announcements WITH
  Receivers <- Subscribers, Statuses <- Statuses,
  present <- store.live, first <- store.uid = 1,
  status <- store.last, announced <- Notified(store),
  told <- [n \in Subscribers |-> heard[n]]
AnnouncesAsPromised == Promise!Spec

\* A monitor that can be checked is never forgotten: it is queued, about to be
\* queued, being reconciled by a run that requeues it, or the watch has an
\* event under way that will queue it.
NeverForgotten ==
  cached.live /\ cached.valid =>
     \/ queued \/ wakeAt # Never \/ (rpc # "idle" /\ ~locals.gone)
     \/ \E i \in 1..Len(events) : Passes(cached, events[i])

\* Time only goes forward in a monitor's status: a check never replaces what a
\* later check wrote, and never claims a generation the object has not had.
StatusAdvances ==
  [][ store'.uid = store.uid =>
        /\ store'.checked >= store.checked /\ store'.since >= store.since
        /\ store'.obs >= store.obs /\ store'.obs <= store'.gen ]_vars

\* A reconcile, with the Stop it waits for, comes to an end.
ReconcileEnds == rpc # "idle" ~> rpc = "idle"

\* A retry goroutine comes to an end.
RetriesEnd == \A r \in RunIds : Live(r) ~> ~Live(r)

\* A new generation is checked without waiting for the interval, however far
\* the cache lags.
EditsAreChecked ==
  store.live /\ store.valid /\ SpecChanged(store)
     ~> ~store.live \/ ~store.valid \/ ~SpecChanged(store)

\* LastNotifiedStatus "is the status whose change alert has been sent"
\* (api/v1alpha1/endpointmonitor_types.go), once nothing is under way.
NotifiedIsSent ==
  rpc = "idle" /\ store.live /\ (\A r \in RunIds : ~Live(r)) =>
     \A n \in Notifiers : heard[n] # "" => store.noti = heard[n]
=============================================================================

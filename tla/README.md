# Specifications of the endpoint-monitoring operator

TLA+ models of the operator (`cmd/`, `internal/`, `pkg/`, `api/`) and of its
dashboard (`dashboard/`), with TLC configurations for small instances and TLAPS
proofs. `PROJECT.json` lists the runs, what each definition stands for in the
source, the hazards and the theorems.

## The system

| Part | State it keeps | Operations | Hard parts |
|---|---|---|---|
| Reconciler (`internal/controller/endpointmonitor_controller.go`) | the EndpointMonitor's status in the API server; its own copy while it runs | `Reconcile` | stale cache, two status updates with alerts between them, edits and deletions at any moment, restarts |
| Alert retries (`internal/controller/retry.go`) | `pending`, `wrote`, one goroutine per failed alert | `Stop`, `queueRetries`, `retryAlert`, `markAnnounced` | goroutines against the next check, conflict retries, waiting for each other |
| Monitor types (`api/v1alpha1`) | spec and status | none | the meaning of `LastNotifiedStatus` |
| Factory and notifiers (`pkg/factory`, `internal/notifier`) | none | `SendAlert` | some notifiers fail, some for good |
| Valkey notifier | raw samples per hour in Valkey | `SendAlert`, `Pipeline` | partial pipelines |
| Drivers (`internal/driver`, `internal/common`) | none | `Check` | session protocols, deadlines, two address families |
| Rollup runner (`dashboard/internal/rollup`) | `backfilling`, `down`, `readMissing`, `recovered`, `storeFailed`, `needFull`, `lastFull` | `Start`, `runOnce`, `afterPass`, `backfill` | pass and backfill at the same time, outages, what is left to repair |
| Dashboard store (`dashboard/internal/store`) | hourly and daily rollups on the primary location | `RollupHour`, `FailureWindows`, `Latency`, `History` | read-merge-write without a transaction, expiry, hour boundaries |
| Status ladder (`dashboard/internal/status`) | none | `LocationFromCounts`, `AggregateFromLocations` | order of the cases |
| Dashboard server (`dashboard/internal/server`) | none | `currentStatus`, `dailyBars`, `sla`, the chart's range | hours without data, the current hour, range edges |
| Configuration, entry points | none | parsing | what a restart creates afresh |

The reconciler checks a monitor, writes its status, sends the status alert and,
when the status differs from the last announced one, the change alert, and
records the announcement. A failed webhook alert is handed to a goroutine that
tries again; the next check of the monitor stops that goroutine and waits for
it. The Valkey notifier adds one sample per check at its own location. The
dashboard reads the samples of all locations, stores hourly rollups on its
primary location, marks those it could not complete, and repairs them later.
Its pages stitch the rollups' failure runs into incidents.

What makes the parts correct:

* no retry works against a newer check; alerts tell the stored status; a change
  is recorded only when every subscriber was sent it; every failed alert is
  delivered or reported; a monitor never drops out of the queue; a spec edit is
  checked without delay;
* a rollup that is not marked is complete; stored counts survive outages,
  expiry and restarts; what is marked gets finished;
* incidents tell every failure once, whatever the hour boundaries;
* a check succeeds only on what the server has shown in it, and ends; passwords
  stay behind TLS; what a notifier reports as sent was taken;
* the pages count and plot every check once, and show every failure.

## Modules

| Module | Models | Extends |
|---|---|---|
| `ClusterApi` | API server, manager cache, work queue, users, for one monitor (external) | |
| `MonitorController` | `Reconcile`, `AlertRetries`, `retryAlert`, `markAnnounced` | `ClusterApi` |
| `Announcements` | the abstract specification: what receivers of change alerts are promised | |
| `ControllerProofs` | types; the alert invariant and its consequences; the refinement of `Announcements`, `StatusAdvances`, `NeverForgotten` | `MonitorController` |
| `Conversation` | a client's conversation with a server: steps, deadlines, DANE, SMTP authentication | |
| `Drivers` | every driver's `Check` as the steps it goes through; the driver factory | `Conversation` |
| `Checks` | one check of a monitor, with the goroutines beside it | `Drivers` |
| `Notifiers` | one alert through one notifier, with repeated sends | `Conversation` |
| `ConversationProofs` | lemmas about scripts and about one answer to their first step | `Conversation` |
| `ChecksProofs` | the properties of a check, for every monitor | `Checks`, `ConversationProofs` |
| `NotifierProofs` | the properties of a send, for every notifier | `Notifiers`, `ConversationProofs` |
| `Rollup` | `runOnce`, `afterPass`, `backfill`, `RollupHour` for one service | |
| `RollupProofs` | complete rollups and counts that do not drop | `Rollup` |
| `StatusLadder` | `ladder.go`, as operators | |
| `Incidents` | `ComputeLocationRollup`, `FailureWindows`, `mergeSegments`, as operators over the checks so far | `StatusLadder` |
| `FoldProofs` | folds over finite sets, for every operation and order; induction over sets and numbers | |
| `IncidentsProofs` | the order of samples, the ladder, `mergeSegments` and the stitching, for all of them | `Incidents`, instances of `FoldProofs` |
| `History` | daily rollups, uptime, day bars, current status and latency chart | `StatusLadder` |
| `HistoryProofs` | sums over finite sets, percentages, buckets, and what the pages show | `History` |
| `MCController`, `MCRollup`, `MCIncidents`, `MCChecks`, `MCNotifiers`, `MCHistory` | the instances for TLC | |

### ClusterApi and MonitorController

One monitor is modelled: reconciles of one key never overlap and monitors share
nothing but `AlertRetries`' maps, which are keyed by monitor. `store` is the
stored object with its resource version, `cached` the manager's cache, `events`
what the watch still has to deliver. `queued` and `wakeAt` are the work queue:
`AddAfter` keeps the earlier time and an error comes back at once. An
update of any version but the stored one is refused.
`GenerationChangedPredicate` is `Passes`.

A step is what runs between two points where another process can come between:
an API read or write, an alert, a mutex section, a channel wait. `rpc` is where
`Reconcile` is (`stop`, `reread`, `check`, `update`, `alert`, `change`,
`record`); `mon` is its copy. `Stop` is three sections: `StopTake` (under the
mutex), `StopClose`/`StopWait` for one run after the other, `StopDone`. Each
retried alert is a process `runs[<<kind, notifier>>]` with the steps `wait`,
`send`, `mark` and `write` (markAnnounced's read and update), `note`, `exit`.
A check finds any status; an alert goes through, fails for good, or, for a
webhook, fails in a way a retry may not repeat. API reads and writes may fail,
and a write may succeed with its answer lost.

Abstractions: the spec is one bit (the interval is in range or not), time is
in units of the clock, `heard` and `debts` are observers that no guard reads.
A monitor may start without `LastNotifiedStatus`, as one written by an older
version. An operator restart loses goroutines, queue and flags. One active
operator is assumed.

`Announcements` says what all of this is for. Its state is a status, the status
recorded as announced and what each receiver was told last; a receiver is told of
the status only while it is not announced, and a status is recorded only when every
receiver has been told of it. `MonitorController` implements it
(`AnnouncesAsPromised`): `status` is `LastStatus`, `announced` is `Notified`, the
receivers are the notifiers that subscribe to change. Delete and create are steps of
the abstract specification too, and alerts of an object that is gone are its `Stray`.

### Conversation, Drivers and Checks

A driver's `Check` is a sequence of calls, each of which waits for the server or
is local. `Drivers` gives that sequence for a monitor's options: the step's
question, the answers there are and those the code goes on with. `Checks` runs it
(`todo`): the server answers, refuses, breaks the connection or stays silent; a
silent server is only overcome by a dialer's timeout or by the limit the code has
set (`Limit`, the `conn.limit` bit). `told` holds the answers of the running
check, `leaks` how passwords left. A monitor of both families runs its script
twice, one after the other. Beside the script run MongoDB's heartbeats, which may
cancel it, and for ScyllaDB one goroutine per family that opens a session.
Answers are what the code tells apart: a lag is unknown, at the limit or beyond it; a
certificate has 23, 24 or 49 hours left; a DNS record is spelled as expected,
otherwise or differently. An error reply is `Broken`, as the code handles both alike.
What a monitor expects of its server is stated apart from the scripts, by driver and
option (`Expectations`), in the words of the API types. The text of replies and errors
is left out, so nothing is said of what a result repeats.

### Notifiers

`Notifiers` uses the same steps for Slack, Discord, webhook, e-mail (SMTP and SES)
and Valkey. The receiver takes the alert at the `deliver` step and may do so without
being able to say so. A send that failed may be repeated, up to `MaxSends`; within a
send net/http or the AWS client may replay the request, here once. Valkey's pipeline
is a counter of commands written, run and answered; the server goes on running what
has reached it after the client has left.

### Rollup

One service and the hours `0..MaxHour`. A location's rollup of an hour is the
number of samples it counts; `stored[h]` is the aggregate with its `missing`
locations and `inProgress` mark. Both workers, the pass and the backfill, make
`RollupHour` calls of three steps: read every location (`JobRead`), read the
stored rollup (`JobGet`), write or delete (`JobPut`; `JobPutPartly` is an HSET
whose HEXPIRE fails). `flags` is the Runner. `up[l]` says whether location `l`
answers the dashboard; a failed call is an outage between two answers. Reading
the locations one after the other is one step: any set of them may be down, and
samples of a finished hour no longer grow. `PassUnlisted` is a service that only
a silent location knows. Each hour sees at least one pass (`NextHour`), as the
default interval of five minutes gives. Samples land in the hour they are
stamped with. Raw samples may expire once the hour is two hours back.

### Incidents and StatusLadder

The state is every location's samples and the clock; each state is one input of
the algorithms. An hour's samples are those behind the ones of the hours before it
(`Earlier`, `InHour`), which is what the hour's key finds: samples are stamped in
the order they are made. `Scan` is one sample of `ComputeLocationRollup`'s loop,
`Stitch` one run of `FailureWindows`', `MergeInto` one segment of `mergeSegments`'.
The sort of the segments is a fold that takes a newest one last; which one, where
several start together, is left open, as `sort.Slice` is not stable. The direct
definitions (`Stretches`, `Near`) are stated on the raw samples, with no hours in
them. The whole range is asked for, and the incidents are a set: their order on the
page is left out.

### History

One service over days of `DayHours` hours of `HourLen` slots. `made` is every check
ever made and is only observed; `gone` are the raw samples that have expired. A
`RollupHour` call is one step here (`Rollup` shows how calls interleave) and may miss
the locations in `down`. A pass or a backfill takes the time at which it began for the
present as long as it runs, so each of its calls is made with some earlier hour
`began`: the hour it rolls up may have ended or expired since, and the window in which
a backfill rebuilds days is the one of its start (`Oldest`, `FirstFull`). The daily
update of either is a read and a write with anything between them. An hour older than
the retention may expire (`RollupExpires`), and may stay, as its TTL is counted from
the start of the run that wrote it. `HistoryHours`, `ByDay`, `Uptime`, `currentStatus`,
`dayBar` and `Latency` are what the pages show in a state, for every set of
locations that do not answer. Latencies themselves are left out: a point of the
chart is the checks it stands for.

## Runs

| Run | Instance | Shows |
|---|---|---|
| `controller_edits` | a webhook and a notifier whose failures are final, two tries, two user actions | `AlertMatchesStore`, `RetryTellsCurrent`, `NeverForgotten`, `StatusAdvances`, `AnnouncesAsPromised` |
| `controller_faults` | one webhook, one fault, one failing setup, one restart, one user action | `TypeOK`, `NoOverlap`, `AlertAccounted`, `AnnouncesAsPromised` |
| `controller_live` | fair scheduling, one webhook, three tries, one fault, one user action | `ReconcileEnds`, `RetriesEnd`, `EditsAreChecked` |
| `controller_notified` | one user action | violates `NotifiedIsSent` |
| `rollup_safe` | two locations, three hours, retention two; a service both know or only the other; up to two outages, one restart | `TypeOK`, `UnmarkedIsComplete`, `OnlyRacesDrop` |
| `rollup_live` | fair, retention three, two outages | `MarkedIsFinishedIfSeen` |
| `rollup_finished` | fair, two outages | violates `MarkedIsFinished` |
| `rollup_counts` | one outage, one restart | violates `CountsNeverDrop` |
| `incidents` | two locations, hours of two seconds, two messages | `StitchedIsDirect`, `IncidentsPartition`, `LadderIsMonotone` |
| `checks` | every driver, every combination of its options, one family or both | `PasswordsProtected`, `EarnedSuccess`, `CheckEnds`, `SessionsClosed` |
| `notifiers` | every notifier, every combination of its options, repeated sends | `AcknowledgedIsTaken`, `MailIsAuthenticated`, `SampleIsComplete`, `SendEnds` |
| `history` | two locations, days of two hours of two slots, two days kept, two checks, one outage | `UptimeCountsOnce`, `FailuresShow`, `LatencyPlotsOnce`, `DaysDropByRaceOrDelay` |

Why the bounds suffice. Two clock values with an interval of one give two checks,
so retries of the first meet the second; two user actions give an edit on each
side of an update, or a deletion and a new object. Two tries are the least that
start a retry, three the least where a try can fail and be followed by another.
`MarkTries` two gives one conflict and one last attempt. In `Rollup` three hours
are needed for a marked hour to leave the reach of the passes (the current and
the previous hour) and depend on the backfill; the liveness run keeps it with a
retention of three. Two outages are an outage and one during its repair. Hours
of two seconds have samples on both sides of a boundary, `MaxAge` is longer than
an hour so that stitching reaches across an hour without samples, and the
horizon leaves room for gaps beyond it. Deadlock is not checked where the clock's
horizon or the end of the one check or alert ends the run (controller, incidents,
checks, notifiers, history); it is checked in the rollup runs.

`rollup_safe` covers its ground in scenarios (`Scenarios`: who knows the service, how
many samples, outages and restarts) instead of one instance with all of them. In
`history` a horizon of two days and one slot lets a day's first hour expire while a
worker that began when it was kept rebuilds that day, the cap of one point makes a chart of two entries grouped, and two
checks are enough for two locations in an hour, two hours of a day, or both sides of
the range's start. In `checks` and `notifiers` the only bounds are the answers, the number
of sends, one error reply per pipeline and one replay per send. `incidents` and
`history` use symmetry: locations are alike there and no liveness is checked. Sums
and merged messages do not depend on which location is which.

The liveness run of the rollup leaves samples out: its marks are
those of empty hours and of placeholders, and whether an hour is marked and repaired
does not depend on what it counts. With a sample, the same run with one outage also
holds; two outages and a sample take TLC too long.

Fairness. The controller: weak fairness of the reconciler, of each goroutine, of
the watch and of the delaying queue, which Go's scheduler and controller-runtime
give; nothing is assumed of users, faults, restarts or the clock. A goroutine's
fairness covers its whole loop: a timer that is due fires or the closed stop
channel is seen. The dashboard: the ticker keeps starting passes, both workers go
on, and an outage ends. The last is a premise of "once it answers again".
Checks and notifiers: the code's own steps and the timers it has set, and that
gocql's CreateSession returns within its own timeouts. Nothing is assumed of the server.

## What the violations mean

* `NotifiedIsSent`: `Reconcile` records a delivered change with an update of the
  copy it holds. An edit between its two updates makes that a conflict, so the
  alert is sent and not recorded, and the next check sends it again (or never
  announces the recovery, if the status has gone back). `markAnnounced` reads
  the monitor again and retries the conflict.
* `MarkedIsFinished`: `afterPass` clears its flags when it starts a repair. When
  that backfill cannot list or read, it only logs, and the marked hours wait for
  the next failure or restart. `MarkedIsFinishedIfSeen` shows that nothing else
  loses one.
* `CountsNeverDrop`: two overlapping `RollupHour` calls of one hour. The result
  is marked, so `UnmarkedIsComplete` holds, and a later repair restores the
  counts while the raw samples exist. `OnlyRacesDrop` shows that overlap is the
  only cause.

## Proofs

Each theorem below holds for every value of the constants that the named assumptions
allow. Where it states a property, a run checks the same definition.

### The controller (`ControllerProofs`)

| Theorem | States |
|---|---|
| `TypeCorrect` | `TypeOK`, with the bound on tries |
| `AlertInvariant` | `AlertInv`, inductive together with `TypeOK` |
| `RetriesNeverOverlap`, `AlertsMatchStore`, `RetriesTellCurrent`, `AlertsAccounted` | `NoOverlap`, `AlertMatchesStore`, `RetryTellsCurrent`, `AlertAccounted` |
| `PromiseInvariant` | `FullInv`: `TypeOK`, `AlertInv` and `PromiseInv` |
| `StatusOnlyAdvances` | `StatusAdvances` |
| `ImplementsAnnouncements` | the refinement `AnnouncesAsPromised` |
| `NoneForgotten` | `NeverForgotten` |

`NoOverlap` and `AlertMatchesStore` are not inductive: a goroutine nobody waits
for could write the status, and an update could be accepted from a copy of another
object. `RunsOwned` says that a live goroutine is in `pending`, or in `Stop`'s hands
while `Reconcile` is in `Stop`, so that leaving `Stop` means none is alive.
`OnlyChangesMark` says that only retries of change alerts write, so the status
alert's retries, which may live while the change is recorded, do no harm.
`CopiesAreVersions` says that every copy of the stored version has its object and
spec, so an accepted update changes the status only.

The refinement and `StatusAdvances` need more of the copies and of the receivers:
`PromiseInv`. A copy with the store's version is the stored object, whoever holds
it, so an accepted `Status().Update` of `Reconcile` is a check of what is stored,
made no earlier (`CopiesAreExact`, `ChecksStored`). While `Reconcile` records a
change every subscriber has been told of it, and a retry that will record one is
the only live retry of a change and waits for the only subscriber not told yet
(`AlertsChange`, `RetriesTell`). Each action then maps to a step of `Announcements`
or to a stutter (`StepKeepsPromise`).

`NeverForgotten` needs the watch: the pending events lead from the cache to the
store one version after the other, and a version that the predicate holds back is
as valid as the one before (`WatchFollows`). So a monitor that becomes valid always
passes an event on.

Assumptions: `ClusterAssumption` and `ControllerAssumption` (types of the constants;
at least one attempt of `markAnnounced`; a setup retry no longer than the interval).

### Checks and notifiers (`ConversationProofs`, `ChecksProofs`, `NotifierProofs`)

| Theorem | States |
|---|---|
| `ChecksInvariant` | `ChecksInv` |
| `PasswordsStayProtected`, `SuccessIsEarned` | `PasswordsProtected`, `EarnedSuccess` |
| `NotifiersInvariant` | `NotifiersInv` |
| `DeliveredAsReported`, `MailStaysAuthenticated`, `ReportedSamplesComplete` | `AcknowledgedIsTaken`, `MailIsAuthenticated`, `SampleIsComplete` |

All of them are about the script that is still to run. `ChecksInv` says of it: a step
that sends a password is behind TLS where TLS is asked for; a TLSA answer that the
code goes on with refutes nothing; and each of the monitor's `Expectations` has been
met already, or a later step asks for it and accepts nothing else (`Expected`), that
step being in the script or among those that a step in the script will add to it
(`StepsPromise`, `FollowersPromise`). At the end of the script nothing is left to show.
A MongoDB command has been answered only after a heartbeat, in a check that none has
cancelled (`HeartbeatInv`). The families already checked and those left are those of
the monitor.
`NotifiersInv` says: a script delivers once; MAIL comes behind a step
that leads to AUTH; no reply read from a pipeline so far is an error, and replies
are read no faster than commands are run. For every driver and notifier a lemma
shows that its script has these properties when it starts.

Assumptions: `DriversAssumption`, `ChecksAssumption` (a redis monitor has no STARTTLS
option, as the types have none), `NotifiersAssumption` (known kinds, a non-empty list
of dashboards). Any number of dashboards and any size of the pipeline is covered.

### Rollups (`RollupProofs`)

`RollupInvariant` proves `RollupInv`, and from it `RollupTypes` (`TypeOK`),
`FinishedIsComplete` (`UnmarkedIsComplete`) and `DropsAreRaces` (`OnlyRacesDrop`).
`UnmarkedIsComplete` needs three facts beside it: no worker is ahead of the clock
(`NoneAhead`), a rollup of an hour that is not over says so (`CurrentInProgress`), and
a call for an hour that was over when its worker started has counted all that the
locations it read still hold (`ReadIsComplete`), since raw samples of such an hour
only go. Assumption: `RollupAssumption`.

### What the pages show (`HistoryProofs`)

| Theorem | States |
|---|---|
| `PercentIsHonest` | `FormatPercent` shows 100% exactly when nothing has failed |
| `BucketsFit` | every time of the range, both ends included, has one of `points` buckets |
| `HistoryInvariant` | `HistoryInv` |
| `OnlyRacesOrDelaysDrop` | `DaysDropByRaceOrDelay` |
| `UptimeIsTrue`, `FailuresAreShown`, `LatencyIsTrue` | `UptimeCountsOnce`, `FailuresShow`, `LatencyPlotsOnce` |

The pages add up counts over locations, hours, days and entries. The lemmas about
`Sum` (adding one element, comparing two sums, splitting one by a key, counting a set
by its parts) use induction over the subsets of a finite set: the subsets for which a
statement holds are a set, and a minimal one outside it would contradict it
(`SubsetInduction`, from the well-foundedness of strict inclusion). No operator
parameter is needed.

`HistoryInv` has four parts. What was checked is finite, and a location checks once
in a slot (`ChecksInv`). A stored hour counts only checks that were made in it
(`HoursInv`). A worker's sum of a day counts only checks made on it, and is no fuller
than the day's hours as long as all of these are kept (`UpdateInv`), because a merge
never lowers a count and a kept hour does not expire. So is a daily rollup
(`DailyInv`). That is what `DaysDropByRaceOrDelay` needs: a write that lowers a day
either comes too late for its own sum, which is the race, or finds the day's first hour
expired. A backfill rebuilds only days that were whole when it began, so the second
takes a run that outlives them; the code does not exclude it. A pass does the same in
no time when only one day is kept, as it updates the day before. `LatencyIsTrue`
splits the range by hours; each hour gives its raw checks or its rollup, never both,
and an hour before the range's start is never taken from its rollup.

Assumption: `HistoryAssumption` (types; finitely many locations; `MaxAge` no shorter
than an hour, as `StatusMaxAge` is six hours; without it a current hour could be too
old to be the status).

### Incidents (`FoldProofs`, `IncidentsProofs`)

| Theorem | States |
|---|---|
| `SamplesInOrder` | `SamplesInv`: every location's samples are in the order of their seconds, none newer than the clock |
| `LadderMonotone` | `LadderIsMonotone` |
| `IncidentsStitched` | `StitchedIsDirect` |
| `MergePartitions` | `Partitioned`, for every finite set of failures that end after they start |
| `IncidentsApart` | `IncidentsPartition` |

What is to be proved is about folds over data of any length. `FoldProofs` takes the
operation of a fold and the order of its elements as constants. It shows that such a
fold exists for every finite set and what it is for one more element
(the lemma `FoldEquations`), by the induction over subsets of `HistoryProofs`. `IncidentsProofs`
instantiates it five times: for the scan of an hour's samples, the runs stitched onto
a location's failures, the hours, the segments merged into windows, and the sum of their
counts. Induction over a sequence is induction over its indices (`UpTo`).

*The ladder.* A check changes one location's counts of the hour, by one
(`HourAppends`). A failure leaves every location at least as bad as it was, and the
ladder's rank depends only on the sets of locations that are down and that are not up
(`LadderRank`), and grows with them (`NoWorse`, `LadderWorse`).

*The stitching.* `StretchesTo(c, n)` are the maximal stretches of the first `n`
samples, and `Lists(c, n, q)` says that `q` lists them, oldest first. One more sample
leaves the list alone (a success), adds to it (`ListNew`) or makes its last stretch
longer (`ListGrows`). `Direct(l, c, n, segs)` says that `segs` are the failures of such
a list. The invariant of the scan (`ScanInv`): the runs found so far in an hour,
stitched onto the failures before the hour, are the failures of the samples so far.
It holds for one more sample because extending the last run extends the last failure
(`StitchExtended`), and a new run continues a failure exactly when its sample does
(`ScanNew`). That needs `MaxAge` to be no shorter than an hour: within one, runs of
a message are never cut by a gap, while the direct definition looks at the gap alone.
`HoursInv` carries this from hour to hour: a location's last hour is open exactly when
its last sample so far is a failure.

*The merge.* `Tells(S, m, W)` is the invariant of the merged windows `W` of a set `S`:
each accounts for the failures inside it (count, locations, both ends), each failure
is inside one, and two successive windows are more than the merge gap apart. Merging a
newest failure keeps it, whether the last window reaches it or not; so nothing depends
on the order of failures that start together.

Assumption: `IncidentsAssumption` (types; finitely many locations; an hour is not
empty; `MaxAge` no shorter than an hour).

### Only model-checked

Liveness (`ReconcileEnds`, `RetriesEnd`, `EditsAreChecked`, `MarkedIsFinishedIfSeen`,
`CheckEnds`, `SessionsClosed`, `SendEnds`) is outside the prover's reach, and so are
the counterexamples of the violations. Every invariant and every action property of
a passing run is also a theorem. Recursion and sorting are not reasoned about
in general: a fold is proved about through an instance of `FoldProofs` with that
operation.

## Plan

Done: the controller with its abstract specification, drivers, notifiers, rollups,
incidents and what the pages show, and proofs of every safety property that a run
checks. What would come next: two services in `Rollup`, so that the shared flags are
exercised by one another's failures.

## Not modelled

The wording of messages, templates and headers, and the text of a server's replies,
with what `withholdCredentials` keeps out of a result; flags, metrics, certificates and
leader election; the dashboard's routing, rendering, compression and static files;
generated code and the test double of Valkey. JSON that cannot be parsed in a stored
rollup, clock jumps, samples written after the hour they are stamped with, a
`rollupInterval` above an hour, and two dashboards on one primary are outside the
models.

A finished hour that could not be read is stored without any location, so that a
later backfill finds it. `dailyBars` says that "hours with no data are never stored or
overlaid", and `currentStatus` promises the most recent actual status; such an hour,
when it is the latest, makes the status unknown although an earlier one has checks.
`History` behaves so too: with `MaxAge` 6, one outage and one check reach such a
state. No property is stated of it.

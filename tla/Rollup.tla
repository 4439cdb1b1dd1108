-------------------------------- MODULE Rollup --------------------------------
(***************************************************************************)
(* The dashboard's hourly rollups of ONE service: the periodic pass and    *)
(* the backfill of dashboard/internal/rollup/rollup.go, which run at the   *)
(* same time, and RollupHour of dashboard/internal/store/store.go, which   *)
(* both call and which reads and writes in separate commands.  Time is the *)
(* number of the current hour.  A location's rollup of an hour is the      *)
(* number of samples it counts.                                            *)
(***************************************************************************)
EXTENDS Naturals, Sequences, FiniteSets

CONSTANTS
  Locations, Primary,
  Retention,      \* hours a rollup is kept: retentionDays * 24
  MaxHour,        \* the clock's horizon
  Scenarios       \* known: the locations whose services set names the service;
                  \* at most so many samples, outages and restarts

ASSUME RollupAssumption ==
  /\ Primary \in Locations
  /\ Retention \in Nat \ {0} /\ MaxHour \in Nat
  /\ Scenarios \subseteq [known: (SUBSET Locations) \ {{}},
                          samples: Nat, outages: Nat, restarts: Nat]

VARIABLES
  hour,           \* the current hour
  up,             \* up[l]: location l answers
  raw,            \* raw[l][h]: the samples location l holds for hour h
  stored,         \* stored[h]: the aggregate rollup on the primary
  jobs,           \* the RollupHour call of each worker
  pass,           \* runOnce
  fill,           \* backfill
  flags,          \* the Runner's fields
  env             \* the scenario, how much of it has happened, the observer's notes

vars == <<hour, up, raw, stored, jobs, pass, fill, flags, env>>

Hours == 0..MaxHour
Known == env.scenario.known
Workers == {"pass", "fill"}
Counts == [Locations -> Nat]
Zero == [l \in Locations |-> 0]

(***************************************************************************)
(* An AggregateRollup.  An absent field reads as Empty, and no rollup that *)
(* is written equals Empty.                                                *)
(***************************************************************************)
Aggregate == [count: Counts, missing: SUBSET Locations, inProgress: BOOLEAN]
Empty == [count |-> Zero, missing |-> {}, inProgress |-> FALSE]
Marked(a) == a.missing # {} \/ a.inProgress

Job == [step: {"off", "read", "get", "put"}, hour: Nat, now: Nat, mark: BOOLEAN,
        fresh: Counts, missing: SUBSET Locations, old: Aggregate]
NoJob == [step |-> "off", hour |-> 0, now |-> 0, mark |-> FALSE,
          fresh |-> Zero, missing |-> {}, old |-> Empty]
PassState == [on: BOOLEAN, now: Nat, left: Seq(Hours), down: SUBSET Locations, failed: BOOLEAN]
FillState == [on: BOOLEAN, listed: BOOLEAN, at: Nat, full: BOOLEAN,
              todo: SUBSET Hours, marks: SUBSET Hours]
Runner == [down: SUBSET Locations, readMissing: BOOLEAN, recovered: BOOLEAN,
           storeFailed: BOOLEAN, needFull: BOOLEAN, lastFull: Nat, backfilling: BOOLEAN]
NoPass == [on |-> FALSE, now |-> 0, left |-> << >>, down |-> {}, failed |-> FALSE]
NoFill == [on |-> FALSE, listed |-> FALSE, at |-> 0, full |-> FALSE, todo |-> {}, marks |-> {}]

-----------------------------------------------------------------------------
(* RollupHour.                                                             *)

Larger(x, y) == IF x > y THEN x ELSE y

\* mergeStored: every location keeps the larger of its two counts.
MergeStored(fresh, old) == [l \in Locations |-> Larger(fresh[l], old[l])]

Placeholder(old) == old.missing # {} /\ old.count = Zero

Call(h, now, mark) == [NoJob EXCEPT !.step = "read", !.hour = h, !.now = now, !.mark = mark]

\* rollupServiceHour notes a location that could not be read and a failure on
\* the primary.
Noted(f, missing, failed) ==
  [f EXCEPT !.readMissing = @ \/ missing # {}, !.storeFailed = @ \/ failed,
            !.needFull = @ \/ failed]

\* The worker's call returns; a pass collects what it says.
JobEnds(w, missing, failed) ==
  /\ jobs' = [jobs EXCEPT ![w] = NoJob]
  /\ flags' = Noted(flags, missing, failed)
  /\ pass' = IF w = "pass"
               THEN [pass EXCEPT !.down = @ \cup missing, !.failed = @ \/ failed]
               ELSE pass

\* (mutant) The location that could not be read is not listed.
ReadBlindly(w) ==
  /\ jobs[w].step = "read"
  /\ jobs' = [jobs EXCEPT ![w].step = "get",
                          ![w].fresh = [l \in Locations |->
                                          IF up[l] THEN raw[l][jobs[w].hour] ELSE 0]]
  /\ UNCHANGED <<hour, up, raw, stored, pass, fill, flags, env>>

\* computeAggregate reads every location's raw samples.
JobRead(w) ==
  /\ jobs[w].step = "read"
  /\ IF jobs[w].hour + Retention <= jobs[w].now
       THEN JobEnds(w, {}, FALSE)
       ELSE /\ jobs' = [jobs EXCEPT
                 ![w].step = "get",
                 ![w].missing = {l \in Locations : ~up[l]},
                 ![w].fresh = [l \in Locations |-> IF up[l] THEN raw[l][jobs[w].hour] ELSE 0]]
            /\ UNCHANGED <<pass, flags>>
  /\ UNCHANGED <<hour, up, raw, stored, fill, env>>

\* HGET of the stored rollup.
JobGet(w) ==
  /\ jobs[w].step = "get"
  /\ IF up[Primary]
       THEN /\ jobs' = [jobs EXCEPT ![w].step = "put", ![w].old = stored[jobs[w].hour]]
            /\ UNCHANGED <<pass, flags>>
       ELSE JobEnds(w, jobs[w].missing, TRUE)
  /\ UNCHANGED <<hour, up, raw, stored, fill, env>>

InProgress(j) == j.now <= j.hour

\* What the call stores for its hour; the old rollup where it stores nothing.
Result(j) ==
  LET merged == MergeStored(j.fresh, j.old.count) IN
  IF merged = Zero /\ Placeholder(j.old) /\ j.missing = {} THEN "delete"
  ELSE IF merged = Zero /\ (j.missing = {} \/ InProgress(j) \/ ~j.mark
                            \/ (Placeholder(j.old) /\ j.old.missing = j.missing)) THEN "keep"
  ELSE "write"

\* (mutant) A finished location's stored count is replaced by the fresh one.
StoredAsRead(j) ==
  [count |-> j.fresh, missing |-> j.missing, inProgress |-> InProgress(j)]

StoredAs(j) ==
  [count |-> MergeStored(j.fresh, j.old.count), missing |-> j.missing,
   inProgress |-> InProgress(j)]

\* HSET and its TTL, or HDEL, or nothing; a call to a primary that does not
\* answer fails.
JobPut(w) ==
  LET j == jobs[w] IN
  /\ j.step = "put"
  /\ \/ /\ Result(j) = "keep"
        /\ JobEnds(w, j.missing, FALSE) /\ UNCHANGED stored
     \/ /\ Result(j) = "delete" /\ up[Primary]
        /\ JobEnds(w, j.missing, FALSE) /\ stored' = [stored EXCEPT ![j.hour] = Empty]
     \/ /\ Result(j) = "write" /\ up[Primary]
        /\ JobEnds(w, j.missing, FALSE) /\ stored' = [stored EXCEPT ![j.hour] = StoredAs(j)]
     \/ /\ Result(j) # "keep" /\ ~up[Primary]
        /\ JobEnds(w, j.missing, TRUE) /\ UNCHANGED stored
  /\ UNCHANGED <<hour, up, raw, fill, env>>

\* HSET went through and HEXPIRE or PERSIST did not: the primary fails between.
JobPutPartly(w) ==
  LET j == jobs[w] IN
  /\ j.step = "put" /\ Result(j) = "write" /\ up[Primary]
  /\ env.outages < env.scenario.outages /\ env' = [env EXCEPT !.outages = @ + 1]
  /\ up' = [up EXCEPT ![Primary] = FALSE]
  /\ JobEnds(w, j.missing, TRUE) /\ stored' = [stored EXCEPT ![j.hour] = StoredAs(j)]
  /\ UNCHANGED <<hour, raw, fill>>

-----------------------------------------------------------------------------
(* runOnce: the current hour, then the one before.                         *)

\* union fails when every location does, and leaves out what only a location
\* that does not answer knows.
ListFails == \A l \in Locations : ~up[l]
Listed == \E l \in Known : up[l]

PassedHour(now) == env.passed \/ now = hour

PassStart ==
  /\ ~pass.on /\ Listed
  /\ pass' = [NoPass EXCEPT !.on = TRUE, !.now = hour,
                            !.left = IF hour = 0 THEN <<0>> ELSE <<hour, hour - 1>>]
  /\ UNCHANGED <<hour, up, raw, stored, jobs, fill, flags, env>>

\* The list cannot be read: noteStoreFailed, and no pass.
PassListFails ==
  /\ ~pass.on /\ ListFails
  /\ flags' = [flags EXCEPT !.storeFailed = TRUE, !.needFull = TRUE]
  /\ env' = [env EXCEPT !.passed = TRUE]
  /\ UNCHANGED <<hour, up, raw, stored, jobs, pass, fill>>

\* The service is not on the list: nothing is rolled up, nothing is noted.
PassUnlisted ==
  /\ ~pass.on /\ ~ListFails /\ ~Listed
  /\ env' = [env EXCEPT !.passed = TRUE, !.unseen = TRUE]
  /\ UNCHANGED <<hour, up, raw, stored, jobs, pass, fill, flags>>

PassHour ==
  /\ pass.on /\ jobs["pass"].step = "off" /\ pass.left # << >>
  /\ jobs' = [jobs EXCEPT !["pass"] = Call(Head(pass.left), pass.now, TRUE)]
  /\ pass' = [pass EXCEPT !.left = Tail(@)]
  /\ UNCHANGED <<hour, up, raw, stored, fill, flags, env>>

\* now.Sub(lastFull) >= fullBackfillGap, as far as whole hours tell.
GapOver(now, b) == \/ now - flags.lastFull > 1
                   \/ now - flags.lastFull = 1 /\ b

\* (mutant) The flags are cleared although a backfill is running.
AfterPassForgets ==
  /\ pass.on /\ jobs["pass"].step = "off" /\ pass.left = << >>
  /\ LET repair == flags.readMissing \/ (flags.storeFailed /\ ~pass.failed) IN
     /\ flags' = [flags EXCEPT !.down = pass.down, !.readMissing = ~repair /\ @,
                               !.storeFailed = ~repair /\ @,
                               !.backfilling = @ \/ repair]
     /\ fill' = IF repair /\ ~flags.backfilling
                  THEN [NoFill EXCEPT !.on = TRUE, !.at = pass.now] ELSE fill
  /\ pass' = NoPass
  /\ env' = [env EXCEPT !.passed = PassedHour(pass.now)]
  /\ UNCHANGED <<hour, up, raw, stored, jobs>>

AfterPass ==
  /\ pass.on /\ jobs["pass"].step = "off" /\ pass.left = << >>
  /\ \E b \in BOOLEAN :
       LET recovered == flags.recovered \/ flags.down \ pass.down # {}
           full == flags.needFull /\ ~pass.failed /\ GapOver(pass.now, b)
           repair == \/ flags.readMissing /\ (recovered \/ pass.down = {})
                     \/ flags.storeFailed /\ ~pass.failed
           start == ~flags.backfilling /\ (full \/ repair)
       IN /\ flags' = [flags EXCEPT
                         !.down = pass.down,
                         !.recovered = recovered /\ ~start,
                         !.readMissing = @ /\ ~start, !.storeFailed = @ /\ ~start,
                         !.backfilling = @ \/ start,
                         !.needFull = @ /\ ~(start /\ full),
                         !.lastFull = IF start /\ full THEN pass.now ELSE @]
          /\ fill' = IF start
                       THEN [NoFill EXCEPT !.on = TRUE, !.at = pass.now, !.full = full]
                       ELSE fill
  /\ pass' = NoPass
  /\ env' = [env EXCEPT !.passed = PassedHour(pass.now)]
  /\ UNCHANGED <<hour, up, raw, stored, jobs>>

-----------------------------------------------------------------------------
(* backfill: one snapshot of the stored rollups, then hour by hour back.   *)

Window(at) == {h \in Hours : h < at /\ at < h + Retention}
WindowAndNow(at) == Window(at) \cup {at}

\* ExpireRollupFields deletes what is past its retention.
Expired(at) == [h \in Hours |-> IF h + Retention <= at THEN Empty ELSE stored[h]]

\* The hours to do, and of those the ones a call may mark.
BackfillList ==
  /\ fill.on /\ ~fill.listed
  /\ Listed /\ up[Primary]
  /\ stored' = IF fill.full THEN Expired(fill.at) ELSE stored
  /\ LET seen == {h \in WindowAndNow(fill.at) : stored[h] # Empty}
         marked == {h \in seen : Marked(stored[h])}
         todo == {h \in Window(fill.at) : h \notin seen \ marked /\ (fill.full \/ h \in marked)}
     IN fill' = [fill EXCEPT !.listed = TRUE, !.todo = todo,
                             !.marks = {h \in todo : \E s \in seen : s <= h}]
  /\ UNCHANGED <<hour, up, raw, jobs, pass, flags, env>>

\* (mutant) The flag stays set.
DoneForgets == fill' = NoFill /\ UNCHANGED flags

Done == /\ fill' = NoFill
        /\ flags' = [flags EXCEPT !.backfilling = FALSE]

\* The list or the stored rollups cannot be read: the failure is logged and
\* the backfill is over.
BackfillListFails ==
  /\ fill.on /\ ~fill.listed
  /\ ~Listed \/ ~up[Primary]
  /\ Done /\ env' = [env EXCEPT !.unseen = TRUE]
  /\ UNCHANGED <<hour, up, raw, stored, jobs, pass>>

BackfillHour ==
  /\ fill.listed /\ jobs["fill"].step = "off" /\ fill.todo # {}
  /\ \E h \in fill.todo :
       /\ \A k \in fill.todo : k <= h
       /\ jobs' = [jobs EXCEPT !["fill"] = Call(h, fill.at, h \in fill.marks)]
       /\ fill' = [fill EXCEPT !.todo = @ \ {h}]
  /\ UNCHANGED <<hour, up, raw, stored, pass, flags, env>>

BackfillEnds ==
  /\ fill.listed /\ jobs["fill"].step = "off" /\ fill.todo = {}
  /\ Done
  /\ UNCHANGED <<hour, up, raw, stored, jobs, pass, env>>

-----------------------------------------------------------------------------
(* What happens around the dashboard.                                      *)

\* The operator at l names the service there and adds a sample to the current
\* hour; it reaches its own location also while the dashboard does not.
Sample(l) ==
  /\ l \in Known
  /\ env.samples < env.scenario.samples /\ env' = [env EXCEPT !.samples = @ + 1]
  /\ raw' = [raw EXCEPT ![l][hour] = @ + 1]
  /\ UNCHANGED <<hour, up, stored, jobs, pass, fill, flags>>

\* Raw samples of an hour long over expire.
RawExpires(l, h) ==
  /\ h + 1 < hour /\ raw[l][h] > 0
  /\ raw' = [raw EXCEPT ![l][h] = 0]
  /\ UNCHANGED <<hour, up, stored, jobs, pass, fill, flags, env>>

FieldExpires(h) ==
  /\ h + Retention <= hour /\ stored[h] # Empty
  /\ stored' = [stored EXCEPT ![h] = Empty]
  /\ UNCHANGED <<hour, up, raw, jobs, pass, fill, flags, env>>

Outage(l) ==
  /\ up[l] /\ env.outages < env.scenario.outages
  /\ up' = [up EXCEPT ![l] = FALSE] /\ env' = [env EXCEPT !.outages = @ + 1]
  /\ UNCHANGED <<hour, raw, stored, jobs, pass, fill, flags>>

Recovery(l) ==
  /\ ~up[l] /\ up' = [up EXCEPT ![l] = TRUE]
  /\ UNCHANGED <<hour, raw, stored, jobs, pass, fill, flags, env>>

\* Every hour sees a whole pass: rollupInterval is 5m unless configured.
NextHour ==
  /\ hour < MaxHour /\ env.passed
  /\ hour' = hour + 1 /\ env' = [env EXCEPT !.passed = FALSE]
  /\ UNCHANGED <<up, raw, stored, jobs, pass, fill, flags>>

\* Runner.Start: a full backfill in the background, and the first pass.
Started(now) ==
  /\ flags' = [down |-> {}, readMissing |-> FALSE, recovered |-> FALSE, storeFailed |-> FALSE,
               needFull |-> FALSE, lastFull |-> now, backfilling |-> TRUE]
  /\ fill' = [NoFill EXCEPT !.on = TRUE, !.at = now, !.full = TRUE]
  /\ pass' = NoPass /\ jobs' = [w \in Workers |-> NoJob]

Restart ==
  /\ env.restarts < env.scenario.restarts /\ env' = [env EXCEPT !.restarts = @ + 1]
  /\ Started(hour)
  /\ UNCHANGED <<hour, up, raw, stored>>

Init ==
  /\ hour = 0 /\ up = [l \in Locations |-> TRUE]
  /\ raw = [l \in Locations |-> [h \in Hours |-> 0]] /\ stored = [h \in Hours |-> Empty]
  /\ flags = [down |-> {}, readMissing |-> FALSE, recovered |-> FALSE, storeFailed |-> FALSE,
              needFull |-> FALSE, lastFull |-> 0, backfilling |-> TRUE]
  /\ fill = [NoFill EXCEPT !.on = TRUE, !.full = TRUE]
  /\ pass = NoPass /\ jobs = [w \in Workers |-> NoJob]
  /\ \E s \in Scenarios :
       env = [scenario |-> s, outages |-> 0, restarts |-> 0, samples |-> 0,
              passed |-> FALSE, unseen |-> FALSE]

JobStep(w) == JobRead(w) \/ JobGet(w) \/ JobPut(w)
PassStep == PassStart \/ PassListFails \/ PassUnlisted \/ PassHour \/ AfterPass \/ JobStep("pass")
FillStep == BackfillList \/ BackfillListFails \/ BackfillHour \/ BackfillEnds \/ JobStep("fill")

Next ==
  \/ PassStep \/ FillStep \/ (\E w \in Workers : JobPutPartly(w))
  \/ (\E l \in Locations : Sample(l) \/ Outage(l) \/ Recovery(l))
  \/ (\E l \in Locations, h \in Hours : RawExpires(l, h))
  \/ (\E h \in Hours : FieldExpires(h))
  \/ NextHour \/ Restart

Spec == Init /\ [][Next]_vars

\* The ticker keeps starting passes, both workers go on, and an outage ends.
Fairness == /\ WF_vars(PassStep) /\ WF_vars(FillStep)
            /\ \A l \in Locations : WF_vars(Recovery(l))
FairSpec == Spec /\ Fairness

-----------------------------------------------------------------------------
(* Correctness.                                                            *)

\* Every variable has its type, and backfilling is set exactly while a
\* backfill runs: two never run at once, and none is forgotten.
TypeOK ==
  /\ hour \in Hours /\ up \in [Locations -> BOOLEAN] /\ raw \in [Locations -> [Hours -> Nat]]
  /\ stored \in [Hours -> Aggregate] /\ jobs \in [Workers -> Job]
  /\ flags.backfilling = fill.on
  /\ ~fill.on => jobs["fill"].step = "off"
  /\ ~pass.on => jobs["pass"].step = "off"

\* A finished rollup counts everything: one that is not marked, of an hour that
\* is over, counts at least the samples every location still holds.  So no
\* reader of a rollup and no backfill misses data that could be read.
UnmarkedIsComplete ==
  \A h \in Hours : h < hour /\ stored[h] # Empty /\ ~Marked(stored[h]) =>
     \A l \in Locations : stored[h].count[l] >= raw[l][h]

\* The workers' own state; a backfill calls RollupHour only once it has its list.
WorkersTyped ==
  /\ pass \in PassState /\ fill \in FillState /\ flags \in Runner
  /\ fill.listed => fill.on
  /\ ~fill.listed => jobs["fill"].step = "off"

\* No worker is ahead of the clock, and calls are for hours there are.
NoneAhead ==
  /\ pass.now <= hour /\ fill.at <= hour
  /\ \A w \in Workers : jobs[w].now <= hour /\ jobs[w].hour \in Hours

\* A rollup of an hour that is not over says so.
CurrentInProgress ==
  \A h \in Hours : h >= hour /\ stored[h] # Empty => stored[h].inProgress

\* A call for an hour that was over when its worker started has counted all that
\* the locations it could read still hold: raw samples of such an hour only go.
ReadIsComplete ==
  \A w \in Workers : jobs[w].step \in {"get", "put"} /\ ~InProgress(jobs[w]) =>
     \A l \in Locations \ jobs[w].missing : jobs[w].fresh[l] >= raw[l][jobs[w].hour]

\* The inductive invariant behind complete rollups.
RollupInv ==
  /\ TypeOK /\ WorkersTyped /\ NoneAhead /\ CurrentInProgress /\ ReadIsComplete
  /\ UnmarkedIsComplete

\* Counts are lost only in a race: a stored count of an hour that is kept drops
\* only when a call writes over what was stored after it read.  Outages, a
\* half-done write, expired samples and restarts alone never lose one.
OnlyRacesDrop ==
  [][ \A h \in Hours, l \in Locations :
        stored'[h].count[l] < stored[h].count[l] /\ h + Retention > hour =>
           \E w \in Workers : /\ jobs[w].step = "put" /\ jobs[w].hour = h
                              /\ jobs[w].old # stored[h] ]_vars

\* Every finished hour that is marked is finished by a later pass or backfill
\* while it is kept, unless a list was lost on the way: afterPass clears the
\* flags when it starts a backfill, and what that backfill leaves sets them
\* again.
MarkedIsFinishedIfSeen ==
  \A h \in Hours :
     h < hour /\ Marked(stored[h])
        ~> ~Marked(stored[h]) \/ h + Retention <= hour \/ env.unseen

\* A backfill of the marked hours "to finish what earlier passes and backfills
\* left incomplete" is started "once a location that could not be read answers
\* again ... and once a pass stores everything after a failure to list, read
\* or write on the primary" (rollup.go).
MarkedIsFinished ==
  \A h \in Hours :
     h < hour /\ Marked(stored[h]) ~> ~Marked(stored[h]) \/ h + Retention <= hour

\* "Every location keeps its stored counts when they are higher" (RollupHour).
CountsNeverDrop ==
  [][ \A h \in Hours, l \in Locations :
        stored'[h].count[l] < stored[h].count[l] => h + Retention <= hour ]_vars
=============================================================================

-------------------------------- MODULE History -------------------------------
(***************************************************************************)
(* What the dashboard's pages show of one service: its daily rollups, the  *)
(* uptime, the day bars, the current status and the latency chart, over    *)
(* raw samples that expire and hourly rollups that replace them.  Rollup   *)
(* models when the runner calls RollupHour and how two calls interleave;   *)
(* here a call is one step of a run that began at any time before, and the *)
(* daily rollups' read and write are two.  Time is counted in slots, a     *)
(* location checks at most once in a slot.                                 *)
(***************************************************************************)
EXTENDS Integers, FiniteSetsExt, StatusLadder

CONSTANTS
  Locations,
  HourLen,        \* slots in an hour
  DayHours,       \* hours in a day
  RetentionDays,  \* the dashboard's retentionDays
  MaxAge,         \* StatusMaxAge, in slots
  MaxPoints,      \* maxPlotPoints
  MaxTime,        \* the clock's horizon
  MaxSamples,     \* checks in all
  MaxOutages      \* RollupHour calls that cannot read some location

ASSUME HistoryAssumption ==
  /\ HourLen \in Nat \ {0} /\ DayHours \in Nat \ {0} /\ RetentionDays \in Nat \ {0}
  /\ IsFiniteSet(Locations)
  /\ MaxAge \in Nat /\ MaxAge >= HourLen /\ MaxPoints \in Nat \ {0} /\ MaxTime \in Nat /\ MaxSamples \in Nat
  /\ MaxOutages \in Nat

VARIABLES
  now,            \* the clock
  made,           \* every check that was made (observer)
  gone,           \* those whose raw samples have expired
  stored,         \* the hourly rollups on the primary
  daily,          \* the daily rollups on the primary
  updates,        \* the daily update each worker has read and not written
  outages         \* RollupHour calls so far that could not read some location
vars == <<now, made, gone, stored, daily, updates, outages>>

Workers == {"pass", "fill"}
HourOf(t) == t \div HourLen
DayOf(h) == h \div DayHours
Cur == HourOf(now)
Today == DayOf(Cur)
KeptHours == RetentionDays * DayHours
raw == made \ gone

\* Checks and how many failed.
Count(samples) == [total |-> Cardinality(samples),
                   failed |-> Cardinality({s \in samples : ~s.ok})]
NoChecks == [total |-> 0, failed |-> 0]
Plus(a, b) == [total |-> a.total + b.total, failed |-> a.failed + b.failed]
Sum(counts) == FoldFunction(Plus, NoChecks, counts)

-----------------------------------------------------------------------------
(* The hourly rollups.  One with no location, stored only to be found by a  *)
(* later backfill, is Placeholder.                                         *)

Placeholder == [l \in Locations |-> NoChecks]
Stored(h) == IF h \in DOMAIN stored THEN stored[h] ELSE Placeholder
Without(f, keys) == [k \in DOMAIN f \ keys |-> f[k]]
With(f, key, value) == [k \in DOMAIN f \cup {key} |-> IF k = key THEN value ELSE f[k]]

ComputeLocationRollup(l, h) == Count({s \in raw : s.at = l /\ HourOf(s.t) = h})
computeAggregate(h, down) ==
  [l \in Locations |-> IF l \in down THEN NoChecks ELSE ComputeLocationRollup(l, h)]
mergeStored(fresh, old) ==
  [l \in Locations |-> IF old[l].total > fresh[l].total THEN old[l] ELSE fresh[l]]
aggregate(rollup) == Sum(rollup)

\* At hour c, hour h is not older than the retention.
Kept(h, c) == h + KeptHours > c

\* A call takes the time at which its run began for the present: the hour may
\* have ended or expired since.  With mark the run asks for a placeholder, and
\* began once the hour was over.
RollupHour(h, down, mark) ==
  LET rollup == mergeStored(computeAggregate(h, down), Stored(h)) IN
  /\ {began \in h..Cur : Kept(h, began) /\ (mark => h < began)} # {}
  /\ outages' = IF down = {} THEN outages ELSE outages + 1
  /\ outages' <= MaxOutages
  /\ stored' = IF rollup # Placeholder \/ (down # {} /\ mark)
                 THEN With(stored, h, rollup)
               ELSE IF down = {} THEN Without(stored, {h}) ELSE stored
  /\ UNCHANGED <<now, made, gone, daily, updates>>

-----------------------------------------------------------------------------
(* The daily rollups: a pass updates the day of the hour before it began,   *)
(* once that day is over, and a backfill the finished days wholly inside   *)
(* its window, the hours that are kept when it begins.                     *)

HoursOf(d, hours) == {h \in DOMAIN hours : DayOf(h) = d}
DaySum(d, hours) == Sum([h \in HoursOf(d, hours) |-> aggregate(hours[h])])

Oldest(began) == began - (KeptHours - 1)
\* (mutant) The window's first day counts although it has begun before.
FirstBegun(began) == IF Oldest(began) <= 0 THEN 0 ELSE DayOf(Oldest(began))
FirstFull(began) ==
  IF Oldest(began) <= 0 THEN 0 ELSE DayOf(Oldest(began) + DayHours - 1)

\* The day, its checks, and whether the run began while all its hours were kept
\* (observer).
NoUpdate == [day |-> -1, sum |-> NoChecks, whole |-> FALSE]
Whole(d, c) == Kept(d * DayHours, c)
MayUpdate(w, began, d) ==
  d < DayOf(began) /\ IF w = "pass" THEN d = DayOf(began - 1) ELSE d >= FirstFull(began)

\* Without checks on the day nothing is written.
UpdateDailyRead(w, began, d) ==
  LET sum == DaySum(d, stored) IN
  /\ updates[w] = NoUpdate /\ MayUpdate(w, began, d) /\ sum.total > 0
  /\ updates' = [updates EXCEPT ![w] = [day |-> d, sum |-> sum, whole |-> Whole(d, began)]]
  /\ UNCHANGED <<now, made, gone, stored, daily, outages>>

UpdateDailyWrite(w) ==
  /\ updates[w] # NoUpdate
  /\ daily' = With(daily, updates[w].day, updates[w].sum)
  /\ updates' = [updates EXCEPT ![w] = NoUpdate]
  /\ UNCHANGED <<now, made, gone, stored, outages>>

-----------------------------------------------------------------------------
(* What the pages read, while the locations in down do not answer.         *)

\* (mutant) The current hour as it is stored.
StoredHour(down) == Stored(Cur)
liveHour(down) == mergeStored(computeAggregate(Cur, down), Stored(Cur))

HistoryHours(down) ==
  LET hours == Without(stored, {h \in DOMAIN stored : DayOf(h) < Today - RetentionDays})
      live == liveHour(down)
  IN IF live # Placeholder THEN With(hours, Cur, live) ELSE hours

\* (mutant) A finished day adds its daily rollup to its hours.
ByDayTwice(hours, d) ==
  Plus(IF d \in DOMAIN daily /\ d < Today THEN daily[d] ELSE NoChecks, DaySum(d, hours))
ByDay(hours, d) ==
  IF d \in DOMAIN daily /\ d < Today THEN daily[d] ELSE DaySum(d, hours)
Uptime(hours, days) == Sum([d \in (Today - days + 1)..Today |-> ByDay(hours, d)])

\* Hundredths of a percent, rounded down; Empty without checks.
Empty == -1
Hundred == 10000
FormatPercent(success, total) ==
  IF total <= 0 THEN Empty ELSE IF success >= total THEN Hundred
  ELSE (success * Hundred) \div total
sla(hours, days) == LET c == Uptime(hours, days) IN FormatPercent(c.total - c.failed, c.total)

aggregateStatus(rollup) ==
  AggregateFromLocations(
    [l \in {k \in Locations : rollup[k].total > 0} |->
       LocationFromCounts(rollup[l].total - rollup[l].failed, rollup[l].failed)])

currentStatus(hours) ==
  LET recent == {h \in DOMAIN hours : h * HourLen >= now - MaxAge} IN
  IF recent = {} THEN "unknown" ELSE aggregateStatus(hours[Max(recent)])

Worst(statuses) == CHOOSE s \in statuses : \A t \in statuses : Rank(t) <= Rank(s)
dayBar(hours, d) ==
  [status |-> Worst({"unknown"} \cup {aggregateStatus(hours[h]) : h \in HoursOf(d, hours)}),
   failed |-> ByDay(hours, d).failed]

-----------------------------------------------------------------------------
(* The latency chart, from from until now.                                 *)

RawHour(l, h, down) == IF l \in down THEN {} ELSE {s \in raw : s.at = l /\ HourOf(s.t) = h}

\* (mutant) A rollup is used as soon as there is one.
UseAnyRollup(l, h, from, down) == h * HourLen >= from
UseRollup(l, h, from, down) ==
  LET rh == RawHour(l, h, down) IN
  /\ h * HourLen >= from
  /\ rh = {} \/ (h < Cur - 1 /\ stored[h][l].total > Cardinality(rh))

RawEntries(l, h, from, down) ==
  {[t |-> s.t, count |-> Count({s})] : s \in {s \in RawHour(l, h, down) : s.t >= from}}

HourEntries(l, h, from, down) ==
  IF h \in DOMAIN stored /\ stored[h][l].total > 0 /\ UseRollup(l, h, from, down)
    THEN {[t |-> h * HourLen, count |-> stored[h][l]]}
  ELSE RawEntries(l, h, from, down)

Entries(l, from, down) == UNION {HourEntries(l, h, from, down) : h \in HourOf(from)..Cur}

Bucket(span, points) == span \div points + 1
Index(t, from, bucket) == (t - from) \div bucket

\* The points of a series, each the sum of the entries that share its slot.
Line(entries, slot) ==
  [i \in {slot[e] : e \in entries} |->
     Sum([e \in {f \in entries : slot[f] = i} |-> e.count])]

Latency(from, points, down) ==
  LET entries == [l \in Locations |-> Entries(l, from, down)]
      grouped == points > 0 /\ \E l \in Locations : Cardinality(entries[l]) > points
      At(t) == IF grouped THEN Index(t, from, Bucket(now - from, points)) ELSE t
  IN [l \in Locations |-> LET own == entries[l] IN Line(own, [e \in own |-> At(e.t)])]

\* handleAPILatency: the range ends now, and one day is not grouped.
From(days) == now - days * DayHours * HourLen
PointsOf(days) == IF days <= 1 THEN 0 ELSE MaxPoints

-----------------------------------------------------------------------------
Check(l, ok) ==
  /\ Cardinality(made) < MaxSamples /\ ~\E s \in made : s.at = l /\ s.t = now
  /\ made' = made \cup {[at |-> l, t |-> now, ok |-> ok]}
  /\ UNCHANGED <<now, gone, stored, daily, updates, outages>>

RawExpires(s) ==
  /\ HourOf(s.t) < Cur - 1 /\ gone' = gone \cup {s}
  /\ UNCHANGED <<now, made, stored, daily, updates, outages>>

\* A rollup's field lives until its hour is older than the retention, and longer
\* when a run that began before has written it: the TTL is what was left then.
RollupExpires(h) ==
  /\ ~Kept(h, Cur) /\ stored' = Without(stored, {h})
  /\ UNCHANGED <<now, made, gone, daily, updates, outages>>

Tick ==
  /\ now < MaxTime /\ now' = now + 1
  /\ UNCHANGED <<made, gone, stored, daily, updates, outages>>

Init ==
  /\ now = 0 /\ made = {} /\ gone = {} /\ stored = << >> /\ daily = << >>
  /\ updates = [w \in Workers |-> NoUpdate] /\ outages = 0

Next ==
  \/ Tick
  \/ \E l \in Locations, ok \in BOOLEAN : Check(l, ok)
  \/ \E s \in raw : RawExpires(s)
  \/ \E h \in DOMAIN stored : RollupExpires(h)
  \/ \E h \in 0..Cur, down \in SUBSET Locations, mark \in BOOLEAN : RollupHour(h, down, mark)
  \/ \E w \in Workers, began \in 0..Cur, d \in 0..Today : UpdateDailyRead(w, began, d)
  \/ \E w \in Workers : UpdateDailyWrite(w)

Spec == Init /\ [][Next]_vars
-----------------------------------------------------------------------------
(* Correctness.                                                            *)

MadeOn(d) == Count({s \in made : DayOf(HourOf(s.t)) = d})
AtMost(a, b) == a.total <= b.total /\ a.failed <= b.failed

\* The uptime never counts a check twice, whether the day still has its hours,
\* only its daily rollup or both, and whoever answers; and no hour or day that
\* the pages show counts a check that was not made.
UptimeCountsOnce ==
  LET checks == [days \in 1..(RetentionDays + 1) |-> Sum([d \in (Today - days + 1)..Today |-> MadeOn(d)])]
  IN \A hours \in {HistoryHours(down) : down \in SUBSET Locations}, days \in DOMAIN checks :
       AtMost(Uptime(hours, days), checks[days])

\* The raw samples of this hour, and the failures that can be read.
CheckedNow == {s \in raw : HourOf(s.t) = Cur}
FailedNow(down) == {s \in CheckedNow : ~s.ok /\ s.at \notin down}

\* A failed check of today that can be read shows at once: in today's bar and
\* in the uptime, which is never 100% then; and while every location answers
\* and has only failures this hour, the status is a major outage.
FailuresShow ==
  \A down \in SUBSET Locations :
     LET hours == HistoryHours(down)
         failures == FailedNow(down)
     IN failures # {} =>
          /\ dayBar(hours, Today).failed >= Cardinality(failures)
          /\ \A days \in 1..(RetentionDays + 1) : sla(hours, days) \in 0..(Hundred - 1)
          /\ down = {} /\ CheckedNow = failures =>
               currentStatus(hours) = "major_outage" /\ dayBar(hours, Today).status = "major_outage"

InRange(samples, l, from) == Count({s \in samples : s.at = l /\ s.t >= from})

\* The chart plots every check of the range that a location still holds exactly
\* once, as itself or within its hour's rollup, and nothing that was not
\* checked in the range, in at most maxPlotPoints points.
LatencyPlotsOnce ==
  \A days \in 1..RetentionDays, down \in SUBSET Locations :
     LET series == Latency(From(days), PointsOf(days), down) IN
     \A l \in Locations :
        LET line == series[l]  plotted == Sum(line) IN
        /\ AtMost(plotted, InRange(made, l, From(days)))
        /\ l \notin down => InRange(raw, l, From(days)).total <= plotted.total
        /\ PointsOf(days) > 0 => Cardinality(DOMAIN line) <= PointsOf(days)

\* A finished day's rollup loses checks only in a race, when a worker writes a
\* sum that the day's hours no longer have, or in a run so long that hours of the
\* day have expired which were kept when it began.  (With one day of retention a
\* pass meets the day before with its first hour expired.)
DaysDropByRaceOrDelay ==
  [][ \A d \in DOMAIN daily :
        daily'[d].total < daily[d].total =>
           \E w \in Workers :
              /\ updates[w].day = d
              /\ \/ updates[w].sum # DaySum(d, stored)
                 \/ /\ ~Whole(d, Cur)
                    /\ updates[w].whole \/ (w = "pass" /\ RetentionDays = 1) ]_vars
=============================================================================

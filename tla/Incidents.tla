------------------------------- MODULE Incidents -------------------------------
(***************************************************************************)
(* How the dashboard turns one service's checks into hourly rollups and    *)
(* those into failure incidents: ComputeLocationRollup, aggregateStatus,   *)
(* FailureWindows and mergeSegments of dashboard/internal/store/store.go.  *)
(* The state is every location's checks so far and the clock; the          *)
(* algorithms are operators, compared with direct definitions.             *)
(***************************************************************************)
EXTENDS SequencesExt, Integers, StatusLadder

CONSTANTS
  Locations,
  Messages,       \* failure messages
  Hour,           \* time units in an hour
  MergeGap,       \* mergeGapSeconds
  MaxAge,         \* StatusMaxAge
  MaxTime         \* the clock's horizon

ASSUME IncidentsAssumption ==
  /\ Hour \in Nat \ {0} /\ MergeGap \in Nat /\ MaxTime \in Nat
  /\ MaxAge \in Nat /\ MaxAge >= Hour /\ IsFiniteSet(Locations)

VARIABLES
  checks,         \* checks[l]: the samples of location l, oldest first
  now             \* the clock
vars == <<checks, now>>

\* A sample is its second and its failure's message, Ok for a success.
Ok == "ok"

HourOf(t) == t \div Hour
HourNow == HourOf(now)

\* How many samples of l are older than hour h, and those of the hour.
Earlier(l, h) == Cardinality({i \in DOMAIN checks[l] : HourOf(checks[l][i].ts) < h})
InHour(l, h) == SubSeq(checks[l], Earlier(l, h) + 1, Earlier(l, h + 1))

-----------------------------------------------------------------------------
(* ComputeLocationRollup: one location's hour.                             *)

NewRun(s, first) == [start |-> s.ts, end |-> s.ts, count |-> 1, msg |-> s.msg,
                     openStart |-> first, openEnd |-> FALSE]
Extended(run, end, count) == [run EXCEPT !.end = end, !.count = @ + count]
ReplaceLast(seq, e) == Append(Front(seq), e)

\* One sample of the scan: a failure extends the open run of its message or
\* opens one; anything else closes it.
Scan(acc, s) ==
  [runs |-> IF s.msg = Ok THEN acc.runs
            ELSE IF acc.open /\ Last(acc.runs).msg = s.msg
              THEN ReplaceLast(acc.runs, Extended(Last(acc.runs), s.ts, 1))
            ELSE Append(acc.runs, NewRun(s, acc.seen = 0)),
   open |-> s.msg # Ok, seen |-> acc.seen + 1]

\* The hour's failure runs; the last one is open at the end of the hour.
NoSamples == [runs |-> << >>, open |-> FALSE, seen |-> 0]
Runs(samples) ==
  LET end == FoldLeft(Scan, NoSamples, samples) IN
  IF end.open THEN ReplaceLast(end.runs, [Last(end.runs) EXCEPT !.openEnd = TRUE])
              ELSE end.runs

Failures(samples) == Cardinality({i \in DOMAIN samples : samples[i].msg # Ok})
StatusOf(samples) ==
  LET failures == Failures(samples) IN
  LocationFromCounts(Len(samples) - failures, failures)

\* aggregateStatus over the locations with samples in the hour.
HourStatus(h) ==
  AggregateFromLocations([l \in {k \in Locations : InHour(k, h) # << >>} |->
                            StatusOf(InHour(l, h))])

-----------------------------------------------------------------------------
(* FailureWindows: the hours' runs, stitched per location.                 *)

NewSegment(l, run) == [loc |-> l, msg |-> run.msg, start |-> run.start, end |-> run.end,
                       count |-> run.count, ongoing |-> FALSE]

\* (mutant) Runs are stitched however far apart.
ContinuesEver(open, segs, run) ==
  open /\ run.openStart /\ Last(segs).msg = run.msg

\* open: the location's last hour so far ended in a failure.
Continues(open, segs, run) ==
  /\ open /\ run.openStart /\ Last(segs).msg = run.msg
  /\ run.start - Last(segs).end <= MaxAge

Stitch(l, open, segs, run) ==
  IF Continues(open, segs, run)
    THEN ReplaceLast(segs, Extended(Last(segs), run.end, run.count))
    ELSE Append(segs, NewSegment(l, run))

StitchHour(l, acc, h) ==
  LET samples == InHour(l, h)
      runs == Runs(samples)
      OntoSegments(segs, run) == Stitch(l, acc.open, segs, run)
  IN IF samples = << >> THEN acc
     ELSE [segs |-> FoldLeft(OntoSegments, acc.segs, runs),
           open |-> runs # << >> /\ Last(runs).openEnd, lastHour |-> h]

\* The hour's start is not older than MaxAge.
Recent(h) == h * Hour >= now - MaxAge

NoHours == [segs |-> << >>, open |-> FALSE, lastHour |-> 0]
Stitched(l, hours) == FoldLeft(LAMBDA acc, h : StitchHour(l, acc, h), NoHours, hours)

Segments(l, live) ==
  LET all == Stitched(l, [i \in 1..(HourNow + 1) |-> i - 1])
  IN IF live /\ all.open /\ Recent(all.lastHour)
       THEN ReplaceLast(all.segs, [Last(all.segs) EXCEPT !.ongoing = TRUE])
       ELSE all.segs

-----------------------------------------------------------------------------
(* mergeSegments: the segments of one message, by start, into incidents.   *)

NewWindow(seg) == [locations |-> {seg.loc}, msg |-> seg.msg, start |-> seg.start,
                   end |-> seg.end, count |-> seg.count, ongoing |-> seg.ongoing]

\* (mutant) A window ends where its newest segment ends.
WidenedToLast(win, seg) ==
  [win EXCEPT !.end = seg.end, !.count = @ + seg.count,
              !.ongoing = @ \/ seg.ongoing, !.locations = @ \cup {seg.loc}]

Widened(win, seg) ==
  [win EXCEPT !.end = IF seg.end > @ THEN seg.end ELSE @, !.count = @ + seg.count,
              !.ongoing = @ \/ seg.ongoing, !.locations = @ \cup {seg.loc}]

MergeInto(windows, seg) ==
  IF windows # << >> /\ seg.start <= Last(windows).end + MergeGap
    THEN ReplaceLast(windows, Widened(Last(windows), seg))
    ELSE Append(windows, NewWindow(seg))

\* sort.Slice puts a newest segment last, in any order where the starts are equal.
Newest(segs) == CHOOSE s \in segs : \A t \in segs : t.start <= s.start
Merged(segs) ==
  MapThenFoldSet(LAMBDA seg, windows : MergeInto(windows, seg), << >>,
                 LAMBDA seg : seg, Newest, segs)
MergeSegments(segments) ==
  UNION {ToSet(Merged({s \in segments : s.msg = m})) : m \in Messages}

\* FailureWindows merges these.
AllSegments(live) == UNION {ToSet(Segments(l, live)) : l \in Locations}

-----------------------------------------------------------------------------
\* The valkey notifier at l writes the sample of this second.
Check(l, msg) ==
  /\ \A i \in DOMAIN checks[l] : checks[l][i].ts # now
  /\ checks' = [checks EXCEPT ![l] = Append(@, [ts |-> now, msg |-> msg])]
  /\ UNCHANGED now

Tick == now < MaxTime /\ now' = now + 1 /\ UNCHANGED checks

Init == checks = [l \in Locations |-> << >>] /\ now = 0
Next == Tick \/ \E l \in Locations, msg \in Messages \cup {Ok} : Check(l, msg)
Spec == Init /\ [][Next]_vars

-----------------------------------------------------------------------------
(* Correctness: the direct definitions.                                    *)

\* Samples i and i + 1 of a location belong to one failure.
Joined(l, i) ==
  LET s == checks[l][i] t == checks[l][i + 1] IN
  s.msg # Ok /\ s.msg = t.msg /\ t.ts - s.ts <= MaxAge

\* The maximal stretches of samples that belong to one failure.
Stretches(l) ==
  {p \in (DOMAIN checks[l]) \X (DOMAIN checks[l]) :
     /\ p[1] <= p[2] /\ checks[l][p[1]].msg # Ok
     /\ \A i \in p[1]..(p[2] - 1) : Joined(l, i)
     /\ p[1] = 1 \/ ~Joined(l, p[1] - 1)
     /\ p[2] = Len(checks[l]) \/ ~Joined(l, p[2])}

\* Cutting a location's checks into hours, rolling up every hour and stitching
\* the hours' runs finds exactly the maximal runs of failures with one message,
\* with their starts, ends and counts, wherever the hours' boundaries fall.
\* The last one is ongoing exactly when it holds the location's newest sample,
\* whose hour is recent.
StitchedIsDirect ==
  \A l \in Locations, live \in BOOLEAN :
     LET segs == Segments(l, live)  stretches == Stretches(l) IN
     /\ ToSet(segs) =
          {[loc |-> l, msg |-> checks[l][p[1]].msg,
            start |-> checks[l][p[1]].ts, end |-> checks[l][p[2]].ts,
            count |-> p[2] - p[1] + 1,
            ongoing |-> live /\ p[2] = Len(checks[l])
                             /\ HourOf(checks[l][p[2]].ts) * Hour >= now - MaxAge] :
              p \in stretches}
     /\ Len(segs) = Cardinality(stretches)

Near(s, t) == s.msg = t.msg /\ s.start <= t.end + MergeGap /\ t.start <= s.end + MergeGap

Within(s, w) == s.msg = w.msg /\ w.start <= s.start /\ s.end <= w.end
Inside(segs, w) == {s \in segs : Within(s, w)}

\* Incidents are a partition of the failures: every failure is told by exactly
\* one incident, which counts and spans its failures and lists their locations,
\* two failures that are near are told by one, and two incidents of one message
\* are more than the merge gap apart.
IncidentsPartition ==
  LET segs == AllSegments(TRUE)
      wins == MergeSegments(segs)
      Told(w) == Inside(segs, w)
  IN /\ \A s \in segs : Cardinality({w \in wins : Within(s, w)}) = 1
     /\ \A s, t \in segs : Near(s, t) => \E w \in wins : {s, t} \subseteq Told(w)
     /\ \A v, w \in wins : v # w => ~Near(v, w)
     /\ \A w \in wins :
          /\ w.locations = {s.loc : s \in Told(w)}
          /\ w.ongoing = (\E s \in Told(w) : s.ongoing)
          /\ w.count = MapThenSumSet(LAMBDA s : s.count, Told(w))
          /\ \E s \in Told(w) : s.start = w.start
          /\ \E s \in Told(w) : s.end = w.end

\* Within an hour a failed check never improves the status the dashboard shows
\* for it, and a successful one worsens it only from unknown.
LadderIsMonotone ==
  [][ now' = now =>
        LET before == HourStatus(HourNow)  after == HourStatus(HourNow)' IN
        before # "unknown" =>
          \A l \in Locations : checks'[l] # checks[l] =>
            IF Last(checks'[l]).msg = Ok THEN Rank(after) <= Rank(before)
                                         ELSE Rank(after) >= Rank(before) ]_vars
=============================================================================

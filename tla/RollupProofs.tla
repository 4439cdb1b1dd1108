---------------------------- MODULE RollupProofs ----------------------------
(* Theorems about Rollup, for every set of locations, retention, horizon   *)
(* and scenario: what a rollup that is not marked says, and what may make  *)
(* a stored count drop.                                                    *)
EXTENDS Rollup, TLAPS

-----------------------------------------------------------------------------
(* The records the actions build.                                          *)

\* No location counts nothing, an absent rollup and an idle worker are typed.
LEMMA EmptyTypes ==
  /\ Zero \in Counts /\ Empty \in Aggregate /\ NoJob \in Job
  /\ ~Marked(Empty) /\ NoJob.step = "off" /\ NoJob.now = 0 /\ NoJob.hour = 0
  /\ 0 \in Hours
<1>1. Zero \in Counts
  BY DEF Zero, Counts
<1>2. Empty \in Aggregate
  BY <1>1 DEF Empty, Aggregate
<1>3. NoJob \in Job
  BY <1>1, <1>2 DEF NoJob, Job
<1> QED
  BY <1>1, <1>2, <1>3, RollupAssumption DEF Empty, Marked, NoJob, Hours

\* mergeStored gives every location the larger of its counts.
LEMMA MergedCounts ==
  ASSUME NEW fresh \in Counts, NEW old \in Counts
  PROVE  /\ MergeStored(fresh, old) \in Counts
         /\ \A l \in Locations : /\ MergeStored(fresh, old)[l] >= fresh[l]
                                 /\ MergeStored(fresh, old)[l] >= old[l]
BY DEF MergeStored, Larger, Counts

\* What a call writes: all that it read and all that was stored, marked when a
\* location is missing or the hour goes on.
LEMMA StoredAsType ==
  ASSUME NEW j \in Job
  PROVE  /\ StoredAs(j) \in Aggregate
         /\ StoredAs(j).missing = j.missing /\ StoredAs(j).inProgress = InProgress(j)
         /\ \A l \in Locations : /\ StoredAs(j).count[l] >= j.fresh[l]
                                 /\ StoredAs(j).count[l] >= j.old.count[l]
<1>1. j.fresh \in Counts /\ j.old \in Aggregate /\ j.missing \in SUBSET Locations
  BY DEF Job
<1>2. j.old.count \in Counts
  BY <1>1 DEF Aggregate
<1>3. InProgress(j) \in BOOLEAN
  BY DEF InProgress
<1> QED
  BY <1>1, <1>2, <1>3, MergedCounts DEF StoredAs, Aggregate

\* A call for an hour, at a time.
LEMMA CallType ==
  ASSUME NEW h \in Hours, NEW now \in Nat, NEW mark \in BOOLEAN
  PROVE  /\ Call(h, now, mark) \in Job /\ Call(h, now, mark).step = "read"
         /\ Call(h, now, mark).hour = h /\ Call(h, now, mark).now = now
<1>1. h \in Nat
  BY DEF Hours
<1> QED
  BY <1>1, EmptyTypes DEF Call, NoJob, Job

\* The invariant holds at first.
LEMMA RollupInit == Init => RollupInv
<1> SUFFICES ASSUME Init PROVE RollupInv
  OBVIOUS
<1> USE EmptyTypes, RollupAssumption
<1>1. hour = 0 /\ hour \in Hours /\ up \in [Locations -> BOOLEAN]
  BY DEF Init
<1>2. raw \in [Locations -> [Hours -> Nat]]
  BY DEF Init
<1>3. stored \in [Hours -> Aggregate] /\ \A h \in Hours : stored[h] = Empty
  BY DEF Init
<1>4. jobs \in [Workers -> Job] /\ \A w \in Workers : jobs[w] = NoJob
  BY DEF Init
<1>5. /\ pass = NoPass /\ flags.backfilling = fill.on /\ fill.on /\ ~pass.on
      /\ pass.now = 0 /\ fill.at = 0 /\ ~fill.listed
  BY DEF Init, NoFill, NoPass
<1>7. WorkersTyped
  <2>1. pass \in PassState
    BY <1>5 DEF NoPass, PassState
  <2>2. fill \in FillState
    BY DEF Init, NoFill, FillState
  <2>3. flags \in Runner
    BY DEF Init, Runner
  <2> QED
    BY <1>4, <1>5, <2>1, <2>2, <2>3 DEF WorkersTyped, Workers
<1>6. TypeOK
  BY <1>1, <1>2, <1>3, <1>4, <1>5 DEF TypeOK, Workers
<1> QED
  BY <1>1, <1>3, <1>4, <1>5, <1>6, <1>7
     DEF RollupInv, NoneAhead, CurrentInProgress, ReadIsComplete, UnmarkedIsComplete

-----------------------------------------------------------------------------
(* What the pieces of a step keep.                                         *)

\* A call that returns leaves its worker idle and the Runner's fields typed.
LEMMA JobEndsTypes ==
  ASSUME RollupInv, NEW w \in Workers, NEW missing \in SUBSET Locations,
         NEW failed \in BOOLEAN, JobEnds(w, missing, failed)
  PROVE  /\ jobs' \in [Workers -> Job]
         /\ \A v \in Workers : jobs'[v] = IF v = w THEN NoJob ELSE jobs[v]
         /\ pass' \in PassState /\ pass'.now = pass.now /\ pass'.on = pass.on
         /\ flags' \in Runner /\ flags'.backfilling = flags.backfilling
<1>1. jobs \in [Workers -> Job] /\ pass \in PassState /\ flags \in Runner
  BY DEF RollupInv, TypeOK, WorkersTyped
<1>2. /\ jobs' \in [Workers -> Job]
      /\ \A v \in Workers : jobs'[v] = IF v = w THEN NoJob ELSE jobs[v]
  BY <1>1, EmptyTypes DEF JobEnds
<1>3. pass' \in PassState /\ pass'.now = pass.now /\ pass'.on = pass.on
  <2>1. pass.down \cup missing \in SUBSET Locations
    BY <1>1 DEF PassState
  <2>2. (pass.failed \/ failed) \in BOOLEAN
    OBVIOUS
  <2> DEFINE down == pass.down \cup missing
             fails == pass.failed \/ failed
  <2>3. pass' = IF w = "pass" THEN [pass EXCEPT !.down = down, !.failed = fails] ELSE pass
    BY DEF JobEnds
  <2> QED
    BY <1>1, <2>1, <2>2, <2>3 DEF PassState
<1>4. flags' \in Runner /\ flags'.backfilling = flags.backfilling
  <2> DEFINE m == flags.readMissing \/ missing # {}
             s == flags.storeFailed \/ failed
             n == flags.needFull \/ failed
  <2>1. m \in BOOLEAN /\ s \in BOOLEAN /\ n \in BOOLEAN
    OBVIOUS
  <2>2. flags' = [flags EXCEPT !.readMissing = m, !.storeFailed = s, !.needFull = n]
    BY DEF JobEnds, Noted
  <2> HIDE DEF m, s, n
  <2> QED
    BY <1>1, <2>1, <2>2 DEF Runner
<1> QED
  BY <1>2, <1>3, <1>4

\* Storing one hour's rollup: marked while the hour goes on, complete afterwards.
LEMMA StoringKeeps ==
  ASSUME RollupInv, UNCHANGED <<hour, raw>>, NEW h \in Hours, NEW a \in Aggregate,
         stored' = [stored EXCEPT ![h] = a],
         a # Empty /\ h >= hour => a.inProgress,
         a # Empty /\ h < hour /\ ~Marked(a) => \A l \in Locations : a.count[l] >= raw[l][h]
  PROVE  stored' \in [Hours -> Aggregate] /\ CurrentInProgress' /\ UnmarkedIsComplete'
<1>1. stored \in [Hours -> Aggregate]
  BY DEF RollupInv, TypeOK
<1>2. \A k \in Hours : stored'[k] = IF k = h THEN a ELSE stored[k]
  BY <1>1
<1>3. CurrentInProgress'
  BY <1>2 DEF RollupInv, CurrentInProgress
<1>4. UnmarkedIsComplete'
  <2> SUFFICES ASSUME NEW k \in Hours, k < hour, stored'[k] # Empty, ~Marked(stored'[k]),
                      NEW l \in Locations
               PROVE  stored'[k].count[l] >= raw[l][k]
    BY DEF UnmarkedIsComplete
  <2>1. CASE k = h
    BY <1>2, <2>1
  <2>2. CASE k # h
    BY <1>2, <2>2 DEF RollupInv, UnmarkedIsComplete
  <2> QED
    BY <2>1, <2>2
<1> QED
  BY <1>1, <1>3, <1>4

\* A job that is over, or has not read yet, says nothing of what it has read.
LEMMA EndedJobKeeps ==
  ASSUME RollupInv, NEW w \in Workers, UNCHANGED <<hour, raw>>,
         \A v \in Workers : jobs'[v] = IF v = w THEN NoJob ELSE jobs[v],
         pass'.now = pass.now, fill'.at = fill.at
  PROVE  NoneAhead' /\ ReadIsComplete'
<1>1. hour \in Nat
  BY DEF RollupInv, TypeOK, Hours
<1>2. NoneAhead'
  BY <1>1, EmptyTypes DEF RollupInv, NoneAhead
<1>3. ReadIsComplete'
  <2> SUFFICES ASSUME NEW v \in Workers, jobs'[v].step \in {"get", "put"},
                      ~InProgress(jobs'[v]), NEW l \in Locations \ jobs'[v].missing
               PROVE  jobs'[v].fresh[l] >= raw[l][jobs'[v].hour]
    BY DEF ReadIsComplete, InProgress
  <2>1. v # w
    BY EmptyTypes
  <2> QED
    BY <2>1 DEF RollupInv, ReadIsComplete
<1> QED
  BY <1>2, <1>3

\* The call returns and writes nothing: the rest of the invariant.
LEMMA JobEndsKeeps ==
  ASSUME RollupInv, NEW w \in Workers, NEW missing \in SUBSET Locations,
         NEW failed \in BOOLEAN, JobEnds(w, missing, failed),
         UNCHANGED <<hour, raw, fill>>, up' \in [Locations -> BOOLEAN],
         stored' \in [Hours -> Aggregate], CurrentInProgress', UnmarkedIsComplete'
  PROVE  RollupInv'
<1>1. /\ jobs' \in [Workers -> Job]
      /\ \A v \in Workers : jobs'[v] = IF v = w THEN NoJob ELSE jobs[v]
      /\ pass' \in PassState /\ pass'.now = pass.now /\ pass'.on = pass.on
      /\ flags' \in Runner /\ flags'.backfilling = flags.backfilling
  BY JobEndsTypes
<1>2. NoneAhead' /\ ReadIsComplete'
  BY <1>1, EndedJobKeeps
<1>3. "fill" \in Workers /\ "pass" \in Workers
  BY DEF Workers
<1>4. TypeOK'
  BY <1>1, <1>3, EmptyTypes DEF RollupInv, TypeOK
<1>5. WorkersTyped'
  BY <1>1, <1>3, EmptyTypes DEF RollupInv, WorkersTyped
<1> QED
  BY <1>2, <1>4, <1>5 DEF RollupInv

\* The three steps of RollupHour, and a write that is only half done.
LEMMA JobKeepsInv ==
  ASSUME RollupInv, NEW w \in Workers, JobStep(w) \/ JobPutPartly(w)
  PROVE  RollupInv'
<1> DEFINE j == jobs[w]
<1>1. /\ j \in Job /\ j.missing \in SUBSET Locations /\ j.hour \in Hours /\ j.now <= hour
      /\ j.now \in Nat /\ jobs \in [Workers -> Job] /\ hour \in Nat /\ Primary \in Locations
      /\ stored \in [Hours -> Aggregate] /\ up \in [Locations -> BOOLEAN]
      /\ raw \in [Locations -> [Hours -> Nat]]
  <2>1. /\ jobs \in [Workers -> Job] /\ hour \in Nat /\ Primary \in Locations
        /\ stored \in [Hours -> Aggregate] /\ up \in [Locations -> BOOLEAN]
        /\ raw \in [Locations -> [Hours -> Nat]]
    BY RollupAssumption DEF RollupInv, TypeOK, Hours
  <2>2. j \in Job
    BY <2>1
  <2>3. j.now <= hour /\ j.hour \in Hours
    BY DEF RollupInv, NoneAhead
  <2>4. j.missing \in SUBSET Locations /\ j.now \in Nat
    BY <2>2 DEF Job
  <2> QED
    BY <2>1, <2>2, <2>3, <2>4
<1>2. UNCHANGED <<stored, hour, raw>> =>
        stored' \in [Hours -> Aggregate] /\ CurrentInProgress' /\ UnmarkedIsComplete'
  BY <1>1 DEF RollupInv, CurrentInProgress, UnmarkedIsComplete
\* A call that moves on to its next step.
<1>3. ASSUME NEW k \in Job, jobs' = [jobs EXCEPT ![w] = k], k.hour = j.hour, k.now = j.now,
             k.step # "off", j.step # "off",
             k.step \in {"get", "put"} /\ ~InProgress(k) =>
                \A l \in Locations \ k.missing : k.fresh[l] >= raw[l][k.hour],
             UNCHANGED <<hour, up, raw, stored, pass, fill, flags>>
      PROVE  RollupInv'
  <2>1. \A v \in Workers : jobs'[v] = IF v = w THEN k ELSE jobs[v]
    BY <1>1, <1>3
  <2>2. jobs' \in [Workers -> Job] /\ "fill" \in Workers /\ "pass" \in Workers
    BY <1>1, <1>3 DEF Workers
  <2>3. TypeOK'
    BY <2>1, <2>2, <1>3 DEF RollupInv, TypeOK
  <2>4. WorkersTyped'
    BY <2>1, <2>2, <1>3 DEF RollupInv, WorkersTyped
  <2>5. NoneAhead'
    BY <1>1, <1>3, <2>1 DEF RollupInv, NoneAhead
  <2>6. ReadIsComplete'
    <3> SUFFICES ASSUME NEW v \in Workers, jobs'[v].step \in {"get", "put"},
                        ~InProgress(jobs'[v]), NEW l \in Locations \ jobs'[v].missing
                 PROVE  jobs'[v].fresh[l] >= raw[l][jobs'[v].hour]
      BY <1>3 DEF ReadIsComplete, InProgress
    <3>1. CASE v = w
      BY <1>3, <2>1, <3>1
    <3>2. CASE v # w
      BY <2>1, <3>2 DEF RollupInv, ReadIsComplete
    <3> QED
      BY <3>1, <3>2
  <2> QED
    BY <1>2, <1>3, <2>3, <2>4, <2>5, <2>6 DEF RollupInv
<1>4. CASE JobRead(w)
  <2>1. CASE JobEnds(w, {}, FALSE) /\ UNCHANGED <<hour, up, raw, stored, fill, env>>
    BY <1>1, <1>2, <2>1, JobEndsKeeps
  <2>2. CASE ~JobEnds(w, {}, FALSE)
    <3> DEFINE missing == {l \in Locations : ~up[l]}
               fresh == [l \in Locations |-> IF up[l] THEN raw[l][j.hour] ELSE 0]
               k == [j EXCEPT !.step = "get", !.missing = missing, !.fresh = fresh]
    <3>1. fresh \in Counts
      BY <1>1 DEF Counts
    <3>2. k \in Job /\ k.hour = j.hour /\ k.now = j.now /\ k.step = "get"
          /\ k.missing = missing /\ k.fresh = fresh
      BY <1>1, <3>1 DEF Job
    <3>3. jobs' = [jobs EXCEPT ![w] = k]
      BY <1>1, <1>4, <2>2 DEF JobRead
    <3>4. \A l \in Locations \ missing : fresh[l] >= raw[l][j.hour]
      BY <1>1
    <3>5. UNCHANGED <<hour, up, raw, stored, pass, fill, flags>> /\ j.step = "read"
      BY <1>4, <2>2 DEF JobRead
    <3> HIDE DEF k, missing, fresh
    <3> QED
      BY <1>3, <3>2, <3>3, <3>4, <3>5
  <2> QED
    BY <1>4, <2>1, <2>2 DEF JobRead
<1>5. CASE JobGet(w)
  <2>1. CASE up[Primary]
    <3> DEFINE k == [j EXCEPT !.step = "put", !.old = stored[j.hour]]
    <3>1. k \in Job /\ k.hour = j.hour /\ k.now = j.now /\ k.step = "put"
          /\ k.missing = j.missing /\ k.fresh = j.fresh
      BY <1>1 DEF Job
    <3>2. jobs' = [jobs EXCEPT ![w] = k] /\ j.step = "get"
      BY <1>1, <1>5, <2>1 DEF JobGet
    <3>3. ~InProgress(k) => \A l \in Locations \ j.missing : j.fresh[l] >= raw[l][j.hour]
      BY <3>1, <3>2 DEF RollupInv, ReadIsComplete, InProgress
    <3>4. UNCHANGED <<hour, up, raw, stored, pass, fill, flags>>
      BY <1>5, <2>1 DEF JobGet
    <3> HIDE DEF k
    <3> QED
      BY <1>3, <3>1, <3>2, <3>3, <3>4
  <2>2. CASE ~up[Primary]
    <3>1. JobEnds(w, j.missing, TRUE) /\ UNCHANGED <<hour, up, raw, stored, fill>>
      BY <1>5, <2>2 DEF JobGet
    <3> QED
      BY <1>1, <1>2, <3>1, JobEndsKeeps
  <2> QED
    BY <2>1, <2>2
<1>6. ASSUME stored' = [stored EXCEPT ![j.hour] = StoredAs(j)], j.step = "put",
             UNCHANGED <<hour, raw>>
      PROVE  stored' \in [Hours -> Aggregate] /\ CurrentInProgress' /\ UnmarkedIsComplete'
  <2> DEFINE a == StoredAs(j)
  <2>1. /\ a \in Aggregate /\ a.missing = j.missing /\ a.inProgress = InProgress(j)
        /\ \A l \in Locations : a.count[l] >= j.fresh[l]
    BY <1>1, StoredAsType
  <2>2. j.hour >= hour => a.inProgress
    <3>1. j.hour \in Nat
      BY <1>1 DEF Hours
    <3>2. j.hour >= hour => InProgress(j)
      BY <1>1, <3>1 DEF InProgress
    <3> QED
      BY <2>1, <3>2
  <2>3. ASSUME ~Marked(a), NEW l \in Locations  PROVE a.count[l] >= raw[l][j.hour]
    <3>1. j.missing = {} /\ ~InProgress(j)
      BY <2>1, <2>3 DEF Marked
    <3>2. j.fresh[l] >= raw[l][j.hour]
      BY <1>6, <3>1 DEF RollupInv, ReadIsComplete
    <3>3. a.count[l] \in Nat /\ j.fresh[l] \in Nat /\ raw[l][j.hour] \in Nat
      BY <1>1, <2>1 DEF Job, Aggregate, Counts
    <3> QED
      BY <2>1, <3>2, <3>3
  <2> HIDE DEF a
  <2> QED
    BY <1>1, <1>6, <2>1, <2>2, <2>3, StoringKeeps DEF a
<1>7. ASSUME stored' = [stored EXCEPT ![j.hour] = Empty], UNCHANGED <<hour, raw>>
      PROVE  stored' \in [Hours -> Aggregate] /\ CurrentInProgress' /\ UnmarkedIsComplete'
  BY <1>1, <1>7, EmptyTypes, StoringKeeps
<1>8. CASE JobPut(w)
  <2>1. j.step = "put" /\ UNCHANGED <<hour, up, raw, fill>>
    BY <1>8 DEF JobPut
  <2>2. \E failed \in BOOLEAN : JobEnds(w, j.missing, failed)
    BY <1>8 DEF JobPut
  <2>3. \/ UNCHANGED stored \/ stored' = [stored EXCEPT ![j.hour] = Empty]
        \/ stored' = [stored EXCEPT ![j.hour] = StoredAs(j)]
    BY <1>8 DEF JobPut
  <2>4. stored' \in [Hours -> Aggregate] /\ CurrentInProgress' /\ UnmarkedIsComplete'
    BY <1>2, <1>6, <1>7, <2>1, <2>3
  <2> QED
    BY <1>1, <2>1, <2>2, <2>4, JobEndsKeeps
<1>9. CASE JobPutPartly(w)
  <2>1. /\ j.step = "put" /\ UNCHANGED <<hour, raw, fill>> /\ JobEnds(w, j.missing, TRUE)
        /\ stored' = [stored EXCEPT ![j.hour] = StoredAs(j)]
    BY <1>9 DEF JobPutPartly
  <2>2. up' \in [Locations -> BOOLEAN]
    BY <1>1, <1>9 DEF JobPutPartly
  <2> QED
    BY <1>1, <1>6, <2>1, <2>2, JobEndsKeeps
<1> QED
  BY <1>4, <1>5, <1>8, <1>9 DEF JobStep

\* The pass: its list, its hours and what it starts afterwards.
LEMMA PassKeepsInv ==
  ASSUME RollupInv,
         PassStart \/ PassListFails \/ PassUnlisted \/ PassHour \/ AfterPass
  PROVE  RollupInv'
<1>1. /\ jobs \in [Workers -> Job] /\ hour \in Hours /\ hour \in Nat
      /\ pass \in PassState /\ fill \in FillState /\ flags \in Runner
      /\ "fill" \in Workers /\ "pass" \in Workers /\ pass.now \in Nat
  BY DEF RollupInv, TypeOK, WorkersTyped, Workers, Hours, PassState
<1>2. UNCHANGED <<hour, raw, stored>>
  BY DEF PassStart, PassListFails, PassUnlisted, PassHour, AfterPass
<1>3. CurrentInProgress' /\ UnmarkedIsComplete'
  BY <1>2 DEF RollupInv, CurrentInProgress, UnmarkedIsComplete
<1>4. UNCHANGED jobs => ReadIsComplete'
  BY <1>2 DEF RollupInv, ReadIsComplete, InProgress
<1>5. CASE PassStart
  <2>1. pass' \in PassState /\ pass'.now = hour /\ pass'.on
    <3> DEFINE left == IF hour = 0 THEN <<0>> ELSE <<hour, hour - 1>>
    <3>0. 0 \in Hours /\ (hour # 0 => hour - 1 \in Hours)
      BY <1>1, RollupAssumption DEF Hours
    <3>1. left \in Seq(Hours)
      BY <1>1, <3>0
    <3>2. pass' = [NoPass EXCEPT !.on = TRUE, !.now = hour, !.left = left]
      BY <1>5 DEF PassStart
    <3> HIDE DEF left
    <3> QED
      BY <1>1, <3>1, <3>2 DEF PassState, NoPass
  <2>2. UNCHANGED <<hour, up, raw, stored, jobs, fill, flags>>
    BY <1>5 DEF PassStart
  <2>3. TypeOK' /\ WorkersTyped' /\ NoneAhead'
    BY <1>1, <2>1, <2>2 DEF RollupInv, TypeOK, WorkersTyped, NoneAhead
  <2> QED
    BY <1>3, <1>4, <2>2, <2>3 DEF RollupInv
<1>6. CASE PassListFails \/ PassUnlisted
  <2>1. UNCHANGED <<hour, up, raw, stored, jobs, pass, fill>>
    BY <1>6 DEF PassListFails, PassUnlisted
  <2>2. flags' \in Runner /\ flags'.backfilling = flags.backfilling
    BY <1>1, <1>6 DEF PassListFails, PassUnlisted, Runner
  <2>3. TypeOK' /\ WorkersTyped' /\ NoneAhead'
    BY <2>1, <2>2 DEF RollupInv, TypeOK, WorkersTyped, NoneAhead
  <2> QED
    BY <1>3, <1>4, <2>1, <2>3 DEF RollupInv
<1>7. CASE PassHour
  <2> DEFINE h == Head(pass.left)
             k == Call(h, pass.now, TRUE)
  <2>1. pass.left \in Seq(Hours) /\ pass.left # << >>
    BY <1>1, <1>7 DEF PassState, PassHour
  <2>2. h \in Hours /\ Tail(pass.left) \in Seq(Hours)
    BY <2>1
  <2>3. k \in Job /\ k.step = "read" /\ k.hour = h /\ k.now = pass.now
    BY <1>1, <2>2, CallType
  <2>4. \A v \in Workers : jobs'[v] = IF v = "pass" THEN k ELSE jobs[v]
    BY <1>1, <1>7 DEF PassHour
  <2>5. jobs' \in [Workers -> Job]
    BY <1>1, <1>7, <2>3 DEF PassHour
  <2>6. pass' \in PassState /\ pass'.now = pass.now /\ pass'.on = pass.on
    BY <1>1, <1>7, <2>2 DEF PassHour, PassState
  <2>7. UNCHANGED <<hour, up, raw, stored, fill, flags>> /\ pass.on
    BY <1>7 DEF PassHour
  <2> HIDE DEF k, h
  <2>8. TypeOK'
    BY <1>1, <2>4, <2>5, <2>6, <2>7 DEF RollupInv, TypeOK
  <2>9. WorkersTyped'
    BY <1>1, <2>4, <2>6, <2>7 DEF RollupInv, WorkersTyped
  <2>10. NoneAhead'
    BY <1>1, <2>2, <2>3, <2>4, <2>6, <2>7 DEF RollupInv, NoneAhead
  <2>11. ReadIsComplete'
    BY <1>2, <2>3, <2>4 DEF RollupInv, ReadIsComplete, InProgress
  <2> QED
    BY <1>3, <2>8, <2>9, <2>10, <2>11 DEF RollupInv
<1>8. CASE AfterPass
  <2>1. UNCHANGED <<hour, up, raw, stored, jobs>> /\ pass' = NoPass
        /\ jobs["pass"].step = "off"
    BY <1>8 DEF AfterPass
  <2>2. pass' \in PassState /\ pass'.now = 0 /\ ~pass'.on
    BY <2>1 DEF NoPass, PassState
  <2>3. PICK start \in BOOLEAN, full \in BOOLEAN, recovered \in BOOLEAN :
          /\ start => ~flags.backfilling
          /\ flags' = [flags EXCEPT
                         !.down = pass.down,
                         !.recovered = recovered /\ ~start,
                         !.readMissing = @ /\ ~start, !.storeFailed = @ /\ ~start,
                         !.backfilling = @ \/ start,
                         !.needFull = @ /\ ~(start /\ full),
                         !.lastFull = IF start /\ full THEN pass.now ELSE @]
          /\ fill' = IF start
                       THEN [NoFill EXCEPT !.on = TRUE, !.at = pass.now, !.full = full]
                       ELSE fill
    BY <1>8 DEF AfterPass
  <2>4. flags' \in Runner /\ flags'.backfilling = (flags.backfilling \/ start)
    <3> DEFINE a == recovered /\ ~start
               b == flags.readMissing /\ ~start
               c == flags.storeFailed /\ ~start
               d == flags.backfilling \/ start
               e == flags.needFull /\ ~(start /\ full)
               f == IF start /\ full THEN pass.now ELSE flags.lastFull
    <3>1. a \in BOOLEAN /\ b \in BOOLEAN /\ c \in BOOLEAN /\ d \in BOOLEAN /\ e \in BOOLEAN
      OBVIOUS
    <3>2. f \in Nat /\ pass.down \in SUBSET Locations
      BY <1>1 DEF Runner, PassState
    <3>3. flags' = [flags EXCEPT !.down = pass.down, !.recovered = a, !.readMissing = b,
                                 !.storeFailed = c, !.backfilling = d, !.needFull = e,
                                 !.lastFull = f]
      BY <2>3
    <3> HIDE DEF a, b, c, d, e, f
    <3>4. flags' = [down |-> pass.down, readMissing |-> b, recovered |-> a, storeFailed |-> c,
                    needFull |-> e, lastFull |-> f, backfilling |-> d]
      BY <1>1, <3>3 DEF Runner
    <3>5. flags' \in Runner /\ flags'.backfilling = d
      BY <3>1, <3>2, <3>4 DEF Runner
    <3> QED
      BY <3>5 DEF d
  <2>6. CASE ~start
    <3>1. flags' \in Runner /\ flags'.backfilling = flags.backfilling /\ fill' = fill
      <4>1. (flags.backfilling \/ start) = flags.backfilling
        BY <1>1, <2>6 DEF Runner
      <4> QED
        BY <2>3, <2>4, <2>6, <4>1
    <3>2. TypeOK' /\ WorkersTyped' /\ NoneAhead'
      BY <1>1, <2>1, <2>2, <3>1 DEF RollupInv, TypeOK, WorkersTyped, NoneAhead
    <3> QED
      BY <1>3, <1>4, <2>1, <3>2 DEF RollupInv
  <2>5. CASE start
    <3>1. flags' \in Runner /\ flags'.backfilling = TRUE
      BY <2>4, <2>5
    <3>2. fill' \in FillState /\ fill'.on = TRUE /\ fill'.at = pass.now /\ ~fill'.listed
      BY <1>1, <2>3, <2>5 DEF NoFill, FillState
    <3>3. jobs["fill"].step = "off"
      BY <2>3, <2>5 DEF RollupInv, TypeOK
    <3>4. TypeOK'
      BY <2>1, <2>2, <3>1, <3>2, <3>3 DEF RollupInv, TypeOK
    <3>5. WorkersTyped' /\ NoneAhead'
      BY <1>1, <2>1, <2>2, <3>1, <3>2, <3>3 DEF RollupInv, WorkersTyped, NoneAhead
    <3> QED
      BY <1>3, <1>4, <2>1, <3>4, <3>5 DEF RollupInv
  <2> QED
    BY <2>5, <2>6
<1> QED
  BY <1>5, <1>6, <1>7, <1>8

\* The backfill: its list, its hours and its end.
LEMMA FillKeepsInv ==
  ASSUME RollupInv, BackfillList \/ BackfillListFails \/ BackfillHour \/ BackfillEnds
  PROVE  RollupInv'
<1>1. /\ jobs \in [Workers -> Job] /\ hour \in Nat /\ Hours \subseteq Nat
      /\ stored \in [Hours -> Aggregate]
      /\ fill \in FillState /\ flags \in Runner
      /\ "fill" \in Workers /\ "pass" \in Workers /\ fill.at \in Nat /\ fill.at <= hour
  BY DEF RollupInv, TypeOK, WorkersTyped, NoneAhead, Workers, Hours, FillState
<1>2. UNCHANGED <<hour, up, raw, pass>>
  BY DEF BackfillList, BackfillListFails, BackfillHour, BackfillEnds
<1>3. UNCHANGED stored => CurrentInProgress' /\ UnmarkedIsComplete'
  BY <1>2 DEF RollupInv, CurrentInProgress, UnmarkedIsComplete
<1>4. UNCHANGED jobs => ReadIsComplete'
  BY <1>2 DEF RollupInv, ReadIsComplete, InProgress
<1>5. CASE BackfillList
  <2>1. UNCHANGED <<jobs, flags>> /\ fill.on /\ ~fill.listed
    BY <1>5 DEF BackfillList
  <2>2. PICK todo \in SUBSET Hours, marks \in SUBSET Hours :
          fill' = [fill EXCEPT !.listed = TRUE, !.todo = todo, !.marks = marks]
    <3> DEFINE seen == {h \in WindowAndNow(fill.at) : stored[h] # Empty}
               marked == {h \in seen : Marked(stored[h])}
               todo == {h \in Window(fill.at) :
                          h \notin seen \ marked /\ (fill.full \/ h \in marked)}
               marks == {h \in todo : \E s \in seen : s <= h}
    <3>1. fill' = [fill EXCEPT !.listed = TRUE, !.todo = todo, !.marks = marks]
      BY <1>5 DEF BackfillList
    <3>2. todo \subseteq Hours /\ marks \subseteq Hours
      BY DEF Window
    <3> QED
      BY <3>1, <3>2
  <2>3. fill' \in FillState /\ fill'.on = fill.on /\ fill'.at = fill.at /\ fill'.listed
    BY <1>1, <2>2 DEF FillState
  <2>4. \A h \in Hours : stored'[h] = stored[h] \/ stored'[h] = Empty
    BY <1>1, <1>5 DEF BackfillList, Expired
  <2>5. stored' \in [Hours -> Aggregate]
    BY <1>1, <1>5, EmptyTypes DEF BackfillList, Expired
  <2>6. CurrentInProgress'
    BY <1>2, <2>4 DEF RollupInv, CurrentInProgress
  <2>7. UnmarkedIsComplete'
    BY <1>2, <2>4 DEF RollupInv, UnmarkedIsComplete
  <2>8. TypeOK' /\ WorkersTyped' /\ NoneAhead'
    BY <1>2, <2>1, <2>3, <2>5 DEF RollupInv, TypeOK, WorkersTyped, NoneAhead
  <2> QED
    BY <1>4, <2>1, <2>6, <2>7, <2>8 DEF RollupInv
<1>6. CASE BackfillListFails \/ BackfillEnds
  <2>1. UNCHANGED <<stored, jobs>> /\ Done
    BY <1>6 DEF BackfillListFails, BackfillEnds
  <2>2. jobs["fill"].step = "off"
    BY <1>6 DEF BackfillListFails, BackfillEnds, RollupInv, WorkersTyped
  <2>3. fill' \in FillState /\ fill'.at = 0 /\ fill'.on = FALSE /\ ~fill'.listed
    BY <2>1 DEF Done, NoFill, FillState
  <2>4. flags' \in Runner /\ flags'.backfilling = FALSE
    BY <1>1, <2>1 DEF Done, Runner
  <2>5. flags'.backfilling = fill'.on
    BY <2>3, <2>4
  <2>6. TypeOK'
    BY <1>2, <2>1, <2>2, <2>5 DEF RollupInv, TypeOK
  <2>7. WorkersTyped'
    BY <1>2, <2>1, <2>2, <2>3, <2>4 DEF RollupInv, WorkersTyped
  <2>8. NoneAhead'
    BY <1>1, <1>2, <2>1, <2>3 DEF RollupInv, NoneAhead
  <2> QED
    BY <1>3, <1>4, <2>1, <2>6, <2>7, <2>8 DEF RollupInv
<1>7. CASE BackfillHour
  <2>1. PICK h \in fill.todo :
          /\ jobs' = [jobs EXCEPT !["fill"] = Call(h, fill.at, h \in fill.marks)]
          /\ fill' = [fill EXCEPT !.todo = @ \ {h}]
    BY <1>7 DEF BackfillHour
  <2> DEFINE job == Call(h, fill.at, h \in fill.marks)
  <2>2. h \in Hours /\ job \in Job /\ job.step = "read" /\ job.hour = h /\ job.now = fill.at
    <3>1. h \in Hours
      <4>1. fill.todo \in SUBSET Hours
        BY <1>1 DEF FillState
      <4> QED
        BY <2>1, <4>1
    <3> DEFINE m == h \in fill.marks
    <3>2. m \in BOOLEAN
      OBVIOUS
    <3>3. job = Call(h, fill.at, m)
      OBVIOUS
    <3> HIDE DEF m, job
    <3>5. PICK at : at = fill.at
      OBVIOUS
    <3>6. at \in Nat
      BY <1>1, <3>5 DEF FillState
    <3>4. Call(h, at, m) \in Job /\ Call(h, at, m).step = "read"
          /\ Call(h, at, m).hour = h /\ Call(h, at, m).now = at
      BY <3>1, <3>2, <3>6, CallType
    <3> QED
      BY <3>1, <3>3, <3>4, <3>5
  <2>3. \A v \in Workers : jobs'[v] = IF v = "fill" THEN job ELSE jobs[v]
    BY <1>1, <2>1
  <2>4. jobs' \in [Workers -> Job]
    BY <1>1, <2>1, <2>2
  <2>5. /\ fill' \in FillState /\ fill'.at = fill.at /\ fill'.on = fill.on
        /\ fill'.listed = fill.listed
    BY <1>1, <2>1 DEF FillState
  <2>6. UNCHANGED <<stored, flags>> /\ fill.listed
    BY <1>7 DEF BackfillHour
  <2> HIDE DEF job
  <2>7. TypeOK'
    BY <1>1, <1>2, <2>3, <2>4, <2>5, <2>6 DEF RollupInv, TypeOK, WorkersTyped
  <2>8. WorkersTyped' /\ NoneAhead'
    BY <1>1, <1>2, <2>1, <2>2, <2>3, <2>5, <2>6 DEF RollupInv, WorkersTyped, NoneAhead
  <2>9. ReadIsComplete'
    BY <1>2, <2>2, <2>3 DEF RollupInv, ReadIsComplete, InProgress
  <2> QED
    BY <1>3, <2>6, <2>7, <2>8, <2>9 DEF RollupInv
<1> QED
  BY <1>5, <1>6, <1>7

\* The world around the dashboard.  Samples land in the current hour only, so
\* those of an hour that is over can only go; and when the hour is over, its
\* rollup still says that it is in progress.
LEMMA WorldKeepsInv ==
  ASSUME RollupInv,
         \/ \E l \in Locations : Sample(l) \/ Outage(l) \/ Recovery(l)
         \/ \E l \in Locations, h \in Hours : RawExpires(l, h)
         \/ \E h \in Hours : FieldExpires(h)
         \/ NextHour
  PROVE  RollupInv'
<1>1. /\ jobs \in [Workers -> Job] /\ hour \in Nat /\ Hours \subseteq Nat /\ hour \in Hours
      /\ stored \in [Hours -> Aggregate] /\ raw \in [Locations -> [Hours -> Nat]]
      /\ up \in [Locations -> BOOLEAN] /\ hour <= MaxHour /\ MaxHour \in Nat
  BY RollupAssumption DEF RollupInv, TypeOK, Hours
<1>2. UNCHANGED <<jobs, pass, fill, flags>>
  BY DEF Sample, Outage, Recovery, RawExpires, FieldExpires, NextHour
<1>3. WorkersTyped'
  BY <1>2 DEF RollupInv, WorkersTyped
<1>4. UNCHANGED hour => NoneAhead'
  BY <1>2 DEF RollupInv, NoneAhead
<1>5. \A w \in Workers : /\ jobs[w].hour \in Hours /\ jobs[w].hour \in Nat
                         /\ jobs[w].now \in Nat /\ jobs[w].now <= hour
  BY <1>1 DEF RollupInv, NoneAhead, Job
<1>6. ASSUME NEW l \in Locations, Sample(l)
      PROVE  RollupInv'
  <2>1. UNCHANGED <<hour, up, stored>> /\ raw' = [raw EXCEPT ![l][hour] = @ + 1]
    BY <1>6 DEF Sample
  <2>2. raw' \in [Locations -> [Hours -> Nat]]
    BY <1>1, <2>1
  <2>3. \A k \in Locations, h \in Hours : h < hour => raw'[k][h] = raw[k][h]
    BY <1>1, <2>1
  <2>4. TypeOK'
    BY <1>2, <2>1, <2>2 DEF RollupInv, TypeOK
  <2>5. CurrentInProgress' /\ UnmarkedIsComplete'
    BY <1>1, <2>1, <2>3 DEF RollupInv, CurrentInProgress, UnmarkedIsComplete
  <2>6. ReadIsComplete'
    <3>1. \A w \in Workers : ~InProgress(jobs[w]) => jobs[w].hour < hour
      BY <1>1, <1>5 DEF InProgress
    <3> QED
      BY <1>2, <1>5, <2>3, <3>1 DEF RollupInv, ReadIsComplete, InProgress
  <2> QED
    BY <1>3, <1>4, <2>1, <2>4, <2>5, <2>6 DEF RollupInv
<1>7. ASSUME NEW l \in Locations, Outage(l) \/ Recovery(l)
      PROVE  RollupInv'
  <2>1. UNCHANGED <<hour, raw, stored>>
    BY <1>7 DEF Outage, Recovery
  <2>2. up' \in [Locations -> BOOLEAN]
    BY <1>1, <1>7 DEF Outage, Recovery
  <2>3. TypeOK'
    BY <1>2, <2>1, <2>2 DEF RollupInv, TypeOK
  <2>4. CurrentInProgress' /\ UnmarkedIsComplete' /\ ReadIsComplete'
    BY <1>2, <2>1 DEF RollupInv, CurrentInProgress, UnmarkedIsComplete, ReadIsComplete, InProgress
  <2> QED
    BY <1>3, <1>4, <2>1, <2>3, <2>4 DEF RollupInv
<1>8. ASSUME NEW l \in Locations, NEW h \in Hours, RawExpires(l, h)
      PROVE  RollupInv'
  <2>1. UNCHANGED <<hour, up, stored>> /\ raw' = [raw EXCEPT ![l][h] = 0]
    BY <1>8 DEF RawExpires
  <2>2. raw' \in [Locations -> [Hours -> Nat]]
    BY <1>1, <2>1
  <2>3. \A k \in Locations, g \in Hours : raw'[k][g] <= raw[k][g]
    BY <1>1, <2>1
  <2>4. TypeOK'
    BY <1>2, <2>1, <2>2 DEF RollupInv, TypeOK
  <2>5. CurrentInProgress'
    BY <2>1 DEF RollupInv, CurrentInProgress
  <2>6. UnmarkedIsComplete'
    <3>1. \A g \in Hours, k \in Locations : stored[g].count[k] \in Nat
      BY <1>1 DEF Aggregate, Counts
    <3>2. \A k \in Locations, g \in Hours : raw'[k][g] \in Nat /\ raw[k][g] \in Nat
      BY <1>1, <2>2
    <3> QED
      BY <2>1, <2>3, <3>1, <3>2 DEF RollupInv, UnmarkedIsComplete
  <2>7. ReadIsComplete'
    <3>1. \A w \in Workers, k \in Locations : jobs[w].fresh[k] \in Nat
      BY <1>1 DEF Job, Counts
    <3>2. \A k \in Locations, g \in Hours : raw'[k][g] \in Nat /\ raw[k][g] \in Nat
      BY <1>1, <2>2
    <3> QED
      BY <1>2, <1>5, <2>3, <3>1, <3>2 DEF RollupInv, ReadIsComplete, InProgress
  <2> QED
    BY <1>3, <1>4, <2>1, <2>4, <2>5, <2>6, <2>7 DEF RollupInv
<1>9. ASSUME NEW h \in Hours, FieldExpires(h)
      PROVE  RollupInv'
  <2>1. UNCHANGED <<hour, up, raw>> /\ stored' = [stored EXCEPT ![h] = Empty]
    BY <1>9 DEF FieldExpires
  <2>2. \A g \in Hours : stored'[g] = stored[g] \/ stored'[g] = Empty
    BY <1>1, <2>1
  <2>3. stored' \in [Hours -> Aggregate]
    BY <1>1, <2>1, EmptyTypes
  <2>4. TypeOK'
    BY <1>2, <2>1, <2>3 DEF RollupInv, TypeOK
  <2>5. CurrentInProgress' /\ UnmarkedIsComplete'
    BY <2>1, <2>2 DEF RollupInv, CurrentInProgress, UnmarkedIsComplete
  <2>6. ReadIsComplete'
    BY <1>2, <2>1 DEF RollupInv, ReadIsComplete, InProgress
  <2> QED
    BY <1>3, <1>4, <2>1, <2>4, <2>5, <2>6 DEF RollupInv
<1>10. CASE NextHour
  <2>1. UNCHANGED <<up, raw, stored>> /\ hour' = hour + 1 /\ hour < MaxHour
    BY <1>10 DEF NextHour
  <2>2. hour' \in Hours
    BY <1>1, <2>1 DEF Hours
  <2>3. TypeOK'
    BY <1>2, <2>1, <2>2 DEF RollupInv, TypeOK
  <2>4. NoneAhead'
    <3>1. pass.now \in Nat /\ fill.at \in Nat
      BY DEF RollupInv, WorkersTyped, PassState, FillState
    <3> QED
      BY <1>1, <1>2, <1>5, <2>1, <3>1 DEF RollupInv, NoneAhead
  <2>5. CurrentInProgress'
    BY <1>1, <2>1 DEF RollupInv, CurrentInProgress
  <2>6. UnmarkedIsComplete'
    <3>1. \A h \in Hours : h < hour' => h < hour \/ h >= hour
      BY <1>1, <2>1
    <3>2. \A h \in Hours : h >= hour /\ stored[h] # Empty => Marked(stored[h])
      BY DEF RollupInv, CurrentInProgress, Marked
    <3> QED
      BY <2>1, <3>1, <3>2 DEF RollupInv, UnmarkedIsComplete
  <2>7. ReadIsComplete'
    BY <1>2, <2>1 DEF RollupInv, ReadIsComplete, InProgress
  <2> QED
    BY <1>3, <2>3, <2>4, <2>5, <2>6, <2>7 DEF RollupInv
<1> QED
  BY <1>6, <1>7, <1>8, <1>9, <1>10

\* A restart forgets the workers and keeps what is stored.
LEMMA RestartKeepsInv ==
  ASSUME RollupInv, Restart
  PROVE  RollupInv'
<1>1. UNCHANGED <<hour, up, raw, stored>> /\ hour \in Nat /\ hour \in Hours /\ 0 \in Hours
  BY RollupAssumption DEF Restart, RollupInv, TypeOK, Hours
<1>2. /\ pass' = NoPass /\ jobs' = [w \in Workers |-> NoJob]
      /\ fill' = [NoFill EXCEPT !.on = TRUE, !.at = hour, !.full = TRUE]
      /\ flags' = [down |-> {}, readMissing |-> FALSE, recovered |-> FALSE, storeFailed |-> FALSE,
                   needFull |-> FALSE, lastFull |-> hour, backfilling |-> TRUE]
  BY DEF Restart, Started
<1>3. NoJob \in Job /\ NoJob.step = "off" /\ NoJob.now = 0 /\ NoJob.hour = 0
  BY EmptyTypes DEF NoJob
<1>4. jobs' \in [Workers -> Job] /\ \A w \in Workers : jobs'[w] = NoJob
  BY <1>2, <1>3
<1>5. fill' \in FillState /\ fill'.on = TRUE /\ fill'.at = hour /\ fill'.listed = FALSE
  BY <1>1, <1>2 DEF NoFill, FillState
<1>6. flags' \in Runner /\ flags'.backfilling = TRUE
  BY <1>1, <1>2 DEF Runner
<1>7. pass' \in PassState /\ pass'.now = 0
  BY <1>2 DEF NoPass, PassState
<1>8. TypeOK'
  BY <1>1, <1>3, <1>4, <1>5, <1>6 DEF RollupInv, TypeOK, Workers
<1>9. WorkersTyped'
  BY <1>3, <1>4, <1>5, <1>6, <1>7 DEF WorkersTyped, Workers
<1>10. NoneAhead'
  BY <1>1, <1>3, <1>4, <1>5, <1>7 DEF NoneAhead
<1>11. CurrentInProgress' /\ UnmarkedIsComplete'
  BY <1>1 DEF RollupInv, CurrentInProgress, UnmarkedIsComplete
<1>12. ReadIsComplete'
  BY <1>3, <1>4 DEF ReadIsComplete
<1> QED
  BY <1>8, <1>9, <1>10, <1>11, <1>12 DEF RollupInv

LEMMA RollupStep == RollupInv /\ [Next]_vars => RollupInv'
<1> SUFFICES ASSUME RollupInv, [Next]_vars PROVE RollupInv'
  OBVIOUS
<1>1. CASE UNCHANGED vars
  BY <1>1 DEF vars, RollupInv, TypeOK, WorkersTyped, NoneAhead, CurrentInProgress, ReadIsComplete,
              UnmarkedIsComplete, InProgress
<1>2. ASSUME NEW w \in Workers, JobStep(w) \/ JobPutPartly(w)
      PROVE  RollupInv'
  BY <1>2, JobKeepsInv
<1>3. CASE PassStep
  BY <1>2, <1>3, PassKeepsInv DEF PassStep, Workers
<1>4. CASE FillStep
  BY <1>2, <1>4, FillKeepsInv DEF FillStep, Workers
<1> QED
  BY <1>1, <1>2, <1>3, <1>4, WorldKeepsInv, RestartKeepsInv DEF Next

\* Every reachable state satisfies the inductive invariant of the rollups.
THEOREM RollupInvariant == Spec => []RollupInv
<1> QED
  BY RollupInit, RollupStep, PTL DEF Spec

\* The variables keep their types and backfilling says exactly when a backfill
\* runs (rollup.go, afterPass and backfill).
THEOREM RollupTypes == Spec => []TypeOK
<1>1. RollupInv => TypeOK
  BY DEF RollupInv
<1> QED
  BY <1>1, RollupInvariant, PTL

\* A rollup of an hour that is over and that carries no mark counts every sample
\* that the locations still hold (RollupHour): whatever the passes, the
\* backfill, outages, expiries and restarts do in between.
THEOREM FinishedIsComplete == Spec => []UnmarkedIsComplete
<1>1. RollupInv => UnmarkedIsComplete
  BY DEF RollupInv
<1> QED
  BY <1>1, RollupInvariant, PTL

-----------------------------------------------------------------------------
(* What may make a stored count drop.                                      *)

\* A call that finds the rollup as it read it lowers no count: it writes the
\* merged counts, and deletes only a rollup that counts nothing.
LEMMA StoringDropsNothing ==
  ASSUME NEW j \in Job, NEW l \in Locations
  PROVE  /\ StoredAs(j).count[l] >= j.old.count[l]
         /\ Result(j) = "delete" => Empty.count[l] >= j.old.count[l]
<1>1. j.fresh \in Counts /\ j.old \in Aggregate
  BY DEF Job
<1>2. j.old.count \in Counts
  BY <1>1 DEF Aggregate
<1>3. MergeStored(j.fresh, j.old.count)[l] >= j.old.count[l]
  BY <1>1, <1>2, MergedCounts
<1>4. Result(j) = "delete" => MergeStored(j.fresh, j.old.count) = Zero
  BY DEF Result
<1> QED
  BY <1>3, <1>4, StoredAsType DEF Empty

\* The steps that may write: where one lowers a count of an hour that is kept,
\* its call had read another rollup.
LEMMA JobDropsInRaces ==
  ASSUME RollupInv, NEW w \in Workers, JobStep(w) \/ JobPutPartly(w),
         NEW h \in Hours, NEW l \in Locations, stored'[h].count[l] < stored[h].count[l]
  PROVE  jobs[w].step = "put" /\ jobs[w].hour = h /\ jobs[w].old # stored[h]
<1>1. /\ jobs[w] \in Job /\ jobs[w].hour \in Hours /\ stored \in [Hours -> Aggregate]
      /\ stored[h].count[l] \in Nat
  <2>1. jobs[w] \in Job /\ stored \in [Hours -> Aggregate] /\ jobs[w].hour \in Hours
    BY DEF RollupInv, TypeOK, NoneAhead
  <2>2. stored[h].count \in Counts
    BY <2>1 DEF Aggregate
  <2> QED
    BY <2>1, <2>2 DEF Counts
<1>2. stored' # stored
  BY <1>1
<1>3. /\ jobs[w].step = "put"
      /\ \/ /\ stored' = [stored EXCEPT ![jobs[w].hour] = Empty]
            /\ Result(jobs[w]) = "delete"
         \/ stored' = [stored EXCEPT ![jobs[w].hour] = StoredAs(jobs[w])]
  BY <1>2 DEF JobStep, JobRead, JobGet, JobPut, JobPutPartly
<1>4. jobs[w].hour = h
  BY <1>1, <1>2, <1>3
<1>5. /\ stored'[h].count[l] >= jobs[w].old.count[l]
      /\ stored'[h].count[l] \in Nat /\ jobs[w].old.count[l] \in Nat
  <2>1. \/ stored'[h] = Empty /\ Result(jobs[w]) = "delete"
        \/ stored'[h] = StoredAs(jobs[w])
    BY <1>1, <1>3, <1>4
  <2>2. Empty.count[l] \in Nat /\ StoredAs(jobs[w]).count[l] \in Nat
    BY <1>1, EmptyTypes, StoredAsType DEF Aggregate, Counts
  <2>3. jobs[w].old.count[l] \in Nat
    BY <1>1 DEF Job, Aggregate, Counts
  <2> QED
    BY <1>1, <2>1, <2>2, <2>3, StoringDropsNothing
<1>6. jobs[w].old # stored[h]
  BY <1>1, <1>5
<1> QED
  BY <1>3, <1>4, <1>6

\* What a step of anything but a call takes away is past its retention.
LEMMA OthersDropExpired ==
  ASSUME RollupInv, [Next]_vars,
         ~ \E w \in Workers : JobStep(w) \/ JobPutPartly(w),
         NEW h \in Hours, stored'[h] # stored[h]
  PROVE  h + Retention <= hour
<1>1. /\ stored \in [Hours -> Aggregate] /\ hour \in Nat /\ h \in Nat /\ Retention \in Nat
      /\ fill.at \in Nat /\ fill.at <= hour
  BY RollupAssumption DEF RollupInv, TypeOK, WorkersTyped, NoneAhead, FillState, Hours
<1>2. CASE BackfillList
  <2>1. stored' = Expired(fill.at)
    BY <1>2 DEF BackfillList
  <2>2. h + Retention <= fill.at
    BY <2>1 DEF Expired
  <2> QED
    BY <1>1, <2>2
<1>3. CASE \E g \in Hours : FieldExpires(g)
  BY <1>1, <1>3 DEF FieldExpires
<1>4. ~BackfillList => \/ \E g \in Hours : FieldExpires(g)
                       \/ UNCHANGED stored
  BY DEF Next, vars, PassStep, FillStep, PassStart, PassListFails, PassUnlisted, PassHour,
         AfterPass, BackfillListFails, BackfillHour, BackfillEnds, Sample, Outage, Recovery,
         RawExpires, NextHour, Restart, Workers
<1> QED
  BY <1>2, <1>3, <1>4

\* A stored count of an hour that is kept drops only when a RollupHour call
\* writes over a rollup that changed after its HGET: no outage, half-done write,
\* expiry or restart alone loses a count.
THEOREM DropsAreRaces == Spec => OnlyRacesDrop
<1> DEFINE Drops == \A h \in Hours, l \in Locations :
                      stored'[h].count[l] < stored[h].count[l] /\ h + Retention > hour =>
                         \E w \in Workers : /\ jobs[w].step = "put" /\ jobs[w].hour = h
                                            /\ jobs[w].old # stored[h]
<1>1. RollupInv /\ [Next]_vars => [Drops]_vars
  <2> SUFFICES ASSUME RollupInv, [Next]_vars, NEW h \in Hours, NEW l \in Locations,
                      stored'[h].count[l] < stored[h].count[l], h + Retention > hour
               PROVE  \E w \in Workers : /\ jobs[w].step = "put" /\ jobs[w].hour = h
                                         /\ jobs[w].old # stored[h]
    OBVIOUS
  <2>1. CASE \E w \in Workers : JobStep(w) \/ JobPutPartly(w)
    BY <2>1, JobDropsInRaces
  <2>2. CASE ~ \E w \in Workers : JobStep(w) \/ JobPutPartly(w)
    <3>1. stored[h].count[l] \in Nat
      BY DEF RollupInv, TypeOK, Aggregate, Counts
    <3>2. stored'[h] # stored[h]
      BY <3>1
    <3>3. h + Retention <= hour
      BY <2>2, <3>2, OthersDropExpired
    <3>4. h \in Nat /\ Retention \in Nat /\ hour \in Nat
      BY RollupAssumption DEF RollupInv, TypeOK, Hours
    <3> QED
      BY <3>3, <3>4
  <2> QED
    BY <2>1, <2>2
<1> QED
  BY <1>1, RollupInvariant, PTL DEF Spec, OnlyRacesDrop
=============================================================================

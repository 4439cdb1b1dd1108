---------------------------- MODULE IncidentsProofs ----------------------------
(***************************************************************************)
(* What the dashboard tells of failures, for every number of locations,    *)
(* checks and hours: the status ladder, mergeSegments over any set of      *)
(* segments, and the stitching of the hours' runs.                         *)
(***************************************************************************)
EXTENDS Incidents, FiniteSetTheorems, SequenceTheorems, TLAPS

\* The folds: over a sequence's indices, oldest first, and over segments.
ScanAt(samples, acc, i) == Scan(acc, samples[i])
Scans == INSTANCE FoldProofs WITH Op <- ScanAt, Pick <- Max

Samples == [ts: Nat, msg: Messages \cup {Ok}]

\* c is in the order of its samples, none of which is newer than t.
Ordered(c, t) ==
  /\ c \in Seq(Samples)
  /\ \A i, j \in DOMAIN c : i < j => c[i].ts < c[j].ts
  /\ \A i \in DOMAIN c : c[i].ts <= t

\* Every location's samples are in order.
SamplesInv ==
  /\ now \in Nat /\ DOMAIN checks = Locations
  /\ \A l \in Locations : Ordered(checks[l], now)

\* The parts of a location's samples.
LEMMA OrderedFacts ==
  ASSUME NEW c, NEW t, Ordered(c, t)
  PROVE  /\ c \in Seq(Samples) /\ Len(c) \in Nat /\ DOMAIN c = 1..Len(c)
         /\ \A i \in 1..Len(c) : /\ c[i] \in Samples /\ c[i].ts \in Nat /\ c[i].ts <= t
                                /\ c[i].msg \in Messages \cup {Ok}
         /\ \A i, j \in 1..Len(c) : i < j => c[i].ts < c[j].ts
<1>1. PICK n : n = Len(c)
  OBVIOUS
<1>2. c \in Seq(Samples) /\ n \in Nat /\ DOMAIN c = 1..n /\ \A i \in 1..n : c[i] \in Samples
  BY <1>1 DEF Ordered
<1>3. \A s \in Samples : s.ts \in Nat /\ s.msg \in Messages \cup {Ok}
  BY DEF Samples
<1> QED
  BY <1>1, <1>2, <1>3 DEF Ordered

\* Appending a newer sample keeps the order.
LEMMA OrderedAppend ==
  ASSUME NEW t \in Nat, NEW c, Ordered(c, t), NEW s \in Samples, s.ts = t,
         \A i \in DOMAIN c : c[i].ts # t
  PROVE  Ordered(Append(c, s), t)
<1>1. PICK n : n = Len(c)
  OBVIOUS
<1>2. n \in Nat /\ DOMAIN c = 1..n /\ \A i \in 1..n : c[i] \in Samples
  BY <1>1 DEF Ordered
<1>3. \A i \in 1..n : c[i].ts \in Nat /\ c[i].ts < t
  BY <1>2 DEF Ordered, Samples
<1>4. PICK d : d = Append(c, s)
  OBVIOUS
<1>5. /\ d \in Seq(Samples) /\ DOMAIN d = 1..(n + 1)
      /\ \A i \in 1..n : d[i] = c[i]
      /\ d[n + 1] = s
  BY <1>1, <1>2, <1>4 DEF Ordered
<1>6. \A i, j \in 1..n : i < j => c[i].ts < c[j].ts
  BY <1>2 DEF Ordered
<1>7. \A i \in 1..(n + 1) : i \in 1..n \/ i = n + 1
  BY <1>2
<1>8. ASSUME NEW i \in 1..(n + 1), NEW j \in 1..(n + 1), i < j
      PROVE  d[i].ts < d[j].ts
  <2>1. i \in 1..n
    BY <1>2, <1>8
  <2>2. CASE j \in 1..n
    BY <1>5, <1>6, <1>8, <2>1, <2>2
  <2>3. CASE j = n + 1
    BY <1>3, <1>5, <2>1, <2>3
  <2> QED
    BY <1>7, <2>2, <2>3
<1>9. ASSUME NEW i \in 1..(n + 1) PROVE d[i].ts <= t
  BY <1>3, <1>5, <1>7
<1> QED
  BY <1>4, <1>5, <1>8, <1>9 DEF Ordered

\* Check appends a sample of this second, to one location.
LEMMA CheckAppends ==
  ASSUME SamplesInv, NEW l \in Locations, NEW msg \in Messages \cup {Ok}, Check(l, msg)
  PROVE  \E s \in Samples :
           /\ s.ts = now /\ s.msg = msg /\ now' = now
           /\ checks'[l] = Append(checks[l], s)
           /\ \A k \in Locations : k # l => checks'[k] = checks[k]
           /\ DOMAIN checks' = Locations
<1>1. PICK s : s = [ts |-> now, msg |-> msg]
  OBVIOUS
<1>2. s \in Samples /\ s.ts = now /\ s.msg = msg
  BY <1>1 DEF Samples, SamplesInv
<1> QED
  BY <1>1, <1>2 DEF Check, SamplesInv

\* The samples stay in order.
LEMMA SamplesStep == SamplesInv /\ [Next]_vars => SamplesInv'
<1> SUFFICES ASSUME SamplesInv, [Next]_vars PROVE SamplesInv'
  OBVIOUS
<1>1. CASE Tick
  <2>1. now \in Nat /\ now' = now + 1 /\ checks' = checks
    BY <1>1 DEF Tick, SamplesInv
  <2>2. ASSUME NEW l \in Locations PROVE Ordered(checks[l], now + 1)
    <3>1. Ordered(checks[l], now)
      BY DEF SamplesInv
    <3>2. \A i \in DOMAIN checks[l] : checks[l][i].ts \in Nat
      BY <3>1, OrderedFacts
    <3> QED
      BY <2>1, <3>1, <3>2 DEF Ordered
  <2> QED
    BY <2>1, <2>2 DEF SamplesInv
<1>2. ASSUME NEW l \in Locations, NEW msg \in Messages \cup {Ok}, Check(l, msg)
      PROVE  SamplesInv'
  <2>1. PICK s \in Samples :
          /\ s.ts = now /\ s.msg = msg /\ now' = now
          /\ checks'[l] = Append(checks[l], s)
          /\ \A k \in Locations : k # l => checks'[k] = checks[k]
          /\ DOMAIN checks' = Locations
    BY <1>2, CheckAppends
  <2>2. Ordered(checks[l], now) /\ \A i \in DOMAIN checks[l] : checks[l][i].ts # now
    BY <1>2 DEF SamplesInv, Check
  <2>3. Ordered(checks'[l], now')
    BY <2>1, <2>2, OrderedAppend DEF SamplesInv
  <2>4. \A k \in Locations : k # l => Ordered(checks'[k], now')
    BY <2>1 DEF SamplesInv
  <2>5. now' \in Nat
    BY <2>1 DEF SamplesInv
  <2> QED
    BY <2>1, <2>3, <2>4, <2>5 DEF SamplesInv
<1>3. CASE UNCHANGED vars
  BY <1>3 DEF vars, SamplesInv
<1> QED
  BY <1>1, <1>2, <1>3 DEF Next

\* Whatever is checked, and whenever, every location's samples are in order.
THEOREM SamplesInOrder == Spec => []SamplesInv
<1>1. Init => SamplesInv
  <2> SUFFICES ASSUME Init PROVE SamplesInv
    OBVIOUS
  <2>1. \A l \in Locations : checks[l] = << >>
    BY DEF Init
  <2> QED
    BY <2>1 DEF Init, SamplesInv, Ordered
<1> QED
  BY <1>1, SamplesStep, PTL DEF Spec

-----------------------------------------------------------------------------
(* The hours' samples.                                                     *)

\* The samples before hour h.
OlderThan(c, h) == {i \in DOMAIN c : HourOf(c[i].ts) < h}

\* Hours are numbers, in the order of time.
LEMMA HourFacts ==
  ASSUME NEW t \in Nat
  PROVE  /\ HourOf(t) \in Nat /\ HourOf(t) * Hour <= t /\ t < HourOf(t) * Hour + Hour
         /\ \A u \in Nat : t <= u => HourOf(t) <= HourOf(u)
<1>1. Hour \in Nat /\ Hour > 0
  BY IncidentsAssumption
<1>2. \A u \in Nat : /\ u \div Hour \in Nat
                     /\ (u \div Hour) * Hour <= u /\ u < (u \div Hour) * Hour + Hour
  BY <1>1, Z3
<1>3. ASSUME NEW u \in Nat, t <= u PROVE t \div Hour <= u \div Hour
  <2> SUFFICES ASSUME u \div Hour < t \div Hour PROVE FALSE
    BY <1>2
  <2>1. PICK a, b : a = u \div Hour /\ b = t \div Hour
    OBVIOUS
  <2>2. a \in Nat /\ b \in Nat /\ a + 1 <= b
    BY <1>2, <2>1
  <2>3. PICK e \in Nat : b = (a + 1) + e
    <3>1. b - (a + 1) \in Nat /\ b = (a + 1) + (b - (a + 1))
      BY <2>2
    <3> QED
      BY <3>1
  <2>4. b * Hour = a * Hour + Hour + e * Hour /\ e * Hour >= 0 /\ a * Hour \in Nat
    BY <1>1, <2>2, <2>3, Z3
  <2> QED
    BY <1>1, <1>2, <1>3, <2>1, <2>4
<1> QED
  BY <1>2, <1>3 DEF HourOf

\* An interval from 1 has one end.
LEMMA SameInterval ==
  ASSUME NEW m \in Nat, NEW n \in Nat, 1..m = 1..n
  PROVE  m = n
<1>1. m > 0 => m \in 1..m
  OBVIOUS
<1>2. n > 0 => n \in 1..n
  OBVIOUS
<1>3. m > 0 => m <= n
  BY <1>1
<1>4. n > 0 => n <= m
  BY <1>2
<1> QED
  BY <1>3, <1>4

\* The samples before an hour are the first ones.
LEMMA OlderFirst ==
  ASSUME NEW t \in Nat, NEW c, Ordered(c, t), NEW h \in Nat
  PROVE  \E n \in 0..Len(c) : OlderThan(c, h) = 1..n /\ Cardinality(OlderThan(c, h)) = n
<1>1. /\ Len(c) \in Nat /\ DOMAIN c = 1..Len(c)
      /\ \A i \in 1..Len(c) : c[i].ts \in Nat
      /\ \A i, j \in 1..Len(c) : i < j => c[i].ts < c[j].ts
  BY OrderedFacts
<1>2. PICK A : A = OlderThan(c, h)
  OBVIOUS
<1>3. A \subseteq 1..Len(c)
  BY <1>1, <1>2 DEF OlderThan
<1>4. ASSUME NEW j \in A, NEW i \in 1..Len(c), i < j PROVE i \in A
  <2>1. c[i].ts \in Nat /\ c[j].ts \in Nat /\ c[i].ts < c[j].ts
    BY <1>1, <1>3, <1>4
  <2>2. HourOf(c[i].ts) \in Nat /\ HourOf(c[j].ts) \in Nat /\ HourOf(c[i].ts) <= HourOf(c[j].ts)
    <3>1. PICK u \in Nat, v \in Nat : u = c[i].ts /\ v = c[j].ts
      BY <2>1
    <3>2. u <= v
      BY <2>1, <3>1
    <3>3. HourOf(u) \in Nat /\ \A w \in Nat : u <= w => HourOf(u) <= HourOf(w)
      BY HourFacts
    <3>4. HourOf(v) \in Nat
      BY HourFacts
    <3> QED
      BY <3>1, <3>2, <3>3, <3>4
  <2>3. HourOf(c[j].ts) < h
    BY <1>2 DEF OlderThan
  <2> QED
    BY <1>1, <1>2, <2>2, <2>3 DEF OlderThan
<1>5. PICK good : good = {k \in 0..Len(c) : \E n \in 0..k : A \cap (1..k) = 1..n}
  OBVIOUS
<1>6. 0 \in good
  BY <1>1, <1>5
<1>7. ASSUME NEW k \in 0..(Len(c) - 1), k \in good PROVE k + 1 \in good
  <2>1. PICK n \in 0..k : A \cap (1..k) = 1..n
    BY <1>5, <1>7
  <2>2. k + 1 \in 0..Len(c) /\ k \in Nat /\ 1..(k + 1) = (1..k) \cup {k + 1} /\ n \in Nat
    BY <1>1
  <2>3. CASE k + 1 \in A
    <3>1. ASSUME NEW i \in 1..(k + 1) PROVE i \in A
      <4>1. CASE i = k + 1
        BY <2>3, <4>1
      <4>2. CASE i # k + 1
        <5>1. i \in 1..Len(c) /\ i < k + 1
          BY <1>1, <4>2
        <5> QED
          BY <1>4, <2>3, <5>1
      <4> QED
        BY <4>1, <4>2
    <3>2. A \cap (1..(k + 1)) = 1..(k + 1)
      BY <3>1
    <3> QED
      BY <1>5, <2>2, <3>2
  <2>4. CASE k + 1 \notin A
    <3>1. A \cap (1..(k + 1)) = 1..n
      BY <2>1, <2>2, <2>4
    <3>2. n \in 0..(k + 1)
      BY <2>2
    <3> QED
      BY <1>5, <2>2, <3>1, <3>2
  <2> QED
    BY <2>3, <2>4
<1>8. Len(c) \in good
  <2>1. \A k \in 0..Len(c) : k \in good
    BY <1>1, <1>6, <1>7, Scans!UpTo
  <2> QED
    BY <1>1, <2>1
<1>9. PICK n \in 0..Len(c) : A \cap (1..Len(c)) = 1..n
  BY <1>5, <1>8
<1>10. A = 1..n
  BY <1>3, <1>9
<1>11. Cardinality(A) = n
  <2>1. 1 \in Int /\ n \in Int /\ n - 1 + 1 = n /\ n >= 0
    BY <1>1
  <2> QED
    BY <1>10, <2>1, FS_Interval
<1> QED
  BY <1>2, <1>10, <1>11

\* The samples of hour h follow those of the hours before it.
LEMMA HourSamples ==
  ASSUME SamplesInv, NEW l \in Locations, NEW h \in Nat
  PROVE  \E a \in 0..Len(checks[l]), b \in 0..Len(checks[l]) :
           /\ a <= b /\ OlderThan(checks[l], h) = 1..a /\ OlderThan(checks[l], h + 1) = 1..b
           /\ Earlier(l, h) = a /\ Earlier(l, h + 1) = b
           /\ InHour(l, h) = SubSeq(checks[l], a + 1, b)
<1>1. PICK c : c = checks[l]
  OBVIOUS
<1>2. Ordered(c, now) /\ now \in Nat /\ h + 1 \in Nat
  BY <1>1 DEF SamplesInv
<1>3. /\ Len(c) \in Nat /\ DOMAIN c = 1..Len(c)
      /\ \A i \in 1..Len(c) : c[i].ts \in Nat
  BY <1>2, OrderedFacts
<1>4. PICK a \in 0..Len(c) : OlderThan(c, h) = 1..a /\ Cardinality(OlderThan(c, h)) = a
  BY <1>2, OlderFirst
<1>5. PICK b \in 0..Len(c) : OlderThan(c, h + 1) = 1..b /\ Cardinality(OlderThan(c, h + 1)) = b
  BY <1>2, OlderFirst
<1>6. OlderThan(c, h) \subseteq OlderThan(c, h + 1)
  <2>1. \A i \in 1..Len(c) : HourOf(c[i].ts) \in Nat
    BY <1>3, HourFacts
  <2> QED
    BY <1>3, <2>1 DEF OlderThan
<1>7. a <= b
  <2>1. a \in Nat /\ b \in Nat /\ \A i \in 1..a : i \in 1..b
    BY <1>3, <1>4, <1>5, <1>6
  <2>2. CASE a = 0
    BY <2>1, <2>2
  <2>3. CASE a > 0
    <3>1. a \in 1..a
      BY <2>1, <2>3
    <3> QED
      BY <2>1, <3>1
  <2> QED
    BY <2>1, <2>2, <2>3
<1>8. Earlier(l, h) = a /\ Earlier(l, h + 1) = b
  BY <1>1, <1>4, <1>5 DEF Earlier, OlderThan
<1>9. InHour(l, h) = SubSeq(c, a + 1, b)
  BY <1>1, <1>8 DEF InHour
<1> QED
  BY <1>1, <1>4, <1>5, <1>7, <1>8, <1>9


-----------------------------------------------------------------------------
(* The status ladder: LadderIsMonotone.                                    *)

NonSuccess(f) == {l \in DOMAIN f : f[l] # "success"}
Outages(f) == {l \in DOMAIN f : f[l] = "outage"}

\* The rank of an hour's status by the locations that fail in it.
LEMMA LadderRank ==
  ASSUME NEW f, DOMAIN f # {}
  PROVE  Rank(AggregateFromLocations(f)) =
           IF NonSuccess(f) = DOMAIN f /\ Outages(f) # {} THEN 3
           ELSE IF \/ Outages(f) # {} \/ Cardinality(NonSuccess(f)) > 1
                   \/ NonSuccess(f) = DOMAIN f THEN 2
           ELSE 1
<1>1. AggregateFromLocations(f) =
        IF NonSuccess(f) = DOMAIN f /\ Outages(f) # {} THEN "major_outage"
        ELSE IF \/ Outages(f) # {} \/ Cardinality(NonSuccess(f)) > 1
                \/ NonSuccess(f) = DOMAIN f THEN "degraded"
        ELSE "operational"
  BY Zenon DEF AggregateFromLocations, NonSuccess, Outages
<1>2. Rank("major_outage") = 3 /\ Rank("degraded") = 2 /\ Rank("operational") = 1
  BY DEF Rank
<1> QED
  BY <1>1, <1>2

\* f is at least as good as g: g fails where f does, and where only g reports.
NoWorse(f, g) ==
  /\ DOMAIN f # {} /\ IsFiniteSet(DOMAIN g) /\ DOMAIN f \subseteq DOMAIN g
  /\ NonSuccess(f) \subseteq NonSuccess(g) /\ Outages(f) \subseteq Outages(g)
  /\ DOMAIN g \ DOMAIN f \subseteq NonSuccess(g)

\* More failures never rank lower.
LEMMA LadderWorse ==
  ASSUME NEW f, NEW g, NoWorse(f, g)
  PROVE  Rank(AggregateFromLocations(g)) >= Rank(AggregateFromLocations(f))
<1>1. Cardinality(NonSuccess(f)) \in Nat /\ Cardinality(NonSuccess(g)) \in Nat
      /\ Cardinality(NonSuccess(f)) <= Cardinality(NonSuccess(g))
  <2>1. NonSuccess(g) \subseteq DOMAIN g
    BY DEF NonSuccess
  <2>2. IsFiniteSet(NonSuccess(g))
    BY <2>1, FS_Subset DEF NoWorse
  <2> QED
    BY <2>2, FS_Subset, FS_CardinalityType DEF NoWorse
<1>2. NonSuccess(f) = DOMAIN f => NonSuccess(g) = DOMAIN g
  BY DEF NoWorse, NonSuccess
<1>3. DOMAIN g # {} /\ (Outages(f) # {} => Outages(g) # {})
  BY DEF NoWorse
<1>4. DOMAIN f # {}
  BY DEF NoWorse
<1> QED
  BY <1>1, <1>2, <1>3, <1>4, LadderRank

\* g is at least as good as f: it fails only where f does.
NoBetter(f, g) ==
  /\ DOMAIN f # {} /\ IsFiniteSet(DOMAIN g) /\ DOMAIN f \subseteq DOMAIN g
  /\ NonSuccess(g) \subseteq NonSuccess(f) /\ Outages(g) \subseteq Outages(f)

\* Fewer failures never rank higher.
LEMMA LadderBetter ==
  ASSUME NEW f, NEW g, NoBetter(f, g)
  PROVE  Rank(AggregateFromLocations(g)) <= Rank(AggregateFromLocations(f))
<1>1. Cardinality(NonSuccess(f)) \in Nat /\ Cardinality(NonSuccess(g)) \in Nat
      /\ Cardinality(NonSuccess(g)) <= Cardinality(NonSuccess(f))
  <2>1. NonSuccess(f) \subseteq DOMAIN g
    BY DEF NonSuccess, NoBetter
  <2>2. IsFiniteSet(NonSuccess(f))
    BY <2>1, FS_Subset DEF NoBetter
  <2> QED
    BY <2>2, FS_Subset, FS_CardinalityType DEF NoBetter
<1>2. NonSuccess(g) = DOMAIN g => NonSuccess(f) = DOMAIN f
  BY DEF NoBetter, NonSuccess
<1>3. DOMAIN g # {} /\ DOMAIN f # {} /\ (Outages(g) # {} => Outages(f) # {})
  BY DEF NoBetter
<1> QED
  BY <1>1, <1>2, <1>3, LadderRank

\* Counting failures: they are no more than the samples, one more after a failure.
LEMMA FailuresCount ==
  ASSUME NEW q \in Seq(Samples)
  PROVE  /\ Failures(q) \in 0..Len(q)
         /\ \A s \in Samples : Failures(Append(q, s)) = Failures(q) + IF s.msg = Ok THEN 0 ELSE 1
<1>1. PICK n \in Nat : n = Len(q)
  OBVIOUS
<1>2. DOMAIN q = 1..n
  BY <1>1
<1>3. PICK F : F = {i \in DOMAIN q : q[i].msg # Ok}
  OBVIOUS
<1>4. IsFiniteSet(1..n) /\ Cardinality(1..n) = n
  <2>1. n - 1 + 1 = n /\ 1 \in Int /\ n \in Int
    OBVIOUS
  <2> QED
    BY <2>1, FS_Interval
<1>5. IsFiniteSet(F) /\ Cardinality(F) \in Nat /\ Cardinality(F) <= n
  <2>1. F \subseteq 1..n
    BY <1>2, <1>3
  <2> QED
    BY <1>4, <2>1, FS_Subset, FS_CardinalityType
<1>6. ASSUME NEW s \in Samples
      PROVE  Failures(Append(q, s)) = Failures(q) + IF s.msg = Ok THEN 0 ELSE 1
  <2>1. PICK r : r = Append(q, s)
    OBVIOUS
  <2>2. DOMAIN r = 1..(n + 1) /\ r[n + 1] = s /\ \A i \in 1..n : r[i] = q[i]
    BY <1>1, <2>1
  <2>3. PICK G : G = {i \in DOMAIN r : r[i].msg # Ok}
    OBVIOUS
  <2>4. 1..(n + 1) = (1..n) \cup {n + 1} /\ n + 1 \notin 1..n
    OBVIOUS
  <2>5. CASE s.msg = Ok
    <3>1. G = F
      BY <1>2, <1>3, <2>2, <2>3, <2>4, <2>5
    <3>2. Failures(q) = Cardinality(F) /\ Failures(Append(q, s)) = Cardinality(F)
      BY <1>3, <2>1, <2>3, <3>1, Zenon DEF Failures
    <3> QED
      BY <1>5, <2>5, <3>2
  <2>6. CASE s.msg # Ok
    <3>1. G = F \cup {n + 1} /\ n + 1 \notin F
      BY <1>2, <1>3, <2>2, <2>3, <2>4, <2>6
    <3>2. Cardinality(G) = Cardinality(F) + 1
      BY <1>5, <3>1, FS_AddElement
    <3> QED
      BY <1>3, <2>1, <2>3, <2>6, <3>2 DEF Failures
  <2> QED
    BY <2>5, <2>6
<1> QED
  BY <1>1, <1>3, <1>5, <1>6 DEF Failures

\* What one more sample does to a location's status.
LEMMA StatusAppend ==
  ASSUME NEW q \in Seq(Samples), NEW s \in Samples
  PROVE  /\ s.msg # Ok => StatusOf(Append(q, s)) # "success"
         /\ s.msg # Ok /\ StatusOf(q) = "outage" => StatusOf(Append(q, s)) = "outage"
         /\ s.msg = Ok /\ q # << >> /\ StatusOf(Append(q, s)) = "outage" => StatusOf(q) = "outage"
         /\ s.msg = Ok /\ StatusOf(q) = "success" => StatusOf(Append(q, s)) = "success"
         /\ s.msg = Ok /\ q = << >> => StatusOf(Append(q, s)) = "success"
<1>1. PICK n \in Nat, f \in Nat, g \in Int : n = Len(q) /\ f = Failures(q) /\ g = Failures(Append(q, s))
  BY FailuresCount
<1>2. f <= n /\ g = f + (IF s.msg = Ok THEN 0 ELSE 1) /\ Len(Append(q, s)) = n + 1
  BY <1>1, FailuresCount
<1>3. StatusOf(q) = LocationFromCounts(n - f, f) /\ StatusOf(Append(q, s)) = LocationFromCounts((n + 1) - g, g)
  BY <1>1, <1>2 DEF StatusOf
<1>4. \A a, b \in Nat : LocationFromCounts(a, b) = IF b = 0 THEN "success"
                                                 ELSE IF b > a THEN "outage" ELSE "degraded"
  BY DEF LocationFromCounts
<1>5. n - f \in Nat /\ (n + 1) - g \in Nat /\ g \in Nat
  BY <1>2
<1>6. PICK old, new : old = StatusOf(q) /\ new = StatusOf(Append(q, s))
  OBVIOUS
<1>7. /\ old = (IF f = 0 THEN "success" ELSE IF f > n - f THEN "outage" ELSE "degraded")
      /\ new = (IF g = 0 THEN "success" ELSE IF g > (n + 1) - g THEN "outage" ELSE "degraded")
  BY <1>3, <1>4, <1>5, <1>6
<1>8. q = << >> => n = 0
  BY <1>1
<1> QED
  BY <1>2, <1>5, <1>6, <1>7, <1>8

\* The samples of the hour that runs are the last ones.
LEMMA HourNowSamples ==
  ASSUME SamplesInv, NEW l \in Locations
  PROVE  \E a \in 0..Len(checks[l]) :
           /\ OlderThan(checks[l], HourNow) = 1..a
           /\ InHour(l, HourNow) = SubSeq(checks[l], a + 1, Len(checks[l]))
<1>1. PICK c : c = checks[l]
  OBVIOUS
<1>2. Ordered(c, now) /\ now \in Nat
  BY <1>1 DEF SamplesInv
<1>3. HourNow \in Nat
  BY <1>2, HourFacts DEF HourNow
<1>4. PICK a \in 0..Len(c), b \in 0..Len(c) :
        /\ a <= b /\ OlderThan(c, HourNow) = 1..a /\ OlderThan(c, HourNow + 1) = 1..b
        /\ InHour(l, HourNow) = SubSeq(c, a + 1, b)
  BY <1>1, <1>3, HourSamples
<1>5. \A i \in 1..Len(c) : HourOf(c[i].ts) < HourNow + 1
  <2> SUFFICES ASSUME NEW i \in 1..Len(c) PROVE HourOf(c[i].ts) < HourNow + 1
    OBVIOUS
  <2>1. PICK u \in Nat : u = c[i].ts /\ u <= now
    BY <1>2, OrderedFacts
  <2>2. HourOf(u) \in Nat /\ \A w \in Nat : u <= w => HourOf(u) <= HourOf(w)
    BY HourFacts
  <2> QED
    BY <1>2, <1>3, <2>1, <2>2 DEF HourNow
<1>6. b = Len(c)
  <2>1. Len(c) \in Nat /\ DOMAIN c = 1..Len(c)
    BY <1>2, OrderedFacts
  <2>2. OlderThan(c, HourNow + 1) = 1..Len(c)
    BY <1>5, <2>1 DEF OlderThan
  <2>3. b \in Nat
    BY <2>1
  <2>4. 1..b = 1..Len(c)
    BY <1>4, <2>2, Zenon
  <2> QED
    BY <2>1, <2>3, <2>4, SameInterval
<1> QED
  BY <1>1, <1>4, <1>6

\* A check appends its sample to its location's hour, and leaves the others'.
LEMMA HourAppends ==
  ASSUME SamplesInv, SamplesInv', NEW l \in Locations, NEW s \in Samples, s.ts = now, now' = now,
         checks'[l] = Append(checks[l], s), \A k \in Locations : k # l => checks'[k] = checks[k]
  PROVE  /\ InHour(l, HourNow) \in Seq(Samples)
         /\ InHour(l, HourNow)' = Append(InHour(l, HourNow), s)
         /\ \A k \in Locations : k # l => InHour(k, HourNow)' = InHour(k, HourNow)
<1>1. HourNow' = HourNow /\ HourNow \in Nat
  <2>1. now \in Nat
    BY DEF SamplesInv
  <2> QED
    BY <2>1, HourFacts DEF HourNow, HourOf
<1>2. \A k \in Locations : k # l => InHour(k, HourNow)' = InHour(k, HourNow)
  BY <1>1 DEF InHour, Earlier, HourOf
<1>3. PICK c, d : c = checks[l] /\ d = checks'[l]
  OBVIOUS
<1>4. PICK n \in Nat : n = Len(c) /\ c \in Seq(Samples) /\ DOMAIN c = 1..n
  BY <1>3, OrderedFacts DEF SamplesInv
<1>5. d = Append(c, s) /\ d \in Seq(Samples) /\ Len(d) = n + 1 /\ DOMAIN d = 1..(n + 1)
      /\ d[n + 1] = s /\ \A i \in 1..n : d[i] = c[i]
  BY <1>3, <1>4
<1>6. PICK a \in 0..n : OlderThan(c, HourNow) = 1..a
                        /\ InHour(l, HourNow) = SubSeq(c, a + 1, n)
  BY <1>3, <1>4, HourNowSamples
<1>7. OlderThan(d, HourNow) = 1..a
  <2>1. HourOf(s.ts) = HourNow
    BY DEF HourNow
  <2>2. 1..(n + 1) = (1..n) \cup {n + 1}
    OBVIOUS
  <2>3. OlderThan(d, HourNow) = OlderThan(c, HourNow)
    BY <1>1, <1>4, <1>5, <2>1, <2>2 DEF OlderThan
  <2> QED
    BY <1>6, <2>3
<1>8. InHour(l, HourNow)' = SubSeq(d, a + 1, n + 1)
  <2>1. Earlier(l, HourNow)' = a
    <3>1. Earlier(l, HourNow)' = Cardinality(OlderThan(d, HourNow))
      BY <1>1, <1>3 DEF Earlier, OlderThan, HourOf
    <3>2. 1 \in Int /\ a \in Int /\ a - 1 + 1 = a /\ a >= 0
      OBVIOUS
    <3> QED
      BY <1>7, <3>1, <3>2, FS_Interval
  <2>2. Earlier(l, HourNow + 1)' = n + 1
    <3>1. Earlier(l, HourNow + 1)' = Cardinality(OlderThan(d, HourNow + 1))
      BY <1>1, <1>3 DEF Earlier, OlderThan, HourOf
    <3>2. \A i \in 1..(n + 1) : HourOf(d[i].ts) < HourNow + 1
      <4> SUFFICES ASSUME NEW i \in 1..(n + 1) PROVE HourOf(d[i].ts) < HourNow + 1
        OBVIOUS
      <4>1. Ordered(d, now) /\ now \in Nat
        BY <1>3 DEF SamplesInv
      <4>2. PICK u \in Nat : u = d[i].ts /\ u <= now
        BY <1>5, <4>1, OrderedFacts
      <4>3. HourOf(u) \in Nat /\ \A w \in Nat : u <= w => HourOf(u) <= HourOf(w)
        BY HourFacts
      <4> QED
        BY <1>1, <4>1, <4>2, <4>3 DEF HourNow
    <3>3. OlderThan(d, HourNow + 1) = 1..(n + 1)
      BY <1>5, <3>2 DEF OlderThan
    <3>4. 1 \in Int /\ n + 1 \in Int /\ (n + 1) - 1 + 1 = n + 1 /\ n + 1 >= 0
      OBVIOUS
    <3> QED
      BY <3>1, <3>3, <3>4, FS_Interval
  <2> QED
    BY <1>1, <1>3, <2>1, <2>2 DEF InHour, Earlier, HourOf
<1>9. SubSeq(c, a + 1, n) \in Seq(Samples)
  BY <1>4
<1>10. SubSeq(d, a + 1, n + 1) = Append(SubSeq(c, a + 1, n), s)
  <2>1. PICK u, v : u = SubSeq(c, a + 1, n) /\ v = SubSeq(d, a + 1, n + 1)
    OBVIOUS
  <2>2. u \in Seq(Samples) /\ Len(u) = n - a /\ \A i \in 1..(n - a) : u[i] = c[a + i]
    BY <1>4, <2>1
  <2>3. v \in Seq(Samples) /\ Len(v) = (n - a) + 1 /\ \A i \in 1..((n - a) + 1) : v[i] = d[a + i]
    BY <1>5, <2>1
  <2>4. \A i \in 1..((n - a) + 1) : v[i] = Append(u, s)[i]
    <3> SUFFICES ASSUME NEW i \in 1..((n - a) + 1) PROVE v[i] = Append(u, s)[i]
      OBVIOUS
    <3>1. CASE i \in 1..(n - a)
      <4>1. a + i \in 1..n
        BY <3>1
      <4> QED
        BY <1>5, <2>2, <2>3, <3>1, <4>1
    <3>2. CASE i = (n - a) + 1
      <4>1. a + i = n + 1
        BY <3>2
      <4> QED
        BY <1>5, <2>2, <2>3, <3>2, <4>1
    <3>3. i \in 1..(n - a) \/ i = (n - a) + 1
      OBVIOUS
    <3> QED
      BY <3>1, <3>2, <3>3
  <2>5. Append(u, s) \in Seq(Samples) /\ Len(Append(u, s)) = (n - a) + 1
    BY <2>2
  <2>6. v = Append(u, s)
    BY <2>3, <2>4, <2>5, SeqEqual
  <2> QED
    BY <2>1, <2>6
<1> QED
  BY <1>2, <1>6, <1>8, <1>9, <1>10

\* The statuses of the locations that report in the hour that runs.
Reporting == [l \in {k \in Locations : InHour(k, HourNow) # << >>} |-> StatusOf(InHour(l, HourNow))]

\* One check moves the hour's status one way only.
LEMMA LadderStep ==
  ASSUME SamplesInv, SamplesInv', NEW l \in Locations, NEW s \in Samples, s.ts = now, now' = now,
         checks'[l] = Append(checks[l], s), \A k \in Locations : k # l => checks'[k] = checks[k],
         HourStatus(HourNow) # "unknown"
  PROVE  IF s.msg = Ok THEN Rank(HourStatus(HourNow)') <= Rank(HourStatus(HourNow))
                       ELSE Rank(HourStatus(HourNow)') >= Rank(HourStatus(HourNow))
<1>1. PICK f, g : f = Reporting /\ g = Reporting'
  OBVIOUS
<1>2. HourStatus(HourNow) = AggregateFromLocations(f) /\ HourStatus(HourNow)' = AggregateFromLocations(g)
  <2>1. HourStatus(HourNow) = AggregateFromLocations(Reporting)
    BY DEF HourStatus, Reporting
  <2>2. HourStatus(HourNow)' = AggregateFromLocations(Reporting')
    BY DEF HourStatus, Reporting, AggregateFromLocations
  <2> QED
    BY <1>1, <2>1, <2>2
<1>3. PICK q \in Seq(Samples) :
        /\ InHour(l, HourNow) = q /\ InHour(l, HourNow)' = Append(q, s)
        /\ \A k \in Locations : k # l => InHour(k, HourNow)' = InHour(k, HourNow)
  BY HourAppends
<1>4. Append(q, s) # << >>
  OBVIOUS
<1>5. /\ DOMAIN f = {k \in Locations : InHour(k, HourNow) # << >>}
      /\ \A k \in DOMAIN f : f[k] = StatusOf(InHour(k, HourNow))
  BY <1>1 DEF Reporting
<1>6. /\ DOMAIN g = {k \in Locations : InHour(k, HourNow)' # << >>}
      /\ \A k \in DOMAIN g : g[k] = StatusOf(InHour(k, HourNow)')
  BY <1>1 DEF Reporting, StatusOf, Failures, LocationFromCounts
<1>7. DOMAIN g = DOMAIN f \cup {l} /\ (l \in DOMAIN f <=> q # << >>)
  BY <1>3, <1>4, <1>5, <1>6
<1>8. /\ \A k \in DOMAIN f : k # l => g[k] = f[k]
      /\ g[l] = StatusOf(Append(q, s)) /\ (l \in DOMAIN f => f[l] = StatusOf(q))
  BY <1>3, <1>5, <1>6, <1>7
<1>9. DOMAIN f # {}
  BY <1>2 DEF AggregateFromLocations
<1>10. IsFiniteSet(DOMAIN g)
  BY <1>6, IncidentsAssumption, FS_Subset
<1>11. CASE s.msg = Ok
  <2>1. /\ q # << >> /\ StatusOf(Append(q, s)) = "outage" => StatusOf(q) = "outage"
        /\ StatusOf(q) = "success" => StatusOf(Append(q, s)) = "success"
        /\ q = << >> => StatusOf(Append(q, s)) = "success"
    BY <1>11, StatusAppend
  <2>2. NonSuccess(g) \subseteq NonSuccess(f)
    BY <1>7, <1>8, <2>1 DEF NonSuccess
  <2>3. Outages(g) \subseteq Outages(f)
    BY <1>7, <1>8, <2>1 DEF Outages
  <2>4. NoBetter(f, g)
    BY <1>7, <1>9, <1>10, <2>2, <2>3 DEF NoBetter
  <2> QED
    BY <1>2, <1>11, <2>4, LadderBetter
<1>12. CASE s.msg # Ok
  <2>1. /\ StatusOf(Append(q, s)) # "success"
        /\ StatusOf(q) = "outage" => StatusOf(Append(q, s)) = "outage"
    BY <1>12, StatusAppend
  <2>2. NonSuccess(f) \subseteq NonSuccess(g)
    BY <1>7, <1>8, <2>1 DEF NonSuccess
  <2>3. Outages(f) \subseteq Outages(g)
    BY <1>7, <1>8, <2>1 DEF Outages
  <2>4. DOMAIN g \ DOMAIN f \subseteq NonSuccess(g)
    BY <1>7, <1>8, <2>1 DEF NonSuccess
  <2>5. NoWorse(f, g)
    BY <1>7, <1>9, <1>10, <2>2, <2>3, <2>4 DEF NoWorse
  <2> QED
    BY <1>2, <1>12, <2>5, LadderWorse
<1> QED
  BY <1>11, <1>12

\* Within an hour a failed check never improves the hour's status, and a
\* successful one never worsens it, for any number of locations and checks.
THEOREM LadderMonotone == Spec => LadderIsMonotone
<1>1. ASSUME SamplesInv, SamplesInv', [Next]_vars
      PROVE  [ now' = now =>
                 LET before == HourStatus(HourNow)  after == HourStatus(HourNow)' IN
                 before # "unknown" =>
                   \A l \in Locations : checks'[l] # checks[l] =>
                     IF Last(checks'[l]).msg = Ok THEN Rank(after) <= Rank(before)
                                                  ELSE Rank(after) >= Rank(before) ]_vars
  <2> SUFFICES ASSUME now' = now, HourStatus(HourNow) # "unknown",
                      NEW k \in Locations, checks'[k] # checks[k]
               PROVE  IF Last(checks'[k]).msg = Ok
                        THEN Rank(HourStatus(HourNow)') <= Rank(HourStatus(HourNow))
                        ELSE Rank(HourStatus(HourNow)') >= Rank(HourStatus(HourNow))
    OBVIOUS
  <2>1. PICK l \in Locations, msg \in Messages \cup {Ok} : Check(l, msg)
    BY <1>1 DEF Next, Tick, vars
  <2>2. PICK s \in Samples :
          /\ s.ts = now /\ s.msg = msg
          /\ checks'[l] = Append(checks[l], s)
          /\ \A j \in Locations : j # l => checks'[j] = checks[j]
    BY <1>1, <2>1, CheckAppends
  <2>3. k = l
    BY <2>2
  <2>4. Last(checks'[l]) = s
    <3>1. checks[l] \in Seq(Samples)
      BY <1>1, OrderedFacts DEF SamplesInv
    <3> QED
      BY <2>2, <3>1 DEF Last
  <2>5. IF s.msg = Ok THEN Rank(HourStatus(HourNow)') <= Rank(HourStatus(HourNow))
                      ELSE Rank(HourStatus(HourNow)') >= Rank(HourStatus(HourNow))
    BY <1>1, <2>2, LadderStep
  <2> QED
    BY <2>3, <2>4, <2>5
<1> QED
  BY <1>1, SamplesInOrder, PTL DEF Spec, LadderIsMonotone

-----------------------------------------------------------------------------
(* mergeSegments over any finite set of failures: IncidentsPartition.      *)

Failure == [loc: Locations, msg: Messages, start: Nat, end: Nat, count: Nat, ongoing: BOOLEAN]
Window == [locations: SUBSET Locations, msg: Messages, start: Nat, end: Nat, count: Nat,
           ongoing: BOOLEAN]

\* A finite set of failures, none of which ends before it starts.
Proper(S) == S \subseteq Failure /\ IsFiniteSet(S) /\ \A s \in S : s.start <= s.end

SumAt(c, acc, s) == s.count + acc
Whichever(S) == CHOOSE x \in S : TRUE
Sums == INSTANCE FoldProofs WITH Op <- SumAt, Pick <- Whichever
Count(S) == Sums!Fold(0, 0, S)

MergeAt(c, windows, s) == MergeInto(windows, s)
Merges == INSTANCE FoldProofs WITH Op <- MergeAt, Pick <- Newest

\* The sum IncidentsPartition takes is this fold.
LEMMA CountIsSum ==
  ASSUME NEW S
  PROVE  MapThenSumSet(LAMBDA s : s.count, S) = Count(S)
BY DEF MapThenSumSet, Count, Sums!Fold, MapThenFoldSet, Sums!MapThenFoldSet, SumAt, Whichever

\* The instances' finite sets are the finite sets.
LEMMA SameFinite ==
  ASSUME NEW S, IsFiniteSet(S)
  PROVE  Sums!IsFiniteSet(S) /\ Merges!IsFiniteSet(S) /\ Scans!IsFiniteSet(S)
BY DEF IsFiniteSet, Sums!IsFiniteSet, Merges!IsFiniteSet, Scans!IsFiniteSet

\* A proper set's subsets are proper.
LEMMA ProperSubset ==
  ASSUME NEW S, Proper(S), NEW T \in SUBSET S
  PROVE  Proper(T)
BY FS_Subset DEF Proper

\* The parts of a failure.
LEMMA FailureFacts ==
  ASSUME NEW s \in Failure
  PROVE  /\ s.loc \in Locations /\ s.msg \in Messages /\ s.start \in Nat /\ s.end \in Nat
         /\ s.count \in Nat /\ s.ongoing \in BOOLEAN
BY DEF Failure

\* Counting a set's failures, one of them at a time, in any order.
LEMMA CountRemove ==
  ASSUME NEW S, Proper(S)
  PROVE  Count(S) \in Nat /\ (S = {} => Count(S) = 0)
         /\ \A y \in S : Count(S) = y.count + Count(S \ {y})
<1>1. PICK good : good = {T \in SUBSET S : /\ Count(T) \in Nat /\ (T = {} => Count(T) = 0)
                                           /\ \A y \in T : Count(T) = y.count + Count(T \ {y})}
  OBVIOUS
<1>2. ASSUME NEW T \in SUBSET S, \A U \in SUBSET T : U # T => U \in good
      PROVE  T \in good
  <2>1. IsFiniteSet(T) /\ Sums!Picks(T)
    BY FS_Subset DEF Proper, Sums!Picks, Whichever
  <2>2. CASE T = {}
    <3>1. Count(T) = 0
      BY <2>1, <2>2, SameFinite, Sums!FoldEquations DEF Count
    <3> QED
      BY <1>1, <2>2, <3>1
  <2>3. CASE T # {}
    <3>1. PICK x : x = Whichever(T)
      OBVIOUS
    <3>2. x \in T
      BY <2>3, <3>1 DEF Whichever
    <3>3. Count(T) = SumAt(0, Count(T \ {x}), x)
      BY <2>1, <2>3, <3>1, SameFinite, Sums!FoldEquations DEF Count
    <3>4. Count(T) = x.count + Count(T \ {x})
      BY <3>3 DEF SumAt
    <3>5. \A y \in T : y.count \in Nat
      BY FailureFacts DEF Proper
    <3>6. \A y \in T : T \ {y} \in good
      BY <1>2
    <3>7. Count(T) \in Nat
      <4>1. Count(T \ {x}) \in Nat
        BY <1>1, <3>2, <3>6
      <4> QED
        BY <3>2, <3>4, <3>5, <4>1
    <3>8. ASSUME NEW y \in T PROVE Count(T) = y.count + Count(T \ {y})
      <4>1. CASE y = x
        BY <3>4, <4>1
      <4>2. CASE y # x
        <5>1. PICK U, V, W : U = T \ {x} /\ V = T \ {y} /\ W = (T \ {x}) \ {y}
          OBVIOUS
        <5>2. y \in U /\ x \in V /\ U \ {y} = W /\ V \ {x} = W
          BY <3>2, <4>2, <5>1
        <5>3. U \in good /\ V \in good /\ W \in good
          <6>1. W \in SUBSET T /\ W # T
            BY <3>2, <5>1
          <6> QED
            BY <1>2, <3>2, <3>6, <5>1, <6>1
        <5>4. Count(U) = y.count + Count(W) /\ Count(V) = x.count + Count(W) /\ Count(W) \in Nat
          BY <1>1, <5>2, <5>3
        <5>5. Count(T) = x.count + Count(U)
          BY <3>4, <5>1
        <5>6. x.count \in Nat /\ y.count \in Nat
          BY <3>2, <3>5
        <5>7. Count(T) = y.count + Count(V)
          BY <5>4, <5>5, <5>6
        <5> QED
          BY <5>1, <5>7
      <4> QED
        BY <4>1, <4>2
    <3> QED
      BY <1>1, <2>3, <3>7, <3>8
  <2> QED
    BY <2>2, <2>3
<1>3. S \in good
  <2>1. IsFiniteSet(S)
    BY DEF Proper
  <2>2. \A T \in SUBSET S : T \in good
    BY <1>2, <2>1, SameFinite, Sums!SubsetInduction
  <2> QED
    BY <2>2
<1> QED
  BY <1>1, <1>3

\* One failure more.
LEMMA CountAdd ==
  ASSUME NEW S, NEW x, x \notin S, Proper(S \cup {x})
  PROVE  Count(S \cup {x}) = Count(S) + x.count
<1>1. PICK T : T = S \cup {x}
  OBVIOUS
<1>2. Proper(T) /\ Proper(S) /\ x \in T /\ T \ {x} = S
  BY <1>1, ProperSubset
<1>3. Count(T) = x.count + Count(S) /\ Count(S) \in Nat
  BY <1>2, CountRemove
<1>4. x.count \in Nat
  BY <1>2, FailureFacts DEF Proper
<1> QED
  BY <1>1, <1>3, <1>4

\* A finite set of failures has a newest one.
LEMMA NewestExists ==
  ASSUME NEW S, Proper(S), S # {}
  PROVE  Newest(S) \in S /\ \A t \in S : t.start <= Newest(S).start
<1>1. PICK good : good = {T \in SUBSET S : T = {} \/ \E s \in T : \A t \in T : t.start <= s.start}
  OBVIOUS
<1>2. \A s \in S : s.start \in Nat
  BY FailureFacts DEF Proper
<1>3. ASSUME NEW T \in SUBSET S, \A U \in SUBSET T : U # T => U \in good
      PROVE  T \in good
  <2>1. CASE T = {}
    BY <1>1, <2>1
  <2>2. CASE T # {}
    <3>1. PICK x \in T : TRUE
      BY <2>2
    <3>2. PICK U : U = T \ {x}
      OBVIOUS
    <3>3. U \in good /\ T = U \cup {x}
      BY <1>3, <3>2
    <3>4. CASE U = {}
      BY <1>1, <1>2, <3>3, <3>4
    <3>5. CASE U # {}
      <4>1. PICK s \in U : \A t \in U : t.start <= s.start
        BY <1>1, <3>3, <3>5
      <4>2. CASE x.start <= s.start
        BY <1>1, <3>3, <4>1, <4>2
      <4>3. CASE ~(x.start <= s.start)
        <5>1. x \in S /\ s \in S /\ \A t \in U : t \in S
          BY <3>2
        <5>2. \A t \in U : t.start <= x.start
          BY <1>2, <4>1, <4>3, <5>1
        <5>3. x.start <= x.start
          BY <1>2, <5>1
        <5> QED
          BY <1>1, <3>3, <5>2, <5>3
      <4> QED
        BY <4>2, <4>3
    <3> QED
      BY <3>4, <3>5
  <2> QED
    BY <2>1, <2>2
<1>4. S \in good
  <2>1. IsFiniteSet(S)
    BY DEF Proper
  <2>2. \A T \in SUBSET S : T \in good
    BY <1>3, <2>1, SameFinite, Sums!SubsetInduction
  <2> QED
    BY <2>2
<1>5. \E s \in S : \A t \in S : t.start <= s.start
  BY <1>1, <1>4
<1> QED
  BY <1>5 DEF Newest

\* Merging: nothing merged is no incident, and the newest failure is merged last.
LEMMA MergedEquations ==
  ASSUME NEW S, Proper(S)
  PROVE  /\ S = {} => Merged(S) = << >>
         /\ S # {} => Merged(S) = MergeInto(Merged(S \ {Newest(S)}), Newest(S))
<1>1. \A T : Merged(T) = Merges!Fold(0, << >>, T)
  BY DEF Merged, Merges!Fold, MapThenFoldSet, Merges!MapThenFoldSet, MergeAt
<1>2. IsFiniteSet(S)
  BY DEF Proper
<1>3. Merges!Picks(S)
  <2>1. \A T \in SUBSET S : Proper(T)
    BY ProperSubset
  <2> QED
    BY <2>1, NewestExists DEF Merges!Picks
<1>4. /\ S = {} => Merges!Fold(0, << >>, S) = << >>
      /\ S # {} => Merges!Fold(0, << >>, S) =
                     MergeAt(0, Merges!Fold(0, << >>, S \ {Newest(S)}), Newest(S))
  BY <1>2, <1>3, SameFinite, Merges!FoldEquations
<1> QED
  BY <1>1, <1>4, Zenon DEF MergeAt

\* What a window says of the failures of S it tells.
Accounts(S, w) ==
  /\ w.locations = {s.loc : s \in Inside(S, w)}
  /\ w.ongoing = (\E s \in Inside(S, w) : s.ongoing)
  /\ w.count = Count(Inside(S, w))
  /\ \E s \in Inside(S, w) : s.start = w.start
  /\ \E s \in Inside(S, w) : s.end = w.end

\* The windows W tell the failures S of message m, oldest first.
Tells(S, m, W) ==
  /\ W \in Seq(Window)
  /\ \A i \in 1..Len(W) : W[i].msg = m /\ W[i].start <= W[i].end /\ Accounts(S, W[i])
  /\ \A s \in S : \E i \in 1..Len(W) : Within(s, W[i])
  /\ \A i, j \in 1..Len(W) : i < j => W[i].end + MergeGap < W[j].start

\* The parts of a window.
LEMMA WindowFacts ==
  ASSUME NEW w \in Window
  PROVE  /\ w.locations \in SUBSET Locations /\ w.msg \in Messages /\ w.start \in Nat
         /\ w.end \in Nat /\ w.count \in Nat /\ w.ongoing \in BOOLEAN
BY DEF Window

\* The last of some windows is replaced, or one is added.
LEMMA LastReplaced ==
  ASSUME NEW R, NEW V \in Seq(R), V # << >>, NEW w \in R
  PROVE  /\ ReplaceLast(V, w) \in Seq(R) /\ Len(ReplaceLast(V, w)) = Len(V) /\ Len(V) >= 1
         /\ ReplaceLast(V, w)[Len(V)] = w /\ Last(V) = V[Len(V)] /\ Last(V) \in R
         /\ \A i \in 1..Len(V) : i # Len(V) => ReplaceLast(V, w)[i] = V[i]
         /\ Last(ReplaceLast(V, w)) = w
<1>1. PICK n \in Nat : n = Len(V) /\ n >= 1
  OBVIOUS
<1>2. PICK U : U = SubSeq(V, 1, n - 1)
  OBVIOUS
<1>3. U \in Seq(R) /\ Len(U) = n - 1 /\ \A i \in 1..(n - 1) : U[i] = V[i]
  BY <1>1, <1>2
<1>4. ReplaceLast(V, w) = Append(U, w)
  BY <1>1, <1>2 DEF ReplaceLast, Front
<1>5. /\ Append(U, w) \in Seq(R) /\ Len(Append(U, w)) = n /\ Append(U, w)[n] = w
      /\ \A i \in 1..(n - 1) : Append(U, w)[i] = V[i]
  BY <1>1, <1>3
<1>6. \A i \in 1..n : i # n => i \in 1..(n - 1)
  OBVIOUS
<1> QED
  BY <1>1, <1>4, <1>5, <1>6 DEF Last

\* Widening a window by a failure.
LEMMA WidenedFacts ==
  ASSUME NEW w \in Window, NEW x \in Failure
  PROVE  LET v == Widened(w, x) IN
         /\ v \in Window /\ v.msg = w.msg /\ v.start = w.start
         /\ v.end = (IF x.end > w.end THEN x.end ELSE w.end)
         /\ v.count = w.count + x.count /\ v.ongoing = (w.ongoing \/ x.ongoing)
         /\ v.locations = w.locations \cup {x.loc}
<1>1. PICK e, n, o, ls : /\ e = (IF x.end > w.end THEN x.end ELSE w.end) /\ n = w.count + x.count
                         /\ o = (w.ongoing \/ x.ongoing) /\ ls = w.locations \cup {x.loc}
  OBVIOUS
<1>2. e \in Nat /\ n \in Nat
  BY <1>1, FailureFacts, WindowFacts
<1>3. o \in BOOLEAN
  BY <1>1, Zenon
<1>4. ls \in SUBSET Locations
  BY <1>1, FailureFacts, WindowFacts
<1>5. Widened(w, x) = [w EXCEPT !.end = e, !.count = n, !.ongoing = o, !.locations = ls]
  BY <1>1, Zenon DEF Widened
<1>6. PICK v : v = [w EXCEPT !.end = e, !.count = n, !.ongoing = o, !.locations = ls]
  OBVIOUS
<1>7. /\ v \in Window /\ v.msg = w.msg /\ v.start = w.start /\ v.end = e
      /\ v.count = n /\ v.ongoing = o /\ v.locations = ls
  BY <1>2, <1>3, <1>4, <1>6 DEF Window
<1> QED
  BY <1>1, <1>5, <1>6, <1>7, Zenon

\* A window of one failure.
LEMMA NewWindowFacts ==
  ASSUME NEW x \in Failure
  PROVE  LET v == NewWindow(x) IN
         /\ v \in Window /\ v.msg = x.msg /\ v.start = x.start /\ v.end = x.end
         /\ v.count = x.count /\ v.ongoing = x.ongoing /\ v.locations = {x.loc}
BY DEF Window, Failure, NewWindow

\* A failure outside a window changes nothing of what the window says.
LEMMA AccountsOutside ==
  ASSUME NEW S, NEW w, NEW x, ~Within(x, w), Accounts(S, w)
  PROVE  Accounts(S \cup {x}, w)
<1>1. Inside(S \cup {x}, w) = Inside(S, w)
  BY DEF Inside
<1> QED
  BY <1>1 DEF Accounts

\* A window of some of the failures that is widened by one more, next to it.
LEMMA AccountsWidened ==
  ASSUME NEW S, NEW w \in Window, NEW x, x \notin S, Proper(S \cup {x}), Accounts(S, w),
         x.msg = w.msg, w.start <= x.start,
         \A s \in S : Within(s, Widened(w, x)) => Within(s, w)
  PROVE  Accounts(S \cup {x}, Widened(w, x)) /\ Within(x, Widened(w, x))
         /\ \A s \in S : Within(s, w) => Within(s, Widened(w, x))
<1>1. PICK v : v = Widened(w, x)
  OBVIOUS
<1>2. x \in Failure /\ \A s \in S : s \in Failure
  BY DEF Proper
<1>3. /\ v \in Window /\ v.msg = w.msg /\ v.start = w.start
      /\ v.end = (IF x.end > w.end THEN x.end ELSE w.end)
      /\ v.count = w.count + x.count /\ v.ongoing = (w.ongoing \/ x.ongoing)
      /\ v.locations = w.locations \cup {x.loc}
  BY <1>1, <1>2, WidenedFacts
<1>4. w.start \in Nat /\ w.end \in Nat /\ x.start \in Nat /\ x.end \in Nat
      /\ \A s \in S : s.end \in Nat
  BY <1>2, FailureFacts, WindowFacts
<1>5. x.end <= v.end /\ w.end <= v.end /\ v.end \in Nat
  BY <1>3, <1>4
<1>6. Within(x, v)
  BY <1>3, <1>5 DEF Within
<1>7. ASSUME NEW s \in S, Within(s, w) PROVE Within(s, v)
  BY <1>3, <1>4, <1>5, <1>7 DEF Within
<1>8. PICK A, B : A = Inside(S, w) /\ B = Inside(S \cup {x}, v)
  OBVIOUS
<1>9. B = A \cup {x} /\ x \notin A /\ A \subseteq S
  BY <1>1, <1>6, <1>7, <1>8 DEF Inside
<1>10. v.locations = {s.loc : s \in B}
  <2>1. w.locations = {s.loc : s \in A}
    BY <1>8 DEF Accounts
  <2> QED
    BY <1>3, <1>9, <2>1
<1>11. v.ongoing = (\E s \in B : s.ongoing)
  <2>1. w.ongoing = (\E s \in A : s.ongoing)
    BY <1>8 DEF Accounts
  <2>2. (\E s \in B : s.ongoing) <=> (\E s \in A : s.ongoing) \/ x.ongoing
    BY <1>9
  <2> QED
    BY <1>3, <2>1, <2>2, Zenon
<1>12. v.count = Count(B)
  <2>1. w.count = Count(A)
    BY <1>8 DEF Accounts
  <2>2. Proper(A \cup {x})
    <3>1. A \cup {x} \in SUBSET (S \cup {x})
      BY <1>9
    <3> QED
      BY <3>1, ProperSubset
  <2>3. Count(A \cup {x}) = Count(A) + x.count
    BY <1>9, <2>2, CountAdd
  <2> QED
    BY <1>3, <1>9, <2>1, <2>3
<1>13. \E s \in B : s.start = v.start
  <2>1. \E s \in A : s.start = w.start
    BY <1>8 DEF Accounts
  <2> QED
    BY <1>3, <1>9, <2>1
<1>14. \E s \in B : s.end = v.end
  <2>1. \E s \in A : s.end = w.end
    BY <1>8 DEF Accounts
  <2> QED
    BY <1>3, <1>9, <2>1
<1>15. Accounts(S \cup {x}, v)
  BY <1>8, <1>10, <1>11, <1>12, <1>13, <1>14 DEF Accounts
<1> QED
  BY <1>1, <1>6, <1>7, <1>15

\* A window of a failure apart from the others.
LEMMA AccountsNew ==
  ASSUME NEW S, NEW x, x \notin S, Proper(S \cup {x}),
         \A s \in S : ~Within(s, NewWindow(x))
  PROVE  Accounts(S \cup {x}, NewWindow(x)) /\ Within(x, NewWindow(x))
<1>1. PICK v : v = NewWindow(x)
  OBVIOUS
<1>2. x \in Failure
  BY DEF Proper
<1>3. /\ v \in Window /\ v.msg = x.msg /\ v.start = x.start /\ v.end = x.end
      /\ v.count = x.count /\ v.ongoing = x.ongoing /\ v.locations = {x.loc}
  BY <1>1, <1>2, NewWindowFacts
<1>4. x.start \in Nat /\ x.end \in Nat /\ x.count \in Nat /\ x.ongoing \in BOOLEAN
  BY <1>2, FailureFacts
<1>5. Within(x, v)
  BY <1>3, <1>4 DEF Within
<1>6. Inside(S \cup {x}, v) = {x}
  BY <1>1, <1>5 DEF Inside
<1>7. Count({x}) = x.count
  <2>1. Proper({x}) /\ Proper({})
    <3>1. {x} \in SUBSET (S \cup {x}) /\ {} \in SUBSET (S \cup {x})
      OBVIOUS
    <3> QED
      BY <3>1, ProperSubset
  <2>2. x \notin {} /\ {} \cup {x} = {x}
    OBVIOUS
  <2>3. Count({x}) = Count({}) + x.count
    BY <2>1, <2>2, CountAdd
  <2>4. Count({}) = 0
    BY <2>1, CountRemove
  <2> QED
    BY <1>4, <2>3, <2>4
<1>8. v.ongoing = (\E s \in {x} : s.ongoing)
  BY <1>3, <1>4, Zenon
<1>9. Accounts(S \cup {x}, v)
  BY <1>3, <1>6, <1>7, <1>8 DEF Accounts
<1> QED
  BY <1>1, <1>5, <1>9

\* Merging a newest failure into the windows of the others.
LEMMA MergeStep ==
  ASSUME NEW m, NEW S, NEW x, x \notin S, Proper(S \cup {x}),
         \A s \in S \cup {x} : s.msg = m /\ s.start <= x.start,
         NEW V, Tells(S, m, V)
  PROVE  Tells(S \cup {x}, m, MergeInto(V, x))
<1>1. PICK W : W = MergeInto(V, x)
  OBVIOUS
<1>2. PICK n \in Nat : n = Len(V)
  BY DEF Tells
<1>3. /\ V \in Seq(Window)
      /\ \A i \in 1..n : /\ V[i] \in Window /\ V[i].start \in Nat /\ V[i].end \in Nat
                        /\ V[i].msg = m /\ V[i].start <= V[i].end /\ Accounts(S, V[i])
  <2>1. V \in Seq(Window) /\ \A i \in 1..n : V[i] \in Window
    BY <1>2 DEF Tells
  <2> QED
    BY <1>2, <2>1, WindowFacts DEF Tells
<1>4. /\ \A s \in S : \E i \in 1..n : Within(s, V[i])
      /\ \A i, j \in 1..n : i < j => V[i].end + MergeGap < V[j].start
  BY <1>2 DEF Tells
<1>5. x \in Failure /\ x.msg = m /\ MergeGap \in Nat /\ x.start \in Nat /\ x.end \in Nat /\ x.start <= x.end
      /\ \A s \in S : s.start \in Nat /\ s.end \in Nat /\ s.start <= s.end /\ s.start <= x.start
  <2>1. x \in Failure /\ x.start <= x.end /\ \A s \in S : s \in Failure /\ s.start <= s.end
    BY DEF Proper
  <2> QED
    BY <2>1, FailureFacts, IncidentsAssumption
<1>6. \A i \in 1..n : V[i].start <= x.start
  <2> SUFFICES ASSUME NEW i \in 1..n PROVE V[i].start <= x.start
    OBVIOUS
  <2>1. \E s \in S : s.start = V[i].start
    BY <1>3 DEF Accounts, Inside
  <2> QED
    BY <1>5, <2>1
<1>7. CASE V # << >> /\ x.start <= Last(V).end + MergeGap
  <2>1. n >= 1 /\ n \in 1..n /\ Last(V) = V[n]
    BY <1>2, <1>3, <1>7 DEF Last
  <2>2. PICK v : v = Widened(V[n], x)
    OBVIOUS
  <2>3. v \in Window /\ v.msg = m /\ v.start = V[n].start
        /\ v.end = (IF x.end > V[n].end THEN x.end ELSE V[n].end)
    BY <1>3, <1>5, <2>1, <2>2, WidenedFacts
  <2>4. W = ReplaceLast(V, v)
    BY <1>1, <1>7, <2>1, <2>2 DEF MergeInto
  <2>5. W \in Seq(Window) /\ Len(W) = n /\ W[n] = v /\ \A i \in 1..n : i # n => W[i] = V[i]
    <3>1. V \in Seq(Window) /\ V # << >> /\ v \in Window
      BY <1>3, <1>7, <2>3
    <3>2. /\ ReplaceLast(V, v) \in Seq(Window) /\ Len(ReplaceLast(V, v)) = Len(V)
          /\ ReplaceLast(V, v)[Len(V)] = v
          /\ \A i \in 1..Len(V) : i # Len(V) => ReplaceLast(V, v)[i] = V[i]
      BY <3>1, LastReplaced
    <3> QED
      BY <1>2, <2>4, <3>2, Zenon
  <2>6. ASSUME NEW s \in S, Within(s, v) PROVE Within(s, V[n])
    <3>1. PICK i \in 1..n : Within(s, V[i])
      BY <1>4
    <3>2. CASE i = n
      BY <3>1, <3>2
    <3>3. CASE i # n
      <4>1. i < n
        BY <3>3
      <4>2. V[i].end + MergeGap < V[n].start
        BY <1>4, <2>1, <4>1
      <4>3. s.end <= V[i].end /\ V[n].start <= s.start
        BY <2>3, <2>6, <3>1 DEF Within
      <4>4. s.start \in Nat /\ s.end \in Nat /\ s.start <= s.end /\ MergeGap \in Nat
            /\ V[i].end \in Nat /\ V[n].start \in Nat
        BY <1>3, <1>5, <2>1
      <4> QED
        BY <4>2, <4>3, <4>4
    <3> QED
      BY <3>2, <3>3
  <2>7. Accounts(S \cup {x}, v) /\ Within(x, v) /\ \A s \in S : Within(s, V[n]) => Within(s, v)
    <3>1. V[n] \in Window /\ Accounts(S, V[n]) /\ x.msg = V[n].msg /\ V[n].start <= x.start
      BY <1>3, <1>5, <1>6, <2>1
    <3> QED
      BY <2>2, <2>6, <3>1, AccountsWidened
  <2>8. ASSUME NEW i \in 1..n, i # n PROVE Accounts(S \cup {x}, V[i])
    <3>1. V[i].end + MergeGap < V[n].start
      <4>1. i < n
        BY <2>8
      <4> QED
        BY <1>4, <2>1, <4>1
    <3>2. ~(x.end <= V[i].end)
      <4>1. V[n].start <= x.start /\ V[i].end \in Nat /\ V[n].start \in Nat
        BY <1>3, <1>6, <2>1
      <4> QED
        BY <1>5, <3>1, <4>1
    <3>3. ~Within(x, V[i]) /\ Accounts(S, V[i])
      BY <1>3, <3>2 DEF Within
    <3> QED
      BY <3>3, AccountsOutside
  <2>9. ASSUME NEW i \in 1..n PROVE W[i].msg = m /\ W[i].start <= W[i].end /\ Accounts(S \cup {x}, W[i])
    <3>1. CASE i = n
      <4>1. V[n].start \in Nat /\ V[n].end \in Nat /\ V[n].start <= V[n].end
        BY <1>3, <2>1
      <4>2. v.start <= v.end
        BY <1>5, <2>3, <4>1
      <4> QED
        BY <2>3, <2>5, <2>7, <3>1, <4>2
    <3>2. CASE i # n
      BY <1>3, <2>5, <2>8, <3>2
    <3> QED
      BY <3>1, <3>2
  <2>10. ASSUME NEW s \in S \cup {x} PROVE \E i \in 1..n : Within(s, W[i])
    <3>1. CASE s = x
      BY <2>1, <2>5, <2>7, <3>1
    <3>2. CASE s \in S
      <4>1. PICK i \in 1..n : Within(s, V[i])
        BY <1>4, <3>2
      <4>2. CASE i = n
        BY <2>1, <2>5, <2>7, <3>2, <4>1, <4>2
      <4>3. CASE i # n
        BY <2>5, <4>1, <4>3
      <4> QED
        BY <4>2, <4>3
    <3> QED
      BY <3>1, <3>2
  <2>11. ASSUME NEW i \in 1..n, NEW j \in 1..n, i < j PROVE W[i].end + MergeGap < W[j].start
    <3>1. i # n /\ V[i].end + MergeGap < V[j].start
      BY <1>4, <2>11
    <3>2. W[i] = V[i]
      BY <2>5, <3>1
    <3>3. W[j].start = V[j].start
      BY <2>3, <2>5
    <3> QED
      BY <3>1, <3>2, <3>3
  <2> QED
    BY <1>1, <2>5, <2>9, <2>10, <2>11 DEF Tells
<1>8. CASE ~(V # << >> /\ x.start <= Last(V).end + MergeGap)
  <2>1. \A i \in 1..n : V[i].end + MergeGap < x.start
    <3> SUFFICES ASSUME NEW i \in 1..n PROVE V[i].end + MergeGap < x.start
      OBVIOUS
    <3>1. n >= 1 /\ n \in 1..n /\ Last(V) = V[n] /\ V # << >>
      BY <1>2, <1>3 DEF Last
    <3>2. V[n].end + MergeGap < x.start
      BY <1>3, <1>5, <1>8, <3>1
    <3>3. CASE i = n
      BY <3>2, <3>3
    <3>4. CASE i # n
      <4>1. i < n
        BY <3>4
      <4>2. V[i].end + MergeGap < V[n].start
        BY <1>4, <3>1, <4>1
      <4>3. V[i].end \in Nat /\ V[n].start \in Nat /\ V[n].start <= x.start
        BY <1>3, <1>6, <3>1
      <4> QED
        BY <1>5, <4>2, <4>3
    <3> QED
      BY <3>3, <3>4
  <2>2. PICK v : v = NewWindow(x)
    OBVIOUS
  <2>3. v \in Window /\ v.msg = m /\ v.start = x.start /\ v.end = x.end
    BY <1>5, <2>2, NewWindowFacts
  <2>4. W = Append(V, v)
    BY <1>1, <1>8, <2>2 DEF MergeInto
  <2>5. W \in Seq(Window) /\ Len(W) = n + 1 /\ W[n + 1] = v /\ \A i \in 1..n : W[i] = V[i]
    BY <1>2, <1>3, <2>3, <2>4
  <2>6. ASSUME NEW s \in S PROVE ~Within(s, v)
    <3>1. PICK i \in 1..n : Within(s, V[i])
      BY <1>4
    <3>2. s.end <= V[i].end /\ V[i].end \in Nat /\ V[i].end + MergeGap < x.start
      BY <1>3, <2>1, <3>1 DEF Within
    <3>3. ~(v.start <= s.start)
      BY <1>5, <2>3, <3>2
    <3> QED
      BY <3>3 DEF Within
  <2>7. Accounts(S \cup {x}, v) /\ Within(x, v)
    BY <2>2, <2>6, AccountsNew
  <2>8. ASSUME NEW i \in 1..n PROVE Accounts(S \cup {x}, V[i])
    <3>1. ~(x.end <= V[i].end)
      BY <1>3, <1>5, <2>1
    <3>2. ~Within(x, V[i]) /\ Accounts(S, V[i])
      BY <1>3, <3>1 DEF Within
    <3> QED
      BY <3>2, AccountsOutside
  <2>9. \A i \in 1..(n + 1) : i = n + 1 \/ i \in 1..n
    OBVIOUS
  <2>10. ASSUME NEW i \in 1..(n + 1)
         PROVE  W[i].msg = m /\ W[i].start <= W[i].end /\ Accounts(S \cup {x}, W[i])
    <3>1. CASE i = n + 1
      BY <1>5, <2>3, <2>5, <2>7, <3>1
    <3>2. CASE i \in 1..n
      BY <1>3, <2>5, <2>8, <3>2
    <3> QED
      BY <2>9, <3>1, <3>2
  <2>11. ASSUME NEW s \in S \cup {x} PROVE \E i \in 1..(n + 1) : Within(s, W[i])
    <3>1. CASE s = x
      <4>1. n + 1 \in 1..(n + 1)
        OBVIOUS
      <4> QED
        BY <2>5, <2>7, <3>1, <4>1
    <3>2. CASE s \in S
      <4>1. PICK i \in 1..n : Within(s, V[i])
        BY <1>4, <3>2
      <4>2. i \in 1..(n + 1) /\ W[i] = V[i]
        BY <2>5
      <4> QED
        BY <4>1, <4>2
    <3> QED
      BY <3>1, <3>2
  <2>12. ASSUME NEW i \in 1..(n + 1), NEW j \in 1..(n + 1), i < j
         PROVE  W[i].end + MergeGap < W[j].start
    <3>1. i \in 1..n
      BY <2>12
    <3>2. CASE j = n + 1
      BY <2>1, <2>3, <2>5, <3>1, <3>2
    <3>3. CASE j \in 1..n
      BY <1>4, <2>5, <2>12, <3>1, <3>3
    <3> QED
      BY <2>9, <3>2, <3>3
  <2> QED
    BY <1>1, <2>5, <2>10, <2>11, <2>12 DEF Tells
<1> QED
  BY <1>7, <1>8

\* Merging any proper set of failures of one message tells them.
LEMMA MergedTells ==
  ASSUME NEW m, NEW S, Proper(S), \A s \in S : s.msg = m
  PROVE  Tells(S, m, Merged(S))
<1>1. PICK good : good = {T \in SUBSET S : Tells(T, m, Merged(T))}
  OBVIOUS
<1>2. ASSUME NEW T \in SUBSET S, \A U \in SUBSET T : U # T => U \in good
      PROVE  T \in good
  <2>1. Proper(T)
    BY ProperSubset
  <2>2. CASE T = {}
    <3>1. Merged(T) = << >>
      BY <2>1, <2>2, MergedEquations
    <3>2. Tells({}, m, << >>)
      BY DEF Tells
    <3> QED
      BY <1>1, <2>2, <3>1, <3>2
  <2>3. CASE T # {}
    <3>1. PICK x : x = Newest(T)
      OBVIOUS
    <3>2. x \in T /\ \A t \in T : t.start <= x.start
      BY <2>1, <2>3, <3>1, NewestExists
    <3>3. PICK U : U = T \ {x}
      OBVIOUS
    <3>4. U \in SUBSET T /\ U # T /\ x \notin U /\ U \cup {x} = T
      BY <3>2, <3>3
    <3>5. Tells(U, m, Merged(U))
      BY <1>1, <1>2, <3>4
    <3>6. Merged(T) = MergeInto(Merged(U), x)
      BY <2>1, <2>3, <3>1, <3>3, MergedEquations
    <3>7. \A s \in U \cup {x} : s.msg = m /\ s.start <= x.start
      BY <3>2, <3>4
    <3>8. Proper(U \cup {x})
      BY <2>1, <3>4
    <3>9. Tells(U \cup {x}, m, MergeInto(Merged(U), x))
      BY <3>4, <3>5, <3>7, <3>8, MergeStep
    <3> QED
      BY <1>1, <3>4, <3>6, <3>9
  <2> QED
    BY <2>2, <2>3
<1>3. S \in good
  <2>1. IsFiniteSet(S)
    BY DEF Proper
  <2>2. \A T \in SUBSET S : T \in good
    BY <1>2, <2>1, SameFinite, Sums!SubsetInduction
  <2> QED
    BY <2>2
<1> QED
  BY <1>1, <1>3

\* The failures of message m.
OfMessage(S, m) == {s \in S : s.msg = m}

\* What IncidentsPartition says of the failures S and their incidents.
Partitioned(S) ==
  LET wins == MergeSegments(S) Told(w) == Inside(S, w) IN
  /\ \A s \in S : Cardinality({w \in wins : Within(s, w)}) = 1
  /\ \A s, t \in S : Near(s, t) => \E w \in wins : {s, t} \subseteq Told(w)
  /\ \A v, w \in wins : v # w => ~Near(v, w)
  /\ \A w \in wins :
       /\ w.locations = {s.loc : s \in Told(w)}
       /\ w.ongoing = (\E s \in Told(w) : s.ongoing)
       /\ w.count = MapThenSumSet(LAMBDA s : s.count, Told(w))
       /\ \E s \in Told(w) : s.start = w.start
       /\ \E s \in Told(w) : s.end = w.end

\* Two windows of one message apart from each other: neither tells the other's
\* failures, and they are not near.
LEMMA WindowsApart ==
  ASSUME NEW S, Proper(S), NEW m, NEW W, Tells(S, m, W),
         NEW i \in 1..Len(W), NEW j \in 1..Len(W), i # j
  PROVE  /\ ~Near(W[i], W[j])
         /\ \A s, t \in S : Within(s, W[i]) /\ Within(t, W[j]) => s # t /\ ~Near(s, t)
<1>1. /\ \A k \in 1..Len(W) : W[k].start \in Nat /\ W[k].end \in Nat /\ W[k].start <= W[k].end
      /\ Len(W) \in Nat /\ MergeGap \in Nat
  <2>1. \A k \in 1..Len(W) : W[k] \in Window /\ W[k].start <= W[k].end
    BY DEF Tells
  <2>2. Len(W) \in Nat
    BY DEF Tells
  <2> QED
    BY <2>1, <2>2, WindowFacts, IncidentsAssumption
<1>2. \A s \in S : s.start \in Nat /\ s.end \in Nat /\ s.start <= s.end
  BY FailureFacts DEF Proper
<1>3. ASSUME NEW k \in 1..Len(W), NEW n \in 1..Len(W), k < n
      PROVE  /\ ~(W[n].start <= W[k].end + MergeGap)
             /\ \A s, t \in S : Within(s, W[k]) /\ Within(t, W[n]) =>
                  s # t /\ ~(t.start <= s.end + MergeGap)
  <2>1. W[k].end + MergeGap < W[n].start
    BY <1>3 DEF Tells
  <2>2. ASSUME NEW s \in S, NEW t \in S, Within(s, W[k]), Within(t, W[n])
        PROVE  s # t /\ ~(t.start <= s.end + MergeGap)
    <3>1. s.end <= W[k].end /\ W[n].start <= t.start
      BY <2>2 DEF Within
    <3>2. ~(t.start <= s.end + MergeGap)
      <4>1. PICK a \in Nat, b \in Nat, u \in Nat, v \in Nat, g \in Nat :
              a = s.end /\ b = t.start /\ u = W[k].end /\ v = W[n].start /\ g = MergeGap
        BY <1>1, <1>2
      <4>2. a <= u /\ v <= b /\ u + g < v
        BY <2>1, <3>1, <4>1
      <4>3. ~(b <= a + g)
        BY <4>2
      <4> QED
        BY <4>1, <4>3
    <3>3. s.start <= s.end + MergeGap
      BY <1>1, <1>2
    <3> QED
      BY <3>2, <3>3
  <2> QED
    BY <1>1, <2>1, <2>2
<1>4. i < j \/ j < i
  BY <1>1
<1>5. CASE i < j
  <2>1. ~Near(W[i], W[j])
    BY <1>3, <1>5 DEF Near
  <2>2. \A s, t \in S : Within(s, W[i]) /\ Within(t, W[j]) => s # t /\ ~Near(s, t)
    BY <1>3, <1>5 DEF Near
  <2> QED
    BY <2>1, <2>2
<1>6. CASE j < i
  <2>1. ~Near(W[i], W[j])
    BY <1>3, <1>6 DEF Near
  <2>2. \A s, t \in S : Within(s, W[i]) /\ Within(t, W[j]) => s # t /\ ~Near(s, t)
    BY <1>3, <1>6 DEF Near
  <2> QED
    BY <2>1, <2>2
<1> QED
  BY <1>4, <1>5, <1>6

\* mergeSegments partitions any finite set of failures into incidents.
THEOREM MergePartitions ==
  ASSUME NEW S, Proper(S)
  PROVE  Partitioned(S)
<1>1. PICK wins : wins = MergeSegments(S)
  OBVIOUS
<1> DEFINE W(m) == Merged(OfMessage(S, m))
<1>2. \A s \in S : s.msg \in Messages
  BY FailureFacts DEF Proper
<1>3. ASSUME NEW m
      PROVE  Proper(OfMessage(S, m)) /\ Tells(OfMessage(S, m), m, W(m))
  <2>1. Proper(OfMessage(S, m)) /\ \A s \in OfMessage(S, m) : s.msg = m
    BY ProperSubset DEF OfMessage
  <2> QED
    BY <2>1, MergedTells
<1>4. \A w : w \in wins <=> \E m \in Messages : \E i \in 1..Len(W(m)) : w = W(m)[i]
  <2>1. \A m : W(m) \in Seq(Window)
    BY <1>3 DEF Tells
  <2>2. \A m : DOMAIN W(m) = 1..Len(W(m))
    BY <2>1
  <2>3. \A m : W(m) = Merged({s \in S : s.msg = m})
    BY DEF OfMessage
  <2> HIDE DEF W
  <2>4. wins = UNION {ToSet(W(m)) : m \in Messages}
    BY <1>1, <2>3 DEF MergeSegments
  <2> QED
    BY <2>2, <2>4 DEF ToSet
<1> HIDE DEF W
<1>5. ASSUME NEW m \in Messages, NEW i \in 1..Len(W(m))
      PROVE  W(m)[i].msg = m /\ Accounts(OfMessage(S, m), W(m)[i])
             /\ Inside(S, W(m)[i]) = Inside(OfMessage(S, m), W(m)[i])
  <2>1. W(m)[i].msg = m /\ Accounts(OfMessage(S, m), W(m)[i])
    BY <1>3 DEF Tells
  <2> QED
    BY <2>1 DEF Inside, Within, OfMessage
<1>6. ASSUME NEW s \in S
      PROVE  \E i \in 1..Len(W(s.msg)) : Within(s, W(s.msg)[i]) /\ s \in OfMessage(S, s.msg)
  <2>1. s \in OfMessage(S, s.msg)
    BY DEF OfMessage
  <2> QED
    BY <1>3, <2>1 DEF Tells
<1>7. ASSUME NEW s \in S PROVE Cardinality({w \in wins : Within(s, w)}) = 1
  <2>1. PICK m \in Messages : m = s.msg
    BY <1>2
  <2>2. PICK i \in 1..Len(W(m)) : Within(s, W(m)[i]) /\ s \in OfMessage(S, m)
    BY <1>6, <2>1
  <2>3. W(m)[i] \in wins
    BY <1>4
  <2>4. ASSUME NEW w \in wins, Within(s, w) PROVE w = W(m)[i]
    <3>1. PICK k \in Messages : \E j \in 1..Len(W(k)) : w = W(k)[j]
      BY <1>4
    <3>2. PICK j \in 1..Len(W(k)) : w = W(k)[j]
      BY <3>1
    <3>3. k = m
      BY <1>5, <2>1, <2>4, <3>2 DEF Within
    <3>4. j = i
      BY <1>3, <2>2, <2>4, <3>2, <3>3, WindowsApart
    <3> QED
      BY <3>2, <3>3, <3>4
  <2>5. {w \in wins : Within(s, w)} = {W(m)[i]}
    BY <2>2, <2>3, <2>4
  <2> QED
    BY <2>5, FS_Singleton
<1>8. ASSUME NEW s \in S, NEW t \in S, Near(s, t)
      PROVE  \E w \in wins : {s, t} \subseteq Inside(S, w)
  <2>1. PICK m \in Messages : m = s.msg /\ m = t.msg
    BY <1>2, <1>8 DEF Near
  <2>2. PICK i \in 1..Len(W(m)) : Within(s, W(m)[i]) /\ s \in OfMessage(S, m)
    BY <1>6, <2>1
  <2>3. PICK j \in 1..Len(W(m)) : Within(t, W(m)[j]) /\ t \in OfMessage(S, m)
    BY <1>6, <2>1
  <2>4. i = j
    BY <1>3, <1>8, <2>2, <2>3, WindowsApart
  <2>5. W(m)[i] \in wins
    BY <1>4
  <2>6. {s, t} \subseteq Inside(S, W(m)[i])
    BY <2>2, <2>3, <2>4 DEF Inside
  <2> QED
    BY <2>5, <2>6
<1>9. ASSUME NEW v \in wins, NEW w \in wins, v # w PROVE ~Near(v, w)
  <2>1. PICK m \in Messages : \E i \in 1..Len(W(m)) : v = W(m)[i]
    BY <1>4
  <2>2. PICK k \in Messages : \E j \in 1..Len(W(k)) : w = W(k)[j]
    BY <1>4
  <2>3. CASE m = k
    <3>1. PICK i \in 1..Len(W(m)) : v = W(m)[i]
      BY <2>1
    <3>2. PICK j \in 1..Len(W(m)) : w = W(m)[j]
      BY <2>2, <2>3
    <3>3. i # j
      BY <1>9, <3>1, <3>2
    <3> QED
      BY <1>3, <3>1, <3>2, <3>3, WindowsApart
  <2>4. CASE m # k
    BY <1>5, <2>1, <2>2, <2>4 DEF Near
  <2> QED
    BY <2>3, <2>4
<1>10. ASSUME NEW w \in wins
       PROVE  /\ Accounts(S, w)
              /\ w.count = MapThenSumSet(LAMBDA s : s.count, Inside(S, w))
  <2>1. PICK m \in Messages : \E i \in 1..Len(W(m)) : w = W(m)[i]
    BY <1>4
  <2>2. Accounts(OfMessage(S, m), w) /\ Inside(S, w) = Inside(OfMessage(S, m), w)
    BY <1>5, <2>1
  <2>3. Accounts(S, w)
    BY <2>2, Zenon DEF Accounts
  <2> QED
    BY <2>3, CountIsSum DEF Accounts
<1> QED
  BY <1>1, <1>7, <1>8, <1>9, <1>10, Zenon DEF Partitioned, Accounts

-----------------------------------------------------------------------------
(* The stretches of a location's first samples, and their failures.        *)

\* Joined and Stretches, of the first n samples of c.
JoinedAt(c, i) == c[i].msg # Ok /\ c[i].msg = c[i + 1].msg /\ c[i + 1].ts - c[i].ts <= MaxAge

StretchesTo(c, n) ==
  {p \in (1..n) \X (1..n) :
     /\ p[1] <= p[2] /\ c[p[1]].msg # Ok
     /\ \A i \in p[1]..(p[2] - 1) : JoinedAt(c, i)
     /\ p[1] = 1 \/ ~JoinedAt(c, p[1] - 1)
     /\ p[2] = n \/ ~JoinedAt(c, p[2])}

\* q lists them, oldest first; one that fails last ends at the last sample.
Lists(c, n, q) ==
  /\ q \in Seq(Nat \X Nat)
  /\ \A p : p \in StretchesTo(c, n) <=> \E i \in 1..Len(q) : p = q[i]
  /\ \A i, j \in 1..Len(q) : i < j => q[i][2] < q[j][1]
  /\ \A i \in 1..Len(q) : c[q[i][1]].msg = c[q[i][2]].msg
  /\ n > 0 /\ c[n].msg # Ok => q # << >> /\ q[Len(q)][2] = n

\* The parts of a stretch.
LEMMA StretchFacts ==
  ASSUME NEW c, NEW n \in Nat, NEW p \in StretchesTo(c, n)
  PROVE  /\ p = <<p[1], p[2]>> /\ p[1] \in 1..n /\ p[2] \in 1..n /\ p[1] <= p[2]
         /\ c[p[1]].msg # Ok /\ \A i \in p[1]..(p[2] - 1) : JoinedAt(c, i)
         /\ p[1] = 1 \/ ~JoinedAt(c, p[1] - 1)
         /\ p[2] = n \/ ~JoinedAt(c, p[2])
BY DEF StretchesTo

\* A pair with these parts is a stretch.
LEMMA IsStretch ==
  ASSUME NEW c, NEW n \in Nat, NEW a \in 1..n, NEW b \in 1..n, a <= b, c[a].msg # Ok,
         \A i \in a..(b - 1) : JoinedAt(c, i), a = 1 \/ ~JoinedAt(c, a - 1),
         b = n \/ ~JoinedAt(c, b)
  PROVE  <<a, b>> \in StretchesTo(c, n)
BY DEF StretchesTo

\* A stretch that ends before the last sample: the next sample leaves it alone.
LEMMA StretchEnded ==
  ASSUME NEW c, NEW n \in Nat, NEW p, p[2] \in Nat, p[2] <= n, p[2] = n => ~JoinedAt(c, n)
  PROVE  p \in StretchesTo(c, n + 1) <=> p \in StretchesTo(c, n)
<1>1. ASSUME p \in StretchesTo(c, n + 1) PROVE p \in StretchesTo(c, n)
  <2>1. /\ p = <<p[1], p[2]>> /\ p[1] \in 1..(n + 1) /\ p[2] \in 1..(n + 1) /\ p[1] <= p[2]
        /\ c[p[1]].msg # Ok /\ \A i \in p[1]..(p[2] - 1) : JoinedAt(c, i)
        /\ p[1] = 1 \/ ~JoinedAt(c, p[1] - 1)
        /\ p[2] = n + 1 \/ ~JoinedAt(c, p[2])
    BY <1>1, StretchFacts
  <2>2. PICK a \in 1..n, b \in 1..n : p = <<a, b>> /\ a = p[1] /\ b = p[2]
    BY <2>1
  <2>3. b # n + 1
    OBVIOUS
  <2>4. <<a, b>> \in StretchesTo(c, n)
    BY <2>1, <2>2, <2>3, IsStretch
  <2> QED
    BY <2>2, <2>4
<1>2. ASSUME p \in StretchesTo(c, n) PROVE p \in StretchesTo(c, n + 1)
  <2>1. /\ p = <<p[1], p[2]>> /\ p[1] \in 1..n /\ p[2] \in 1..n /\ p[1] <= p[2]
        /\ c[p[1]].msg # Ok /\ \A i \in p[1]..(p[2] - 1) : JoinedAt(c, i)
        /\ p[1] = 1 \/ ~JoinedAt(c, p[1] - 1)
        /\ p[2] = n \/ ~JoinedAt(c, p[2])
    BY <1>2, StretchFacts
  <2>2. PICK a \in 1..(n + 1), b \in 1..(n + 1) : p = <<a, b>> /\ a = p[1] /\ b = p[2]
    BY <2>1
  <2>3. ~JoinedAt(c, b)
    BY <2>1, <2>2
  <2>4. <<a, b>> \in StretchesTo(c, n + 1)
    BY <2>1, <2>2, <2>3, IsStretch
  <2> QED
    BY <2>2, <2>4
<1> QED
  BY <1>1, <1>2

\* The next sample is a success, or another failure: the stretches so far end.
LEMMA StretchesEnd ==
  ASSUME NEW c, NEW n \in Nat, n > 0 => ~JoinedAt(c, n), NEW p
  PROVE  p \in StretchesTo(c, n + 1) <=>
           p \in StretchesTo(c, n) \/ (p = <<n + 1, n + 1>> /\ c[n + 1].msg # Ok)
<1>1. ASSUME p \in StretchesTo(c, n + 1)
      PROVE  p \in StretchesTo(c, n) \/ (p = <<n + 1, n + 1>> /\ c[n + 1].msg # Ok)
  <2>1. /\ p = <<p[1], p[2]>> /\ p[1] \in 1..(n + 1) /\ p[2] \in 1..(n + 1) /\ p[1] <= p[2]
        /\ c[p[1]].msg # Ok /\ \A i \in p[1]..(p[2] - 1) : JoinedAt(c, i)
    BY <1>1, StretchFacts
  <2>2. CASE p[2] = n + 1
    <3>1. p[1] = n + 1
      <4> SUFFICES ASSUME p[1] # n + 1 PROVE FALSE
        OBVIOUS
      <4>1. n \in p[1]..(p[2] - 1) /\ n > 0
        BY <2>1, <2>2
      <4> QED
        BY <2>1, <4>1
    <3> QED
      BY <2>1, <2>2, <3>1
  <2>3. CASE p[2] # n + 1
    <3>1. p[2] \in Nat /\ p[2] <= n /\ (p[2] = n => ~JoinedAt(c, n))
      BY <2>1, <2>3
    <3> QED
      BY <1>1, <3>1, StretchEnded
  <2> QED
    BY <2>2, <2>3
<1>2. ASSUME p \in StretchesTo(c, n) PROVE p \in StretchesTo(c, n + 1)
  <2>1. p[2] \in 1..n
    BY <1>2, StretchFacts
  <2>2. p[2] \in Nat /\ p[2] <= n /\ (p[2] = n => ~JoinedAt(c, n))
    BY <2>1
  <2> QED
    BY <1>2, <2>2, StretchEnded
<1>3. ASSUME p = <<n + 1, n + 1>>, c[n + 1].msg # Ok PROVE p \in StretchesTo(c, n + 1)
  <2>1. n + 1 \in 1..(n + 1) /\ n + 1 <= n + 1 /\ (n + 1) - 1 = n
        /\ (n + 1 = 1 \/ ~JoinedAt(c, (n + 1) - 1))
        /\ \A i \in (n + 1)..((n + 1) - 1) : JoinedAt(c, i)
    OBVIOUS
  <2>2. <<n + 1, n + 1>> \in StretchesTo(c, n + 1)
    BY <1>3, <2>1, IsStretch
  <2> QED
    BY <1>3, <2>2
<1> QED
  BY <1>1, <1>2, <1>3

\* The next sample belongs to the failure of the last one: its stretch grows.
LEMMA StretchGrows ==
  ASSUME NEW c, NEW n \in Nat, n > 0, JoinedAt(c, n), NEW p
  PROVE  p \in StretchesTo(c, n + 1) <=>
           \/ p \in StretchesTo(c, n) /\ p[2] # n
           \/ \E r \in StretchesTo(c, n) : r[2] = n /\ p = <<r[1], n + 1>>
<1>1. ASSUME p \in StretchesTo(c, n + 1)
      PROVE  \/ p \in StretchesTo(c, n) /\ p[2] # n
             \/ \E r \in StretchesTo(c, n) : r[2] = n /\ p = <<r[1], n + 1>>
  <2>1. /\ p = <<p[1], p[2]>> /\ p[1] \in 1..(n + 1) /\ p[2] \in 1..(n + 1) /\ p[1] <= p[2]
        /\ c[p[1]].msg # Ok /\ \A i \in p[1]..(p[2] - 1) : JoinedAt(c, i)
        /\ p[1] = 1 \/ ~JoinedAt(c, p[1] - 1)
        /\ p[2] = n + 1 \/ ~JoinedAt(c, p[2])
    BY <1>1, StretchFacts
  <2>2. CASE p[2] = n + 1
    <3>1. PICK a \in 1..(n + 1) : a = p[1]
      BY <2>1
    <3>2. a # n + 1
      <4> SUFFICES ASSUME a = n + 1 PROVE FALSE
        OBVIOUS
      <4>1. p[1] # 1 /\ p[1] - 1 = n
        BY <3>1
      <4> QED
        BY <2>1, <4>1
    <3>3. a \in 1..n /\ n \in 1..n /\ a <= n
      BY <3>2
    <3>4. \A i \in a..(n - 1) : JoinedAt(c, i)
      BY <2>1, <2>2, <3>1, <3>3
    <3>5. <<a, n>> \in StretchesTo(c, n)
      BY <2>1, <3>1, <3>3, <3>4, IsStretch
    <3>6. p = <<a, n + 1>>
      BY <2>1, <2>2, <3>1
    <3> QED
      BY <3>5, <3>6
  <2>3. CASE p[2] # n + 1
    <3>1. p[2] # n
      BY <2>1, <2>3
    <3>2. p[2] \in Nat /\ p[2] <= n
      BY <2>1, <2>3
    <3> QED
      BY <1>1, <3>1, <3>2, StretchEnded
  <2> QED
    BY <2>2, <2>3
<1>2. ASSUME p \in StretchesTo(c, n), p[2] # n PROVE p \in StretchesTo(c, n + 1)
  <2>1. p[2] \in 1..n
    BY <1>2, StretchFacts
  <2>2. p[2] \in Nat /\ p[2] <= n /\ (p[2] = n => ~JoinedAt(c, n))
    BY <1>2, <2>1
  <2> QED
    BY <1>2, <2>2, StretchEnded
<1>3. ASSUME NEW r \in StretchesTo(c, n), r[2] = n, p = <<r[1], n + 1>>
      PROVE  p \in StretchesTo(c, n + 1)
  <2>1. /\ r[1] \in 1..n /\ c[r[1]].msg # Ok /\ \A i \in r[1]..(n - 1) : JoinedAt(c, i)
        /\ r[1] = 1 \/ ~JoinedAt(c, r[1] - 1)
    BY <1>3, StretchFacts
  <2>2. PICK a \in 1..(n + 1) : a = r[1] /\ a <= n
    BY <2>1
  <2>3. \A i \in a..((n + 1) - 1) : JoinedAt(c, i)
    <3>1. \A i \in a..((n + 1) - 1) : i = n \/ i \in a..(n - 1)
      OBVIOUS
    <3> QED
      BY <2>1, <2>2, <3>1
  <2>4. n + 1 \in 1..(n + 1) /\ a <= n + 1
    BY <2>2
  <2>5. <<a, n + 1>> \in StretchesTo(c, n + 1)
    BY <2>1, <2>2, <2>3, <2>4, IsStretch
  <2> QED
    BY <1>3, <2>2, <2>5
<1> QED
  BY <1>1, <1>2, <1>3

\* The parts of a list of stretches.
LEMMA ListFacts ==
  ASSUME NEW c, NEW n \in Nat, NEW q, Lists(c, n, q)
  PROVE  \E k \in Nat :
           /\ k = Len(q) /\ q \in Seq(Nat \X Nat)
           /\ \A i \in 1..k : /\ q[i][1] \in 1..n /\ q[i][2] \in 1..n /\ q[i][1] <= q[i][2]
                              /\ c[q[i][1]].msg # Ok /\ c[q[i][1]].msg = c[q[i][2]].msg
                              /\ q[i] \in StretchesTo(c, n)
           /\ \A i, j \in 1..k : i < j => q[i][2] < q[j][1]
<1>1. PICK k \in Nat : k = Len(q)
  BY DEF Lists
<1>2. q \in Seq(Nat \X Nat) /\ \A i \in 1..k : q[i] \in StretchesTo(c, n)
  BY <1>1 DEF Lists
<1>3. \A i \in 1..k : q[i][1] \in 1..n /\ q[i][2] \in 1..n /\ q[i][1] <= q[i][2] /\ c[q[i][1]].msg # Ok
  BY <1>2, StretchFacts
<1>4. /\ \A i \in 1..k : c[q[i][1]].msg = c[q[i][2]].msg
      /\ \A i, j \in 1..k : i < j => q[i][2] < q[j][1]
  BY <1>1 DEF Lists
<1> QED
  BY <1>1, <1>2, <1>3, <1>4

\* Only the last stretch can end at the last sample.
LEMMA LastStretch ==
  ASSUME NEW c, NEW n \in Nat, NEW q, Lists(c, n, q)
  PROVE  \A i \in 1..Len(q) : q[i][2] = n <=> (i = Len(q) /\ n > 0 /\ c[n].msg # Ok)
<1>1. PICK k \in Nat :
        /\ k = Len(q) /\ q \in Seq(Nat \X Nat)
        /\ \A i \in 1..k : /\ q[i][1] \in 1..n /\ q[i][2] \in 1..n /\ q[i][1] <= q[i][2]
                           /\ c[q[i][1]].msg # Ok /\ c[q[i][1]].msg = c[q[i][2]].msg
                           /\ q[i] \in StretchesTo(c, n)
        /\ \A i, j \in 1..k : i < j => q[i][2] < q[j][1]
  BY ListFacts, Zenon
<1>2. ASSUME NEW i \in 1..k, q[i][2] = n PROVE i = k /\ n > 0 /\ c[n].msg # Ok
  <2>1. q[i][1] \in 1..n /\ c[n].msg # Ok
    BY <1>1, <1>2
  <2>2. CASE i < k
    <3>1. k \in 1..k /\ q[i][2] < q[k][1] /\ q[k][1] \in 1..n
      BY <1>1, <2>2
    <3> QED
      BY <1>2, <3>1
  <2> QED
    BY <2>1, <2>2
<1>3. n > 0 /\ c[n].msg # Ok => q[k][2] = n
  BY <1>1 DEF Lists
<1> QED
  BY <1>1, <1>2, <1>3

\* The list after one more sample.
LEMMA ListEnds ==
  ASSUME NEW c, NEW n \in Nat, NEW q, Lists(c, n, q), c[n + 1].msg = Ok
  PROVE  Lists(c, n + 1, q)
<1>1. n > 0 => ~JoinedAt(c, n)
  BY DEF JoinedAt
<1>2. \A p : p \in StretchesTo(c, n + 1) <=> p \in StretchesTo(c, n)
  BY <1>1, StretchesEnd
<1> QED
  BY <1>2 DEF Lists

\* The list after a failure that is not the last sample's.
LEMMA ListNew ==
  ASSUME NEW c, NEW n \in Nat, NEW q, Lists(c, n, q), c[n + 1].msg # Ok, n > 0 => ~JoinedAt(c, n)
  PROVE  Lists(c, n + 1, Append(q, <<n + 1, n + 1>>))
<1>1. PICK k \in Nat :
        /\ k = Len(q) /\ q \in Seq(Nat \X Nat)
        /\ \A i \in 1..k : /\ q[i][1] \in 1..n /\ q[i][2] \in 1..n /\ q[i][1] <= q[i][2]
                           /\ c[q[i][1]].msg # Ok /\ c[q[i][1]].msg = c[q[i][2]].msg
                           /\ q[i] \in StretchesTo(c, n)
        /\ \A i, j \in 1..k : i < j => q[i][2] < q[j][1]
  BY ListFacts, Zenon
<1>2. PICK r : r = Append(q, <<n + 1, n + 1>>)
  OBVIOUS
<1>3. <<n + 1, n + 1>> \in Nat \X Nat
  OBVIOUS
<1>4. r \in Seq(Nat \X Nat) /\ Len(r) = k + 1 /\ r[k + 1] = <<n + 1, n + 1>>
      /\ \A i \in 1..k : r[i] = q[i]
  BY <1>1, <1>2, <1>3
<1>5. \A i \in 1..(k + 1) : i = k + 1 \/ i \in 1..k
  OBVIOUS
<1>6. ASSUME NEW p PROVE p \in StretchesTo(c, n + 1) <=> \E i \in 1..(k + 1) : p = r[i]
  <2>1. p \in StretchesTo(c, n + 1) <=> p \in StretchesTo(c, n) \/ p = <<n + 1, n + 1>>
    BY StretchesEnd
  <2>2. p \in StretchesTo(c, n) <=> \E i \in 1..k : p = q[i]
    BY <1>1 DEF Lists
  <2>3. (\E i \in 1..(k + 1) : p = r[i]) <=> (\E i \in 1..k : p = q[i]) \/ p = <<n + 1, n + 1>>
    <3>1. k + 1 \in 1..(k + 1) /\ \A i \in 1..k : i \in 1..(k + 1)
      OBVIOUS
    <3> QED
      BY <1>4, <1>5, <3>1
  <2> QED
    BY <2>1, <2>2, <2>3
<1>7. ASSUME NEW i \in 1..(k + 1), NEW j \in 1..(k + 1), i < j PROVE r[i][2] < r[j][1]
  <2>1. i \in 1..k
    BY <1>7
  <2>2. q[i][2] \in 1..n
    BY <1>1, <2>1
  <2>3. CASE j = k + 1
    <3>1. r[j][1] = n + 1 /\ r[i][2] = q[i][2]
      BY <1>4, <2>1, <2>3
    <3> QED
      BY <2>2, <3>1
  <2>4. CASE j \in 1..k
    BY <1>1, <1>4, <1>7, <2>1, <2>4
  <2> QED
    BY <1>5, <2>3, <2>4
<1>8. ASSUME NEW i \in 1..(k + 1) PROVE c[r[i][1]].msg = c[r[i][2]].msg
  <2>1. CASE i = k + 1
    BY <1>4, <2>1
  <2>2. CASE i \in 1..k
    BY <1>1, <1>4, <2>2
  <2> QED
    BY <1>5, <2>1, <2>2
<1>9. r # << >> /\ r[Len(r)][2] = n + 1
  <2>1. Len(r) = k + 1 /\ k + 1 # 0 /\ r[k + 1][2] = n + 1
    BY <1>4
  <2> QED
    BY <2>1
<1>10. Lists(c, n + 1, r)
  <2>1. Len(r) = k + 1
    BY <1>4
  <2>2. \A p : p \in StretchesTo(c, n + 1) <=> \E i \in 1..Len(r) : p = r[i]
    BY <1>6, <2>1
  <2>3. \A i, j \in 1..Len(r) : i < j => r[i][2] < r[j][1]
    BY <1>7, <2>1
  <2>4. \A i \in 1..Len(r) : c[r[i][1]].msg = c[r[i][2]].msg
    BY <1>8, <2>1
  <2> QED
    BY <1>4, <1>9, <2>2, <2>3, <2>4, Zenon DEF Lists
<1> QED
  BY <1>2, <1>10

\* The list after a failure that is the last sample's.
LEMMA ListGrows ==
  ASSUME NEW c, NEW n \in Nat, n > 0, NEW q, Lists(c, n, q), JoinedAt(c, n)
  PROVE  q # << >> /\ Lists(c, n + 1, ReplaceLast(q, <<q[Len(q)][1], n + 1>>))
<1>1. PICK k \in Nat :
        /\ k = Len(q) /\ q \in Seq(Nat \X Nat)
        /\ \A i \in 1..k : /\ q[i][1] \in 1..n /\ q[i][2] \in 1..n /\ q[i][1] <= q[i][2]
                           /\ c[q[i][1]].msg # Ok /\ c[q[i][1]].msg = c[q[i][2]].msg
                           /\ q[i] \in StretchesTo(c, n)
        /\ \A i, j \in 1..k : i < j => q[i][2] < q[j][1]
  BY ListFacts, Zenon
<1>2. c[n].msg # Ok /\ c[n + 1].msg = c[n].msg
  BY DEF JoinedAt
<1>3. q # << >> /\ q[k][2] = n
  BY <1>1, <1>2 DEF Lists
<1>4. PICK a \in 1..n : a = q[k][1] /\ k \in 1..k /\ c[a].msg = c[n].msg
  <2>1. k \in 1..k
    <3>1. k # 0
      BY <1>1, <1>3
    <3> QED
      BY <3>1
  <2> QED
    BY <1>1, <1>3, <2>1
<1>5. PICK r : r = ReplaceLast(q, <<a, n + 1>>)
  OBVIOUS
<1>6. <<a, n + 1>> \in Nat \X Nat
  OBVIOUS
<1>7. r \in Seq(Nat \X Nat) /\ Len(r) = k /\ r[k] = <<a, n + 1>>
      /\ \A i \in 1..k : i # k => r[i] = q[i]
  <2>1. /\ ReplaceLast(q, <<a, n + 1>>) \in Seq(Nat \X Nat)
        /\ Len(ReplaceLast(q, <<a, n + 1>>)) = Len(q)
        /\ ReplaceLast(q, <<a, n + 1>>)[Len(q)] = <<a, n + 1>>
        /\ \A i \in 1..Len(q) : i # Len(q) => ReplaceLast(q, <<a, n + 1>>)[i] = q[i]
    <3>1. PICK R, e : R = Nat \X Nat /\ e = <<a, n + 1>>
      OBVIOUS
    <3>2. q \in Seq(R) /\ q # << >> /\ e \in R
      BY <1>1, <1>3, <1>6, <3>1
    <3>3. /\ ReplaceLast(q, e) \in Seq(R) /\ Len(ReplaceLast(q, e)) = Len(q)
          /\ ReplaceLast(q, e)[Len(q)] = e
          /\ \A i \in 1..Len(q) : i # Len(q) => ReplaceLast(q, e)[i] = q[i]
      BY <3>2, LastReplaced
    <3> QED
      BY <3>1, <3>3, Zenon
  <2> QED
    BY <1>1, <1>5, <2>1
<1>8. ASSUME NEW p PROVE p \in StretchesTo(c, n + 1) <=> \E i \in 1..k : p = r[i]
  <2>1. p \in StretchesTo(c, n + 1) <=>
          \/ p \in StretchesTo(c, n) /\ p[2] # n
          \/ \E s \in StretchesTo(c, n) : s[2] = n /\ p = <<s[1], n + 1>>
    BY StretchGrows
  <2>2. \A s : s \in StretchesTo(c, n) <=> \E i \in 1..k : s = q[i]
    BY <1>1 DEF Lists
  <2>3. \A i \in 1..k : q[i][2] = n <=> i = k
    BY <1>1, <1>3, LastStretch
  <2>4. (p \in StretchesTo(c, n) /\ p[2] # n) <=> \E i \in 1..k : i # k /\ p = q[i]
    BY <2>2, <2>3
  <2>5. (\E s \in StretchesTo(c, n) : s[2] = n /\ p = <<s[1], n + 1>>) <=> p = <<a, n + 1>>
    <3>1. ASSUME NEW s \in StretchesTo(c, n), s[2] = n PROVE s = q[k]
      BY <2>2, <2>3, <3>1
    <3>2. q[k] \in StretchesTo(c, n)
      BY <1>4, <2>2
    <3> QED
      BY <1>3, <1>4, <3>1, <3>2
  <2>6. (\E i \in 1..k : p = r[i]) <=> (\E i \in 1..k : i # k /\ p = q[i]) \/ p = <<a, n + 1>>
    BY <1>4, <1>7
  <2> QED
    BY <2>1, <2>4, <2>5, <2>6
<1>9. ASSUME NEW i \in 1..k, NEW j \in 1..k, i < j PROVE r[i][2] < r[j][1]
  <2>1. i # k /\ q[i][2] < q[j][1] /\ r[i] = q[i]
    BY <1>1, <1>7, <1>9
  <2>2. r[j][1] = q[j][1]
    BY <1>4, <1>7
  <2> QED
    BY <2>1, <2>2
<1>10. ASSUME NEW i \in 1..k PROVE c[r[i][1]].msg = c[r[i][2]].msg
  <2>1. CASE i = k
    <3>1. r[i][1] = a /\ r[i][2] = n + 1
      BY <1>7, <2>1
    <3> QED
      BY <1>2, <1>4, <3>1
  <2>2. CASE i # k
    BY <1>1, <1>7, <2>2
  <2> QED
    BY <2>1, <2>2
<1>11. r # << >> /\ r[Len(r)][2] = n + 1
  <2>1. Len(r) = k /\ k # 0 /\ r[k][2] = n + 1
    BY <1>4, <1>7
  <2> QED
    BY <1>7, <2>1
<1>12. Lists(c, n + 1, r)
  <2>1. Len(r) = k
    BY <1>7
  <2>2. \A p : p \in StretchesTo(c, n + 1) <=> \E i \in 1..Len(r) : p = r[i]
    BY <1>8, <2>1
  <2>3. \A i, j \in 1..Len(r) : i < j => r[i][2] < r[j][1]
    BY <1>9, <2>1
  <2>4. \A i \in 1..Len(r) : c[r[i][1]].msg = c[r[i][2]].msg
    BY <1>10, <2>1
  <2> QED
    BY <1>7, <1>11, <2>2, <2>3, <2>4, Zenon DEF Lists
<1> QED
  BY <1>1, <1>3, <1>4, <1>5, <1>12

\* The failure of a stretch, and those of a list.
FailureOf(l, c, p) ==
  [loc |-> l, msg |-> c[p[1]].msg, start |-> c[p[1]].ts, end |-> c[p[2]].ts,
   count |-> p[2] - p[1] + 1, ongoing |-> FALSE]
FailuresOf(l, c, q) == [i \in 1..Len(q) |-> FailureOf(l, c, q[i])]

\* segs are the failures of the first n samples of c, found directly.
Direct(l, c, n, segs) == \E q : Lists(c, n, q) /\ segs = FailuresOf(l, c, q)

\* A stretch's failure is one.
LEMMA FailureType ==
  ASSUME NEW l \in Locations, NEW t, NEW c, Ordered(c, t), NEW a \in 1..Len(c), NEW b \in 1..Len(c),
         a <= b, c[a].msg # Ok
  PROVE  FailureOf(l, c, <<a, b>>) \in Failure
<1>1. Len(c) \in Nat /\ c[a].ts \in Nat /\ c[b].ts \in Nat /\ c[a].msg \in Messages
  BY OrderedFacts
<1>2. b - a + 1 \in Nat
  BY <1>1
<1>3. FailureOf(l, c, <<a, b>>) = [loc |-> l, msg |-> c[a].msg, start |-> c[a].ts, end |-> c[b].ts,
                                  count |-> b - a + 1, ongoing |-> FALSE]
  BY DEF FailureOf
<1>4. PICK m, s, e, k : m = c[a].msg /\ s = c[a].ts /\ e = c[b].ts /\ k = b - a + 1
  OBVIOUS
<1>5. [loc |-> l, msg |-> m, start |-> s, end |-> e, count |-> k, ongoing |-> FALSE] \in Failure
  BY <1>1, <1>2, <1>4 DEF Failure
<1> QED
  BY <1>3, <1>4, <1>5, Zenon

\* A list's failures.
LEMMA FailuresType ==
  ASSUME NEW l \in Locations, NEW t, NEW c, Ordered(c, t), NEW n \in 0..Len(c), NEW q, Lists(c, n, q)
  PROVE  /\ FailuresOf(l, c, q) \in Seq(Failure) /\ Len(FailuresOf(l, c, q)) = Len(q)
         /\ Len(q) \in Nat
         /\ \A i \in 1..Len(q) : FailuresOf(l, c, q)[i] = FailureOf(l, c, q[i])
                                /\ FailureOf(l, c, q[i]) \in Failure
<1>1. Len(c) \in Nat /\ n \in Nat
  BY OrderedFacts
<1>2. PICK k \in Nat :
        /\ k = Len(q) /\ q \in Seq(Nat \X Nat)
        /\ \A i \in 1..k : /\ q[i][1] \in 1..n /\ q[i][2] \in 1..n /\ q[i][1] <= q[i][2]
                           /\ c[q[i][1]].msg # Ok /\ c[q[i][1]].msg = c[q[i][2]].msg
                           /\ q[i] \in StretchesTo(c, n)
        /\ \A i, j \in 1..k : i < j => q[i][2] < q[j][1]
  BY <1>1, ListFacts, Zenon
<1>3. ASSUME NEW i \in 1..k PROVE FailureOf(l, c, q[i]) \in Failure
  <2>1. PICK a \in 1..n, b \in 1..n : a = q[i][1] /\ b = q[i][2]
    BY <1>2
  <2>2. a \in 1..Len(c) /\ b \in 1..Len(c)
    BY <1>1
  <2>3. q[i] = <<a, b>> /\ a <= b /\ c[a].msg # Ok
    <3>1. q[i] \in StretchesTo(c, n)
      BY <1>2
    <3>2. q[i] = <<q[i][1], q[i][2]>> /\ q[i][1] <= q[i][2] /\ c[q[i][1]].msg # Ok
      BY <1>1, <3>1, StretchFacts
    <3> QED
      BY <2>1, <3>2
  <2> QED
    BY <2>2, <2>3, FailureType
<1>4. FailuresOf(l, c, q) = [i \in 1..k |-> FailureOf(l, c, q[i])]
  BY <1>2 DEF FailuresOf
<1> QED
  BY <1>2, <1>3, <1>4

\* The failures found directly are a sequence of failures.
LEMMA DirectType ==
  ASSUME NEW l \in Locations, NEW t, NEW c, Ordered(c, t), NEW n \in 0..Len(c), NEW segs,
         Direct(l, c, n, segs)
  PROVE  segs \in Seq(Failure)
BY FailuresType DEF Direct

\* The failure of the last sample is the last one.
LEMMA DirectLast ==
  ASSUME NEW l \in Locations, NEW t, NEW c, Ordered(c, t), NEW n \in 1..Len(c), NEW segs,
         Direct(l, c, n, segs), c[n].msg # Ok
  PROVE  segs # << >> /\ Last(segs).msg = c[n].msg /\ Last(segs).end = c[n].ts
<1>1. Len(c) \in Nat /\ n \in Nat /\ n > 0 /\ n \in 0..Len(c)
  BY OrderedFacts
<1>2. PICK q : Lists(c, n, q) /\ segs = FailuresOf(l, c, q)
  BY DEF Direct
<1>3. q # << >> /\ q[Len(q)][2] = n /\ q \in Seq(Nat \X Nat)
  BY <1>1, <1>2 DEF Lists
<1>4. PICK k \in Nat : k = Len(q) /\ k \in 1..k /\ Len(segs) = k /\ segs[k] = FailureOf(l, c, q[k])
                       /\ segs \in Seq(Failure)
  <2>1. Len(q) \in Nat /\ Len(q) # 0 /\ Len(segs) = Len(q) /\ segs \in Seq(Failure)
        /\ \A i \in 1..Len(q) : segs[i] = FailureOf(l, c, q[i])
    BY <1>1, <1>2, <1>3, FailuresType
  <2>2. Len(q) \in 1..Len(q)
    BY <2>1
  <2> QED
    BY <2>1, <2>2
<1>5. c[q[k][1]].msg = c[q[k][2]].msg
  BY <1>2, <1>4 DEF Lists
<1>6. segs[k].msg = c[n].msg /\ segs[k].end = c[n].ts
  BY <1>3, <1>4, <1>5 DEF FailureOf
<1>7. segs # << >>
  BY <1>4
<1> QED
  BY <1>4, <1>6, <1>7 DEF Last

\* A success leaves the failures.
LEMMA DirectEnds ==
  ASSUME NEW l, NEW c, NEW n \in Nat, NEW segs, Direct(l, c, n, segs), c[n + 1].msg = Ok
  PROVE  Direct(l, c, n + 1, segs)
BY ListEnds DEF Direct

\* A failure that is not the last sample's is a new one.
LEMMA DirectNew ==
  ASSUME NEW l \in Locations, NEW t, NEW c, Ordered(c, t), NEW n \in 0..(Len(c) - 1), NEW segs,
         Direct(l, c, n, segs), c[n + 1].msg # Ok, n > 0 => ~JoinedAt(c, n)
  PROVE  Direct(l, c, n + 1, Append(segs, FailureOf(l, c, <<n + 1, n + 1>>)))
<1>1. Len(c) \in Nat /\ n \in Nat /\ n \in 0..Len(c) /\ n + 1 \in 0..Len(c)
  BY OrderedFacts
<1>2. PICK q : Lists(c, n, q) /\ segs = FailuresOf(l, c, q)
  BY DEF Direct
<1>3. PICK e, r, f : e = <<n + 1, n + 1>> /\ r = Append(q, e) /\ f = FailureOf(l, c, e)
  OBVIOUS
<1>4. Lists(c, n + 1, r)
  BY <1>1, <1>2, <1>3, ListNew
<1>5. PICK k \in Nat : k = Len(q) /\ q \in Seq(Nat \X Nat)
  BY <1>1, <1>2, ListFacts
<1>6. e \in Nat \X Nat
  BY <1>1, <1>3
<1>7. Len(r) = k + 1 /\ r[k + 1] = e /\ \A i \in 1..k : r[i] = q[i]
  BY <1>3, <1>5, <1>6
<1>8. PICK u : u = FailuresOf(l, c, r)
  OBVIOUS
<1>9. u \in Seq(Failure) /\ Len(u) = k + 1
      /\ \A i \in 1..(k + 1) : u[i] = FailureOf(l, c, r[i]) /\ u[i] \in Failure
  BY <1>1, <1>4, <1>7, <1>8, FailuresType
<1>10. segs \in Seq(Failure) /\ Len(segs) = k /\ \A i \in 1..k : segs[i] = FailureOf(l, c, q[i])
  BY <1>1, <1>2, <1>5, FailuresType
<1>11. f \in Failure
  <2>1. k + 1 \in 1..(k + 1)
    OBVIOUS
  <2> QED
    BY <1>3, <1>7, <1>9, <2>1
<1>12. PICK v : v = Append(segs, f)
  OBVIOUS
<1>13. v \in Seq(Failure) /\ Len(v) = k + 1 /\ v[k + 1] = f /\ \A i \in 1..k : v[i] = segs[i]
  BY <1>10, <1>11, <1>12
<1>14. ASSUME NEW i \in 1..(k + 1) PROVE v[i] = u[i]
  <2>1. CASE i = k + 1
    BY <1>3, <1>7, <1>9, <1>13, <2>1
  <2>2. CASE i # k + 1
    <3>1. i \in 1..k
      BY <2>2
    <3> QED
      BY <1>7, <1>9, <1>10, <1>13, <3>1
  <2> QED
    BY <2>1, <2>2
<1>15. v = u
  BY <1>9, <1>13, <1>14, SeqEqual
<1> QED
  BY <1>3, <1>4, <1>8, <1>12, <1>15 DEF Direct

\* Extending a failure by one sample.
LEMMA ExtendedFailure ==
  ASSUME NEW l, NEW c, NEW a \in Int, NEW n \in Int
  PROVE  Extended(FailureOf(l, c, <<a, n>>), c[n + 1].ts, 1) = FailureOf(l, c, <<a, n + 1>>)
<1>1. PICK m, b, e, d : m = c[a].msg /\ b = c[a].ts /\ e = c[n].ts /\ d = c[n + 1].ts
  OBVIOUS
<1>2. PICK j \in Int, k \in Int : j = n - a + 1 /\ k = (n + 1) - a + 1
  OBVIOUS
<1>3. PICK r, u :
        /\ r = [loc |-> l, msg |-> m, start |-> b, end |-> e, count |-> j, ongoing |-> FALSE]
        /\ u = [loc |-> l, msg |-> m, start |-> b, end |-> d, count |-> k, ongoing |-> FALSE]
  OBVIOUS
<1>4. r = FailureOf(l, c, <<a, n>>) /\ u = FailureOf(l, c, <<a, n + 1>>)
  BY <1>1, <1>2, <1>3 DEF FailureOf
<1>5. r.count + 1 = k
  BY <1>2, <1>3
<1>6. Extended(r, d, 1) = [r EXCEPT !.end = d, !.count = k]
  BY <1>5, Zenon DEF Extended
<1>7. [r EXCEPT !.end = d, !.count = k] = u
  <2>1. PICK ls, ms, bs, es : ls = {l} /\ ms = {m} /\ bs = {b} /\ es = {e, d}
    OBVIOUS
  <2>2. r \in [loc: ls, msg: ms, start: bs, end: es, count: Int, ongoing: {FALSE}] /\ d \in es
    BY <1>3, <2>1
  <2>3. PICK v : v = [r EXCEPT !.end = d, !.count = k]
    OBVIOUS
  <2>4. /\ v \in [loc: ls, msg: ms, start: bs, end: es, count: Int, ongoing: {FALSE}]
        /\ v.loc = r.loc /\ v.msg = r.msg /\ v.start = r.start /\ v.end = d /\ v.count = k
        /\ v.ongoing = r.ongoing
    BY <2>2, <2>3
  <2>5. r.loc = l /\ r.msg = m /\ r.start = b /\ r.ongoing = FALSE
    BY <1>3
  <2>6. v = [loc |-> v.loc, msg |-> v.msg, start |-> v.start, end |-> v.end, count |-> v.count,
             ongoing |-> v.ongoing]
    BY <2>4
  <2> QED
    BY <1>3, <2>3, <2>4, <2>5, <2>6
<1> QED
  BY <1>1, <1>4, <1>6, <1>7, Zenon

\* A failure that is the last sample's extends the last one.
LEMMA DirectGrows ==
  ASSUME NEW l \in Locations, NEW t, NEW c, Ordered(c, t), NEW n \in 1..(Len(c) - 1), NEW segs,
         Direct(l, c, n, segs), JoinedAt(c, n)
  PROVE  /\ segs # << >>
         /\ Direct(l, c, n + 1, ReplaceLast(segs, Extended(Last(segs), c[n + 1].ts, 1)))
<1>1. Len(c) \in Nat /\ n \in Nat /\ n > 0 /\ n \in 0..Len(c) /\ n + 1 \in 0..Len(c)
  BY OrderedFacts
<1>2. PICK q : Lists(c, n, q) /\ segs = FailuresOf(l, c, q)
  BY DEF Direct
<1>3. PICK k \in Nat :
        /\ k = Len(q) /\ q \in Seq(Nat \X Nat)
        /\ \A i \in 1..k : /\ q[i][1] \in 1..n /\ q[i][2] \in 1..n /\ q[i][1] <= q[i][2]
                           /\ c[q[i][1]].msg # Ok /\ c[q[i][1]].msg = c[q[i][2]].msg
                           /\ q[i] \in StretchesTo(c, n)
        /\ \A i, j \in 1..k : i < j => q[i][2] < q[j][1]
  BY <1>1, <1>2, ListFacts, Zenon
<1>4. q # << >> /\ q[k][2] = n
  BY <1>1, <1>2, <1>3 DEF Lists, JoinedAt
<1>5. k \in 1..k
  <2>1. k # 0
    BY <1>3, <1>4
  <2> QED
    BY <2>1
<1>6. PICK a \in 1..n : a = q[k][1]
  BY <1>3, <1>5
<1>7. PICK e, r : e = <<a, n + 1>> /\ r = ReplaceLast(q, e)
  OBVIOUS
<1>8. Lists(c, n + 1, r)
  BY <1>1, <1>2, <1>3, <1>6, <1>7, ListGrows
<1>9. Len(r) = k /\ r[k] = e /\ \A i \in 1..k : i # k => r[i] = q[i]
  <2>1. PICK R : R = Nat \X Nat
    OBVIOUS
  <2>2. q \in Seq(R) /\ e \in R
    BY <1>1, <1>3, <1>6, <1>7, <2>1
  <2>3. /\ Len(ReplaceLast(q, e)) = Len(q) /\ ReplaceLast(q, e)[Len(q)] = e
        /\ \A i \in 1..Len(q) : i # Len(q) => ReplaceLast(q, e)[i] = q[i]
    BY <1>4, <2>2, LastReplaced
  <2> QED
    BY <1>3, <1>6, <1>7, <2>3, Zenon
<1>10. PICK u, g : u = FailuresOf(l, c, r) /\ g = FailureOf(l, c, e)
  OBVIOUS
<1>11. u \in Seq(Failure) /\ Len(u) = k /\ g \in Failure
       /\ \A i \in 1..k : u[i] = FailureOf(l, c, r[i])
  <2>1. /\ u \in Seq(Failure) /\ Len(u) = k
        /\ \A i \in 1..k : u[i] = FailureOf(l, c, r[i]) /\ FailureOf(l, c, r[i]) \in Failure
    BY <1>1, <1>8, <1>9, <1>10, FailuresType
  <2> QED
    BY <1>5, <1>9, <1>10, <2>1
<1>12. segs \in Seq(Failure) /\ Len(segs) = k /\ \A i \in 1..k : segs[i] = FailureOf(l, c, q[i])
  BY <1>1, <1>2, <1>3, FailuresType
<1>13. segs # << >>
  BY <1>5, <1>12
<1>14. Last(segs) = FailureOf(l, c, <<a, n>>)
  <2>1. q[k] = <<a, n>>
    BY <1>3, <1>4, <1>5, <1>6, <1>7
  <2> QED
    BY <1>5, <1>12, <2>1 DEF Last
<1>15. Extended(Last(segs), c[n + 1].ts, 1) = g
  <2>1. a \in Int /\ n \in Int
    BY <1>1
  <2>2. Extended(FailureOf(l, c, <<a, n>>), c[n + 1].ts, 1) = FailureOf(l, c, <<a, n + 1>>)
    BY <2>1, ExtendedFailure
  <2> QED
    BY <1>7, <1>10, <1>14, <2>2, Zenon
<1>16. PICK v : v = ReplaceLast(segs, g)
  OBVIOUS
<1>17. v \in Seq(Failure) /\ Len(v) = k /\ v[k] = g /\ \A i \in 1..k : i # k => v[i] = segs[i]
  <2>1. /\ ReplaceLast(segs, g) \in Seq(Failure) /\ Len(ReplaceLast(segs, g)) = Len(segs)
        /\ ReplaceLast(segs, g)[Len(segs)] = g
        /\ \A i \in 1..Len(segs) : i # Len(segs) => ReplaceLast(segs, g)[i] = segs[i]
    <3>1. segs \in Seq(Failure) /\ segs # << >> /\ g \in Failure
      BY <1>11, <1>12, <1>13
    <3> QED
      BY <3>1, LastReplaced
  <2> QED
    BY <1>12, <1>16, <2>1, Zenon
<1>18. ASSUME NEW i \in 1..k PROVE v[i] = u[i]
  <2>1. CASE i = k
    BY <1>9, <1>10, <1>11, <1>17, <2>1
  <2>2. CASE i # k
    BY <1>9, <1>11, <1>12, <1>17, <2>2
  <2> QED
    BY <2>1, <2>2
<1>19. v = u
  BY <1>11, <1>17, <1>18, SeqEqual
<1> QED
  BY <1>8, <1>10, <1>13, <1>15, <1>16, <1>19 DEF Direct

-----------------------------------------------------------------------------
(* The folds of the roll-up: a scan of samples, and stitching of runs.     *)

\* The prefixes of a sequence's indices have a last one.
LEMMA PickLast ==
  ASSUME NEW n \in Nat
  PROVE  /\ Max(1..(n + 1)) = n + 1 /\ (1..(n + 1)) \ {n + 1} = 1..n /\ 1..(n + 1) # {} /\ 1..0 = {}
         /\ \A S \in SUBSET (1..n) : S # {} => Max(S) \in S
         /\ IsFiniteSet(1..n)
<1>1. PICK good : good = {k \in 0..n : \A S \in SUBSET (1..k) : S # {} =>
                                          \E m \in S : \A j \in S : m >= j}
  OBVIOUS
<1>2. 0 \in good
  <2>1. 1..0 = {} /\ 0 \in 0..n
    OBVIOUS
  <2>2. \A S \in SUBSET (1..0) : S = {}
    BY <2>1
  <2> QED
    BY <1>1, <2>1, <2>2
<1>3. ASSUME NEW k \in 0..(n - 1), k \in good PROVE k + 1 \in good
  <2>1. ASSUME NEW S \in SUBSET (1..(k + 1)), S # {} PROVE \E m \in S : \A j \in S : m >= j
    <3>1. CASE k + 1 \in S
      <4>1. \A j \in S : k + 1 >= j
        OBVIOUS
      <4> QED
        BY <3>1, <4>1
    <3>2. CASE k + 1 \notin S
      <4>1. S \in SUBSET (1..k)
        BY <3>2
      <4> QED
        BY <1>1, <1>3, <2>1, <4>1
    <3> QED
      BY <3>1, <3>2
  <2> QED
    BY <1>1, <2>1
<1>4. \A k \in 0..n : k \in good
  BY <1>2, <1>3, Scans!UpTo
<1>5. \A S \in SUBSET (1..n) : S # {} => Max(S) \in S
  <2> SUFFICES ASSUME NEW S \in SUBSET (1..n), S # {} PROVE Max(S) \in S
    OBVIOUS
  <2>1. \E m \in S : \A j \in S : m >= j
    <3>1. n \in good
      BY <1>4
    <3> QED
      BY <1>1, <3>1, Zenon
  <2> QED
    BY <2>1, Zenon DEF Max
<1>6. IsFiniteSet(1..n)
  BY FS_Interval
<1>7. Max(1..(n + 1)) = n + 1
  <2>1. n + 1 \in 1..(n + 1) /\ \A j \in 1..(n + 1) : n + 1 >= j
    OBVIOUS
  <2>2. ASSUME NEW m \in 1..(n + 1), \A j \in 1..(n + 1) : m >= j PROVE m = n + 1
    <3>1. m >= n + 1
      BY <2>1, <2>2
    <3> QED
      BY <3>1
  <2> QED
    BY <2>1, <2>2 DEF Max
<1>8. (1..(n + 1)) \ {n + 1} = 1..n /\ 1..(n + 1) # {} /\ 1..0 = {}
  <2>1. n + 1 \in 1..(n + 1)
    OBVIOUS
  <2> QED
    BY <2>1
<1> QED
  BY <1>5, <1>6, <1>7, <1>8

\* The scan of the first k samples.
Scanned(samples, k) == Scans!Fold(samples, NoSamples, 1..k)

\* One sample more is scanned after the others.
LEMMA ScanEquations ==
  ASSUME NEW samples, NEW k \in Nat
  PROVE  /\ Scanned(samples, 0) = NoSamples
         /\ Scanned(samples, k + 1) = Scan(Scanned(samples, k), samples[k + 1])
<1>1. ASSUME NEW n \in Nat PROVE Scans!IsFiniteSet(1..n) /\ Scans!Picks(1..n)
  BY PickLast, SameFinite DEF Scans!Picks
<1>2. Scans!Fold(samples, NoSamples, {}) = NoSamples
  <2>1. Scans!IsFiniteSet({}) /\ Scans!Picks({})
    <3>1. 1..0 = {}
      BY PickLast
    <3> QED
      BY <1>1, <3>1
  <2> QED
    BY <2>1, Scans!FoldEquations
<1>3. Scans!Fold(samples, NoSamples, 1..(k + 1)) =
        ScanAt(samples, Scans!Fold(samples, NoSamples, 1..k), k + 1)
  <2>1. PICK S, x : S = 1..(k + 1) /\ x = k + 1
    OBVIOUS
  <2>2. Scans!IsFiniteSet(S) /\ Scans!Picks(S) /\ S # {} /\ Max(S) = x /\ S \ {x} = 1..k
    <3>1. k + 1 \in Nat
      OBVIOUS
    <3>2. Max(1..(k + 1)) = k + 1 /\ (1..(k + 1)) \ {k + 1} = 1..k /\ 1..(k + 1) # {}
      BY PickLast
    <3>3. Scans!IsFiniteSet(1..(k + 1)) /\ Scans!Picks(1..(k + 1))
      BY <1>1, <3>1
    <3> QED
      BY <2>1, <3>2, <3>3
  <2>3. Scans!Fold(samples, NoSamples, S) =
          ScanAt(samples, Scans!Fold(samples, NoSamples, S \ {x}), x)
    BY <2>2, Scans!FoldEquations
  <2> QED
    BY <2>1, <2>2, <2>3
<1> QED
  BY <1>2, <1>3, PickLast DEF Scanned, ScanAt

\* The runs of a sequence of samples are those of this scan.
LEMMA RunsScanned ==
  ASSUME NEW samples \in Seq(Samples)
  PROVE  FoldLeft(Scan, NoSamples, samples) = Scanned(samples, Len(samples))
<1>1. DOMAIN samples = 1..Len(samples)
  OBVIOUS
<1>2. FoldLeft(Scan, NoSamples, samples) = Scans!Fold(samples, NoSamples, DOMAIN samples)
  BY DEF FoldLeft, Scans!Fold, MapThenFoldSet, Scans!MapThenFoldSet, ScanAt
<1> QED
  BY <1>1, <1>2 DEF Scanned

StitchAt(c, segs, i) == Stitch(c[1], c[2], segs, c[3][i])
Stitches == INSTANCE FoldProofs WITH Op <- StitchAt, Pick <- Max

\* The runs stitched onto segs, one after the other.
Onto(l, open, segs, runs) == Stitches!Fold(<<l, open, runs>>, segs, 1..Len(runs))

\* No run changes nothing.
LEMMA OntoNone ==
  ASSUME NEW l, NEW open, NEW segs
  PROVE  Onto(l, open, segs, << >>) = segs
<1>1. Stitches!IsFiniteSet({}) /\ Stitches!Picks({})
  BY FS_EmptySet DEF Stitches!Picks, IsFiniteSet, Stitches!IsFiniteSet
<1>2. Stitches!Fold(<<l, open, << >> >>, segs, {}) = segs
  BY <1>1, Stitches!FoldEquations
<1>3. Len(<< >>) = 0 /\ 1..0 = {}
  BY PickLast
<1> QED
  BY <1>2, <1>3 DEF Onto

\* One run more is stitched onto the others.
LEMMA OntoEquations ==
  ASSUME NEW l, NEW open, NEW segs, NEW R, NEW runs \in Seq(R), NEW run \in R
  PROVE  Onto(l, open, segs, Append(runs, run)) = Stitch(l, open, Onto(l, open, segs, runs), run)
<1>1. PICK n \in Nat : n = Len(runs)
  OBVIOUS
<1> DEFINE more == Append(runs, run)
<1>2. Len(more) = n + 1 /\ more[n + 1] = run /\ \A i \in 1..n : more[i] = runs[i]
  BY <1>1
<1> HIDE DEF more
<1>3. \A k \in Nat : Stitches!IsFiniteSet(1..k) /\ Stitches!Picks(1..k)
  BY PickLast DEF Stitches!Picks, IsFiniteSet, Stitches!IsFiniteSet
<1>4. PICK c, d : c = <<l, open, runs>> /\ d = <<l, open, more>>
  OBVIOUS
<1>5. Stitches!Fold(d, segs, 1..(n + 1)) = StitchAt(d, Stitches!Fold(d, segs, 1..n), n + 1)
  <2>1. PICK S, x : S = 1..(n + 1) /\ x = n + 1
    OBVIOUS
  <2>2. Stitches!IsFiniteSet(S) /\ Stitches!Picks(S) /\ S # {} /\ Max(S) = x /\ S \ {x} = 1..n
    <3>1. n + 1 \in Nat
      OBVIOUS
    <3>2. Max(1..(n + 1)) = n + 1 /\ (1..(n + 1)) \ {n + 1} = 1..n /\ 1..(n + 1) # {}
      BY PickLast
    <3>3. Stitches!IsFiniteSet(1..(n + 1)) /\ Stitches!Picks(1..(n + 1))
      BY <1>3, <3>1
    <3> QED
      BY <2>1, <3>2, <3>3
  <2>3. Stitches!Fold(d, segs, S) = StitchAt(d, Stitches!Fold(d, segs, S \ {x}), x)
    BY <2>2, Stitches!FoldEquations
  <2> QED
    BY <2>1, <2>2, <2>3
<1>6. Stitches!Fold(d, segs, 1..n) = Stitches!Fold(c, segs, 1..n)
  <2>1. \A acc : \A i \in 1..n : StitchAt(d, acc, i) = StitchAt(c, acc, i)
    <3>1. d[1] = c[1] /\ d[2] = c[2] /\ \A i \in 1..n : d[3][i] = c[3][i]
      BY <1>2, <1>4
    <3> QED
      BY <3>1, Zenon DEF StitchAt
  <2> QED
    BY <1>3, <2>1, Stitches!FoldAgrees
<1>7. StitchAt(d, Stitches!Fold(c, segs, 1..n), n + 1) = Stitch(l, open, Stitches!Fold(c, segs, 1..n), run)
  BY <1>2, <1>4, Zenon DEF StitchAt
<1>8. Onto(l, open, segs, more) = Stitch(l, open, Onto(l, open, segs, runs), run)
  BY <1>1, <1>2, <1>4, <1>5, <1>6, <1>7 DEF Onto
<1> QED
  BY <1>8 DEF more

\* An hour's runs are stitched by this fold.
LEMMA HourStitched ==
  ASSUME NEW l, NEW acc, NEW h, NEW R, NEW runs \in Seq(R), runs = Runs(InHour(l, h))
  PROVE  StitchHour(l, acc, h) =
           IF InHour(l, h) = << >> THEN acc
           ELSE [segs |-> Onto(l, acc.open, acc.segs, runs),
                 open |-> runs # << >> /\ Last(runs).openEnd, lastHour |-> h]
<1>1. DOMAIN runs = 1..Len(runs)
  OBVIOUS
<1> DEFINE OntoSegments(segs, run) == Stitch(l, acc.open, segs, run)
<1>2. FoldLeft(OntoSegments, acc.segs, runs) =
        Stitches!Fold(<<l, acc.open, runs>>, acc.segs, DOMAIN runs)
  BY DEF FoldLeft, Stitches!Fold, MapThenFoldSet, Stitches!MapThenFoldSet, StitchAt
<1>3. FoldLeft(OntoSegments, acc.segs, runs) = Onto(l, acc.open, acc.segs, runs)
  BY <1>1, <1>2 DEF Onto
<1>4. StitchHour(l, acc, h) =
        IF InHour(l, h) = << >> THEN acc
        ELSE [segs |-> FoldLeft(OntoSegments, acc.segs, runs),
              open |-> runs # << >> /\ Last(runs).openEnd, lastHour |-> h]
  BY Zenon DEF StitchHour
<1> QED
  BY <1>3, <1>4

-----------------------------------------------------------------------------
(* One hour's runs, stitched.                                              *)

Run == [start: Nat, end: Nat, count: Nat, msg: Messages, openStart: BOOLEAN, openEnd: BOOLEAN]

\* The parts of a run; extending it, and closing the hour.
LEMMA RunFacts ==
  ASSUME NEW x \in Run, NEW ts \in Nat
  PROVE  /\ x.start \in Nat /\ x.end \in Nat /\ x.count \in Nat /\ x.msg \in Messages
         /\ LET y == Extended(x, ts, 1) IN
              /\ y \in Run /\ y.start = x.start /\ y.end = ts /\ y.count = x.count + 1
              /\ y.msg = x.msg /\ y.openStart = x.openStart /\ y.openEnd = x.openEnd
         /\ LET y == [x EXCEPT !.openEnd = TRUE] IN
              /\ y \in Run /\ y.start = x.start /\ y.end = x.end /\ y.count = x.count
              /\ y.msg = x.msg /\ y.openStart = x.openStart /\ y.openEnd
<1>1. x.start \in Nat /\ x.end \in Nat /\ x.count \in Nat /\ x.msg \in Messages
  BY DEF Run
<1>2. PICK n \in Nat : n = x.count + 1
  BY <1>1
<1>3. Extended(x, ts, 1) = [x EXCEPT !.end = ts, !.count = n]
  BY <1>2, Zenon DEF Extended
<1>4. PICK y : y = [x EXCEPT !.end = ts, !.count = n]
  OBVIOUS
<1>5. /\ y \in Run /\ y.start = x.start /\ y.end = ts /\ y.count = n
      /\ y.msg = x.msg /\ y.openStart = x.openStart /\ y.openEnd = x.openEnd
  BY <1>4 DEF Run
<1>6. LET z == [x EXCEPT !.openEnd = TRUE] IN
        /\ z \in Run /\ z.start = x.start /\ z.end = x.end /\ z.count = x.count
        /\ z.msg = x.msg /\ z.openStart = x.openStart /\ z.openEnd
  BY DEF Run
<1> QED
  BY <1>1, <1>2, <1>3, <1>4, <1>5, <1>6, Zenon

\* The run a sample opens.
LEMMA NewRunFacts ==
  ASSUME NEW s \in Samples, s.msg # Ok, NEW first \in BOOLEAN
  PROVE  LET y == NewRun(s, first) IN
           /\ y \in Run /\ y.start = s.ts /\ y.end = s.ts /\ y.count = 1 /\ y.msg = s.msg
           /\ y.openStart = first /\ ~y.openEnd
<1>1. s.ts \in Nat /\ s.msg \in Messages
  BY DEF Samples
<1> QED
  BY <1>1 DEF NewRun, Run

\* Replacing a last element twice.
LEMMA ReplacedTwice ==
  ASSUME NEW R, NEW V \in Seq(R), V # << >>, NEW v \in R, NEW w \in R
  PROVE  ReplaceLast(ReplaceLast(V, v), w) = ReplaceLast(V, w)
<1>1. \A U \in Seq(R) : U # << >> =>
        /\ ReplaceLast(U, w) \in Seq(R) /\ Len(ReplaceLast(U, w)) = Len(U)
        /\ ReplaceLast(U, w)[Len(U)] = w
        /\ \A i \in 1..Len(U) : i # Len(U) => ReplaceLast(U, w)[i] = U[i]
  BY LastReplaced
<1>2. PICK U : U = ReplaceLast(V, v)
  OBVIOUS
<1>3. U \in Seq(R) /\ Len(U) = Len(V) /\ Len(V) >= 1 /\ \A i \in 1..Len(V) : i # Len(V) => U[i] = V[i]
  <2>1. /\ ReplaceLast(V, v) \in Seq(R) /\ Len(ReplaceLast(V, v)) = Len(V) /\ Len(V) >= 1
        /\ \A i \in 1..Len(V) : i # Len(V) => ReplaceLast(V, v)[i] = V[i]
    BY LastReplaced
  <2> QED
    BY <1>2, <2>1, Zenon
<1>4. U # << >>
  BY <1>3
<1>5. PICK X, Y : X = ReplaceLast(U, w) /\ Y = ReplaceLast(V, w)
  OBVIOUS
<1>6. X \in Seq(R) /\ Len(X) = Len(V) /\ X[Len(V)] = w
      /\ \A i \in 1..Len(V) : i # Len(V) => X[i] = U[i]
  BY <1>1, <1>3, <1>4, <1>5, Zenon
<1>7. Y \in Seq(R) /\ Len(Y) = Len(V) /\ Y[Len(V)] = w
      /\ \A i \in 1..Len(V) : i # Len(V) => Y[i] = V[i]
  BY <1>1, <1>5, Zenon
<1>8. \A i \in 1..Len(V) : X[i] = Y[i]
  BY <1>3, <1>6, <1>7, Zenon
<1>9. X = Y
  BY <1>6, <1>7, <1>8, SeqEqual
<1> QED
  BY <1>2, <1>5, <1>9

\* Extending a failure once by one more, or twice.
LEMMA ExtendedTwice ==
  ASSUME NEW f \in Failure, NEW e \in Nat, NEW n \in Nat, NEW d \in Nat
  PROVE  /\ Extended(f, e, n) \in Failure
         /\ Extended(Extended(f, e, n), d, 1) = Extended(f, d, n + 1)
<1>1. f.count \in Nat
  BY FailureFacts
<1>2. PICK j \in Nat, k \in Nat : j = f.count + n /\ k = f.count + (n + 1)
  BY <1>1
<1>3. j + 1 = k
  BY <1>1, <1>2
<1>4. PICK g : g = [f EXCEPT !.end = e, !.count = j]
  OBVIOUS
<1>5. g \in Failure /\ g.count = j
  BY <1>2, <1>4 DEF Failure
<1>6. Extended(f, e, n) = g /\ Extended(f, d, n + 1) = [f EXCEPT !.end = d, !.count = k]
  BY <1>2, <1>4, Zenon DEF Extended
<1>7. g.count + 1 = k
  BY <1>3, <1>5
<1>8. Extended(g, d, 1) = [g EXCEPT !.end = d, !.count = k]
  BY <1>7, Zenon DEF Extended
<1>9. [g EXCEPT !.end = d, !.count = k] = [f EXCEPT !.end = d, !.count = k]
  BY <1>4, <1>5 DEF Failure
<1> QED
  BY <1>5, <1>6, <1>8, <1>9

\* Stitching an extended run extends the last failure.
LEMMA StitchExtended ==
  ASSUME NEW l \in Locations, NEW open, NEW u \in Seq(Failure), NEW x \in Run, NEW ts \in Nat,
         open /\ x.openStart => u # << >>
  PROVE  /\ Stitch(l, open, u, x) \in Seq(Failure) /\ Stitch(l, open, u, x) # << >>
         /\ Stitch(l, open, u, Extended(x, ts, 1)) =
              ReplaceLast(Stitch(l, open, u, x), Extended(Last(Stitch(l, open, u, x)), ts, 1))
<1>1. PICK y, v : y = Extended(x, ts, 1) /\ v = Stitch(l, open, u, x)
  OBVIOUS
<1>2. /\ x.start \in Nat /\ x.end \in Nat /\ x.count \in Nat /\ x.msg \in Messages
      /\ y \in Run /\ y.start = x.start /\ y.end = ts /\ y.count = x.count + 1
      /\ y.msg = x.msg /\ y.openStart = x.openStart
  BY <1>1, RunFacts, Zenon
<1>3. Continues(open, u, y) <=> Continues(open, u, x)
  BY <1>2, Zenon DEF Continues
<1>4. CASE Continues(open, u, x)
  <2>1. u # << >>
    BY <1>4 DEF Continues
  <2>2. Last(u) \in Failure
    BY <2>1, LastReplaced DEF Last
  <2>3. PICK e : e = Extended(Last(u), x.end, x.count)
    OBVIOUS
  <2>4. e \in Failure /\ Extended(e, ts, 1) = Extended(Last(u), ts, x.count + 1)
    <3>1. PICK f, d, k : f = Last(u) /\ d = x.end /\ k = x.count
      OBVIOUS
    <3>2. f \in Failure /\ d \in Nat /\ k \in Nat
      BY <1>2, <2>2, <3>1
    <3>3. Extended(f, d, k) \in Failure
          /\ Extended(Extended(f, d, k), ts, 1) = Extended(f, ts, k + 1)
      BY <3>2, ExtendedTwice
    <3> QED
      BY <2>3, <3>1, <3>3
  <2>5. PICK f : f = Extended(e, ts, 1)
    OBVIOUS
  <2>6. v = ReplaceLast(u, e)
    BY <1>1, <1>4, <2>3 DEF Stitch
  <2>7. Stitch(l, open, u, y) = ReplaceLast(u, f)
    BY <1>2, <1>3, <1>4, <2>4, <2>5, Zenon DEF Stitch
  <2>8. f \in Failure
    <3>1. x.count + 1 \in Nat
      BY <1>2
    <3> QED
      BY <2>2, <2>4, <2>5, <3>1, ExtendedTwice
  <2>9. v \in Seq(Failure) /\ Len(v) = Len(u) /\ Len(u) >= 1 /\ Last(v) = e
    BY <2>1, <2>4, <2>6, LastReplaced
  <2>10. v # << >>
    BY <2>9
  <2>11. ReplaceLast(v, f) = ReplaceLast(u, f)
    BY <2>1, <2>4, <2>6, <2>8, ReplacedTwice
  <2> QED
    BY <1>1, <2>5, <2>7, <2>9, <2>10, <2>11
<1>5. CASE ~Continues(open, u, x)
  <2>1. PICK e, f : e = NewSegment(l, x) /\ f = NewSegment(l, y)
    OBVIOUS
  <2>2. v = Append(u, e) /\ Stitch(l, open, u, y) = Append(u, f)
    BY <1>1, <1>3, <1>5, <2>1, Zenon DEF Stitch
  <2>3. e \in Failure /\ e.count = x.count
    BY <1>2, <2>1 DEF NewSegment, Failure
  <2>4. f = Extended(e, ts, 1)
    <3>1. PICK k \in Nat : k = x.count + 1
      BY <1>2
    <3>2. e.count + 1 = k
      BY <2>3, <3>1
    <3>3. Extended(e, ts, 1) = [e EXCEPT !.end = ts, !.count = k]
      BY <3>2, Zenon DEF Extended
    <3>4. f = [loc |-> l, msg |-> x.msg, start |-> x.start, end |-> ts, count |-> k, ongoing |-> FALSE]
      BY <1>2, <2>1, <3>1, Zenon DEF NewSegment
    <3>5. PICK g : g = [e EXCEPT !.end = ts, !.count = k]
      OBVIOUS
    <3>6. g \in Failure /\ g.loc = l /\ g.msg = x.msg /\ g.start = x.start /\ g.end = ts /\ g.count = k
          /\ ~g.ongoing
      BY <1>2, <2>1, <2>3, <3>5 DEF NewSegment, Failure
    <3>7. g = f
      BY <3>4, <3>6 DEF Failure
    <3> QED
      BY <3>3, <3>5, <3>7
  <2>5. v \in Seq(Failure) /\ v # << >> /\ Last(v) = e
    BY <2>2, <2>3 DEF Last
  <2>6. ReplaceLast(v, f) = Append(u, f)
    <3>1. SubSeq(v, 1, Len(v) - 1) = u
      <4>1. PICK n \in Nat : n = Len(u)
        OBVIOUS
      <4>2. Len(v) = n + 1 /\ \A i \in 1..n : v[i] = u[i]
        BY <2>2, <2>3, <4>1
      <4>3. PICK w : w = SubSeq(v, 1, n)
        OBVIOUS
      <4>4. w \in Seq(Failure) /\ Len(w) = n /\ \A i \in 1..n : w[i] = v[i]
        BY <2>5, <4>2, <4>3
      <4>5. w = u
        BY <4>1, <4>2, <4>4, SeqEqual
      <4>6. Len(v) - 1 = n
        BY <4>2
      <4> QED
        BY <4>3, <4>5, <4>6
    <3> QED
      BY <3>1 DEF ReplaceLast, Front
  <2> QED
    BY <1>1, <2>2, <2>4, <2>5, <2>6
<1> QED
  BY <1>4, <1>5

\* Where an hour's last run is open does not matter for stitching it.
LEMMA StitchClosed ==
  ASSUME NEW l, NEW open, NEW u, NEW x \in Run
  PROVE  Stitch(l, open, u, [x EXCEPT !.openEnd = TRUE]) = Stitch(l, open, u, x)
<1>1. PICK y : y = [x EXCEPT !.openEnd = TRUE]
  OBVIOUS
<1>2. /\ y.start = x.start /\ y.end = x.end /\ y.count = x.count
      /\ y.msg = x.msg /\ y.openStart = x.openStart
  <2>1. 0 \in Nat
    OBVIOUS
  <2> QED
    BY <1>1, <2>1, RunFacts, Zenon
<1>3. Continues(open, u, y) <=> Continues(open, u, x)
  BY <1>2, Zenon DEF Continues
<1>4. NewSegment(l, y) = NewSegment(l, x)
  BY <1>2, Zenon DEF NewSegment
<1>5. Stitch(l, open, u, y) = Stitch(l, open, u, x)
  <2>1. Extended(Last(u), y.end, y.count) = Extended(Last(u), x.end, x.count)
    BY <1>2, Zenon
  <2>2. CASE Continues(open, u, x)
    BY <1>3, <2>1, <2>2, Zenon DEF Stitch
  <2>3. CASE ~Continues(open, u, x)
    BY <1>3, <1>4, <2>3, Zenon DEF Stitch
  <2> QED
    BY <2>2, <2>3
<1> QED
  BY <1>1, <1>5, Zenon

\* The last element of a sequence that was appended to, and the others.
LEMMA AppendedFacts ==
  ASSUME NEW R, NEW V \in Seq(R), NEW e \in R
  PROVE  /\ Append(V, e) \in Seq(R) /\ Append(V, e) # << >>
         /\ Last(Append(V, e)) = e /\ Front(Append(V, e)) = V
<1>1. PICK n : n = Len(V)
  OBVIOUS
<1>2. PICK W : W = Append(V, e)
  OBVIOUS
<1>3. n \in Nat /\ W \in Seq(R) /\ Len(W) = n + 1 /\ W[n + 1] = e /\ \A i \in 1..n : W[i] = V[i]
  BY <1>1, <1>2
<1>4. PICK X : X = SubSeq(W, 1, n)
  OBVIOUS
<1>5. X \in Seq(R) /\ Len(X) = n /\ \A i \in 1..n : X[i] = W[i]
  BY <1>3, <1>4
<1>6. X = V
  BY <1>1, <1>3, <1>5, SeqEqual
<1>7. Len(W) - 1 = n /\ W # << >>
  BY <1>3
<1>8. Last(W) = e
  BY <1>3 DEF Last
<1>9. Front(W) = V
  BY <1>4, <1>6, <1>7 DEF Front
<1> QED
  BY <1>2, <1>3, <1>7, <1>8, <1>9

\* A sequence is its last element appended to the others.
LEMMA FrontFacts ==
  ASSUME NEW R, NEW V \in Seq(R), V # << >>
  PROVE  Front(V) \in Seq(R) /\ Last(V) \in R /\ Append(Front(V), Last(V)) = V
<1>1. PICK m \in Nat : m = Len(V) /\ m >= 1
  OBVIOUS
<1>2. PICK f : f = SubSeq(V, 1, m - 1)
  OBVIOUS
<1>3. f \in Seq(R) /\ Len(f) = m - 1 /\ \A i \in 1..(m - 1) : f[i] = V[i]
  BY <1>1, <1>2
<1>4. PICK x : x = V[m]
  OBVIOUS
<1>5. x \in R
  BY <1>1, <1>4
<1>6. PICK W : W = Append(f, x)
  OBVIOUS
<1>7. W \in Seq(R) /\ Len(W) = m /\ W[m] = x /\ \A i \in 1..(m - 1) : W[i] = f[i]
  BY <1>1, <1>3, <1>5, <1>6
<1>8. \A i \in 1..m : W[i] = V[i]
  BY <1>1, <1>3, <1>4, <1>7
<1>9. W = V
  BY <1>1, <1>7, <1>8, SeqEqual
<1>10. Front(V) = f /\ Last(V) = x
  BY <1>1, <1>2, <1>4 DEF Front, Last
<1> QED
  BY <1>3, <1>5, <1>6, <1>9, <1>10

\* The first n samples end in a failure.
Failing(c, n) == n > 0 /\ c[n].msg # Ok

\* After k of an hour's samples, a of which are before the hour: its runs,
\* stitched onto the failures before the hour, are the failures so far.
ScanInv(l, c, a, samples, segs, open, k) ==
  LET r == Scanned(samples, k)
      others == Onto(l, open, segs, Front(r.runs))
  IN /\ r.runs \in Seq(Run) /\ r.seen = k
     /\ r.open <=> k > 0 /\ c[a + k].msg # Ok
     /\ k > 0 /\ c[a + k].msg # Ok => r.runs # << >> /\ Last(r.runs).msg = c[a + k].msg
     /\ r.runs # << >> => /\ ~Last(r.runs).openEnd /\ others \in Seq(Failure)
                          /\ open /\ Last(r.runs).openStart => others # << >>
     /\ Direct(l, c, a + k, Onto(l, open, segs, r.runs))

\* What one sample does to the scan.
LEMMA ScanFacts ==
  ASSUME NEW acc, NEW s
  PROVE  /\ Scan(acc, s).seen = acc.seen + 1
         /\ Scan(acc, s).open <=> s.msg # Ok
         /\ s.msg = Ok => Scan(acc, s).runs = acc.runs
         /\ s.msg # Ok /\ acc.open /\ Last(acc.runs).msg = s.msg =>
              Scan(acc, s).runs = ReplaceLast(acc.runs, Extended(Last(acc.runs), s.ts, 1))
         /\ s.msg # Ok /\ ~(acc.open /\ Last(acc.runs).msg = s.msg) =>
              Scan(acc, s).runs = Append(acc.runs, NewRun(s, acc.seen = 0))
BY DEF Scan

\* Before the hour's first sample.
LEMMA ScanStart ==
  ASSUME NEW l, NEW c, NEW a \in Nat, NEW samples, NEW segs, NEW open, Direct(l, c, a, segs)
  PROVE  ScanInv(l, c, a, samples, segs, open, 0)
<1>1. Scanned(samples, 0) = [runs |-> << >>, open |-> FALSE, seen |-> 0]
  <2>1. 0 \in Nat
    OBVIOUS
  <2> QED
    BY <2>1, ScanEquations, Zenon DEF NoSamples
<1>2. Onto(l, open, segs, << >>) = segs
  BY OntoNone
<1>3. PICK r : r = Scanned(samples, 0)
  OBVIOUS
<1>4. r.runs = << >> /\ ~r.open /\ r.seen = 0 /\ r.runs \in Seq(Run)
  <2>1. r = [runs |-> << >>, open |-> FALSE, seen |-> 0]
    BY <1>1, <1>3, Zenon
  <2> QED
    BY <2>1
<1>5. a + 0 = a /\ ~(0 > 0)
  OBVIOUS
<1>6. Direct(l, c, a + 0, Onto(l, open, segs, r.runs))
  BY <1>2, <1>4, <1>5
<1> QED
  BY <1>3, <1>4, <1>5, <1>6, Zenon DEF ScanInv

\* A success closes the run.
LEMMA ScanSuccess ==
  ASSUME NEW l, NEW c, NEW a \in Nat, NEW samples, NEW segs, NEW open, NEW k \in Nat,
         ScanInv(l, c, a, samples, segs, open, k),
         samples[k + 1] = c[a + k + 1], c[a + k + 1].msg = Ok
  PROVE  ScanInv(l, c, a, samples, segs, open, k + 1)
<1>1. PICK r, p, s : r = Scanned(samples, k) /\ p = Scanned(samples, k + 1) /\ s = samples[k + 1]
  OBVIOUS
<1>2. p = Scan(r, s)
  BY <1>1, ScanEquations
<1>3. r.runs \in Seq(Run) /\ r.seen = k /\ Direct(l, c, a + k, Onto(l, open, segs, r.runs))
  BY <1>1, Zenon DEF ScanInv
<1>4. p.seen = k + 1 /\ ~p.open /\ p.runs = r.runs
  BY <1>1, <1>2, <1>3, ScanFacts
<1>5. a + k \in Nat /\ (a + k) + 1 = a + (k + 1) /\ a + k + 1 = a + (k + 1)
  OBVIOUS
<1>6. Direct(l, c, a + (k + 1), Onto(l, open, segs, p.runs))
  <2>1. c[(a + k) + 1].msg = Ok
    OBVIOUS
  <2> QED
    BY <1>3, <1>4, <1>5, <2>1, DirectEnds
<1>7. c[a + (k + 1)].msg = Ok
  BY <1>5
<1>8. LET others == Onto(l, open, segs, Front(p.runs)) IN
      p.runs # << >> => /\ ~Last(p.runs).openEnd /\ others \in Seq(Failure)
                        /\ open /\ Last(p.runs).openStart => others # << >>
  BY <1>1, <1>4, Zenon DEF ScanInv
<1> QED
  BY <1>1, <1>3, <1>4, <1>6, <1>7, <1>8, Zenon DEF ScanInv

\* A failure of the open run's message extends it.
LEMMA ScanExtends ==
  ASSUME NEW l \in Locations, NEW t, NEW c, Ordered(c, t), NEW a \in Nat, NEW samples, NEW segs,
         NEW open, NEW k \in Nat, ScanInv(l, c, a, samples, segs, open, k), a + k + 1 \in 1..Len(c),
         samples[k + 1] = c[a + k + 1], c[a + k + 1].msg # Ok,
         k > 0, c[a + k].msg = c[a + k + 1].msg, c[a + k + 1].ts - c[a + k].ts <= MaxAge
  PROVE  ScanInv(l, c, a, samples, segs, open, k + 1)
<1>1. PICK r, p, s : r = Scanned(samples, k) /\ p = Scanned(samples, k + 1) /\ s = samples[k + 1]
  OBVIOUS
<1>2. p = Scan(r, s)
  BY <1>1, ScanEquations
<1>3. /\ r.runs \in Seq(Run) /\ r.seen = k /\ Direct(l, c, a + k, Onto(l, open, segs, r.runs))
      /\ r.open /\ r.runs # << >> /\ Last(r.runs).msg = s.msg
  BY <1>1 DEF ScanInv
<1>4. PICK n \in 1..(Len(c) - 1) : n = a + k /\ n + 1 = a + (k + 1) /\ a + k + 1 = n + 1
  <2>1. PICK m \in Nat : m = Len(c)
    BY OrderedFacts
  <2>2. a + k \in 1..(m - 1) /\ a + k + 1 = a + (k + 1)
    BY <2>1
  <2> QED
    BY <2>1, <2>2
<1>5. s = c[n + 1] /\ s.msg # Ok /\ s.ts \in Nat /\ c[n].msg = s.msg
  <2>1. n + 1 \in 1..Len(c)
    BY <1>4
  <2>2. c[n + 1].ts \in Nat
    BY <2>1, OrderedFacts
  <2> QED
    BY <1>1, <1>4, <2>2
<1>6. PICK x, y : x = Last(r.runs) /\ y = Extended(x, s.ts, 1)
  OBVIOUS
<1>7. p.seen = k + 1 /\ p.open /\ p.runs = ReplaceLast(r.runs, y)
  BY <1>2, <1>3, <1>5, <1>6, ScanFacts
<1>8. PICK f : f = Front(r.runs)
  OBVIOUS
<1>9. f \in Seq(Run) /\ x \in Run /\ Append(f, x) = r.runs
  BY <1>3, <1>6, <1>8, FrontFacts
<1>10. y \in Run /\ y.msg = x.msg /\ y.openStart = x.openStart /\ y.openEnd = x.openEnd
  BY <1>5, <1>6, <1>9, RunFacts, Zenon
<1>11. r.runs = Append(f, x) /\ p.runs = Append(f, y)
  BY <1>7, <1>8, <1>9 DEF ReplaceLast
<1>12. p.runs \in Seq(Run) /\ p.runs # << >> /\ Last(p.runs) = y /\ Front(p.runs) = f
  <2>1. f \in Seq(Run) /\ y \in Run
    BY <1>9, <1>10
  <2>2. Append(f, y) \in Seq(Run) /\ Append(f, y) # << >> /\ Last(Append(f, y)) = y
        /\ Front(Append(f, y)) = f
    BY <2>1, AppendedFacts
  <2> QED
    BY <1>11, <2>2
<1>13. PICK u : u = Onto(l, open, segs, f)
  OBVIOUS
<1>14. u \in Seq(Failure) /\ ~x.openEnd /\ (open /\ x.openStart => u # << >>)
  BY <1>1, <1>3, <1>6, <1>8, <1>13, Zenon DEF ScanInv
<1>15. PICK v : v = Stitch(l, open, u, x)
  OBVIOUS
<1>16. Onto(l, open, segs, r.runs) = v
  <2>1. f \in Seq(Run) /\ x \in Run
    BY <1>9
  <2>2. Onto(l, open, segs, Append(f, x)) = Stitch(l, open, Onto(l, open, segs, f), x)
    BY <2>1, OntoEquations
  <2> QED
    BY <1>11, <1>13, <1>15, <2>2
<1>17. Onto(l, open, segs, p.runs) = Stitch(l, open, u, y)
  <2>1. f \in Seq(Run) /\ y \in Run
    BY <1>9, <1>10
  <2>2. Onto(l, open, segs, Append(f, y)) = Stitch(l, open, Onto(l, open, segs, f), y)
    BY <2>1, OntoEquations
  <2> QED
    BY <1>11, <1>13, <2>2
<1>18. Stitch(l, open, u, y) = ReplaceLast(v, Extended(Last(v), s.ts, 1))
  BY <1>5, <1>6, <1>9, <1>14, <1>15, StitchExtended
<1>19. JoinedAt(c, n)
  BY <1>4, <1>5 DEF JoinedAt
<1>20. Direct(l, c, n + 1, ReplaceLast(v, Extended(Last(v), c[n + 1].ts, 1)))
  <2>1. Direct(l, c, n, v)
    BY <1>3, <1>4, <1>16
  <2> QED
    BY <1>19, <2>1, DirectGrows
<1>21. Direct(l, c, a + (k + 1), Onto(l, open, segs, p.runs))
  BY <1>4, <1>5, <1>17, <1>18, <1>20
<1>22. /\ ~Last(p.runs).openEnd /\ Onto(l, open, segs, Front(p.runs)) \in Seq(Failure)
       /\ open /\ Last(p.runs).openStart => Onto(l, open, segs, Front(p.runs)) # << >>
  BY <1>10, <1>12, <1>13, <1>14, Zenon
<1>23. k + 1 > 0 /\ c[a + (k + 1)].msg # Ok /\ Last(p.runs).msg = c[a + (k + 1)].msg
  BY <1>3, <1>4, <1>5, <1>6, <1>10, <1>12
<1> QED
  BY <1>1, <1>7, <1>12, <1>21, <1>22, <1>23, Zenon DEF ScanInv

\* A failure that does not extend the open run opens one.
LEMMA ScanNew ==
  ASSUME NEW l \in Locations, NEW t, NEW c, Ordered(c, t), NEW a \in Nat, NEW samples, NEW segs,
         NEW open, open <=> Failing(c, a), NEW k \in Nat,
         ScanInv(l, c, a, samples, segs, open, k), a + k + 1 \in 1..Len(c),
         samples[k + 1] = c[a + k + 1], c[a + k + 1].msg # Ok,
         k > 0 => c[a + k].msg # c[a + k + 1].msg
  PROVE  ScanInv(l, c, a, samples, segs, open, k + 1)
<1>1. PICK r, p, s : r = Scanned(samples, k) /\ p = Scanned(samples, k + 1) /\ s = samples[k + 1]
  OBVIOUS
<1>2. p = Scan(r, s)
  BY <1>1, ScanEquations
<1>3. /\ r.runs \in Seq(Run) /\ r.seen = k /\ Direct(l, c, a + k, Onto(l, open, segs, r.runs))
      /\ r.open => k > 0 /\ Last(r.runs).msg = c[a + k].msg
  BY <1>1 DEF ScanInv
<1>4. PICK n \in 0..(Len(c) - 1) : n = a + k /\ n + 1 = a + (k + 1) /\ a + k + 1 = n + 1
  <2>1. PICK m \in Nat : m = Len(c)
    BY OrderedFacts
  <2>2. a + k \in 0..(m - 1) /\ a + k + 1 = a + (k + 1)
    BY <2>1
  <2> QED
    BY <2>1, <2>2
<1>5. n \in Nat /\ n \in 0..Len(c) /\ n + 1 \in 1..Len(c) /\ (n > 0 => n \in 1..Len(c))
      /\ (n > 0 => n \in 1..(Len(c) - 1))
  <2>1. PICK m \in Nat : m = Len(c)
    BY OrderedFacts
  <2> QED
    BY <1>4, <2>1
<1>6. s = c[n + 1] /\ s.msg # Ok /\ s.ts \in Nat /\ s \in Samples
  <2>1. c[n + 1].ts \in Nat /\ c[n + 1] \in Samples
    BY <1>5, OrderedFacts
  <2> QED
    BY <1>1, <1>4, <2>1
<1>7. PICK x : x = NewRun(s, k = 0)
  OBVIOUS
<1>8. p.seen = k + 1 /\ p.open /\ p.runs = Append(r.runs, x)
  <2>1. ~(r.open /\ Last(r.runs).msg = s.msg)
    BY <1>3, <1>4, <1>6
  <2>2. (r.seen = 0) = (k = 0)
    BY <1>3
  <2>3. /\ Scan(r, s).seen = r.seen + 1
        /\ Scan(r, s).open
        /\ Scan(r, s).runs = Append(r.runs, NewRun(s, r.seen = 0))
    <3>1. /\ Scan(r, s).seen = r.seen + 1
          /\ Scan(r, s).open <=> s.msg # Ok
          /\ s.msg # Ok /\ ~(r.open /\ Last(r.runs).msg = s.msg) =>
               Scan(r, s).runs = Append(r.runs, NewRun(s, r.seen = 0))
      BY ScanFacts
    <3> QED
      BY <1>6, <2>1, <3>1, Zenon
  <2>4. NewRun(s, r.seen = 0) = x
    BY <1>7, <2>2
  <2> QED
    BY <1>2, <1>3, <2>3, <2>4, Zenon
<1>9. /\ x \in Run /\ x.start = s.ts /\ x.end = s.ts /\ x.count = 1 /\ x.msg = s.msg
      /\ x.openStart <=> k = 0
      /\ ~x.openEnd
  <2>1. PICK first \in BOOLEAN : first = (k = 0)
    OBVIOUS
  <2>2. LET y == NewRun(s, first) IN
          /\ y \in Run /\ y.start = s.ts /\ y.end = s.ts /\ y.count = 1 /\ y.msg = s.msg
          /\ y.openStart = first /\ ~y.openEnd
    BY <1>6, NewRunFacts
  <2>3. x = NewRun(s, first)
    BY <1>7, <2>1
  <2> QED
    BY <2>1, <2>2, <2>3, Zenon
<1>10. p.runs \in Seq(Run) /\ p.runs # << >> /\ Last(p.runs) = x /\ Front(p.runs) = r.runs
  <2>1. PICK V : V = r.runs
    OBVIOUS
  <2>2. V \in Seq(Run)
    BY <1>3, <2>1
  <2>3. Append(V, x) \in Seq(Run) /\ Append(V, x) # << >> /\ Last(Append(V, x)) = x
        /\ Front(Append(V, x)) = V
    BY <1>9, <2>2, AppendedFacts
  <2> QED
    BY <1>8, <2>1, <2>3, Zenon
<1>11. PICK u : u = Onto(l, open, segs, r.runs)
  OBVIOUS
<1>12. Direct(l, c, n, u) /\ u \in Seq(Failure)
  <2>1. Direct(l, c, n, u)
    BY <1>3, <1>4, <1>11
  <2> QED
    BY <1>5, <2>1, DirectType
<1>13. ASSUME open, k = 0
       PROVE  n > 0 /\ c[n].msg # Ok /\ u # << >> /\ Last(u).msg = c[n].msg /\ Last(u).end = c[n].ts
  <2>1. n > 0 /\ c[n].msg # Ok
    BY <1>4, <1>13 DEF Failing
  <2> QED
    BY <1>5, <1>12, <2>1, DirectLast
<1>14. Onto(l, open, segs, p.runs) = Stitch(l, open, u, x)
  <2>1. PICK V : V = r.runs
    OBVIOUS
  <2>2. V \in Seq(Run)
    BY <1>3, <2>1
  <2>3. Onto(l, open, segs, Append(V, x)) = Stitch(l, open, Onto(l, open, segs, V), x)
    BY <1>9, <2>2, OntoEquations
  <2> QED
    BY <1>8, <1>11, <2>1, <2>3, Zenon
<1>15. ASSUME n > 0 PROVE JoinedAt(c, n) <=> open /\ k = 0 /\ c[n].msg = s.msg /\ s.ts - c[n].ts <= MaxAge
  <2>1. k > 0 => c[n].msg # s.msg
    BY <1>1, <1>4
  <2>2. k = 0 => (open <=> c[n].msg # Ok)
    BY <1>4, <1>15 DEF Failing
  <2>3. JoinedAt(c, n) <=> c[n].msg # Ok /\ c[n].msg = s.msg /\ s.ts - c[n].ts <= MaxAge
    BY <1>6 DEF JoinedAt
  <2> QED
    BY <1>6, <2>1, <2>2, <2>3
<1>16. Continues(open, u, x) <=> n > 0 /\ JoinedAt(c, n)
  <2>1. Continues(open, u, x) <=>
          open /\ k = 0 /\ Last(u).msg = s.msg /\ s.ts - Last(u).end <= MaxAge
    BY <1>9, Zenon DEF Continues
  <2> QED
    BY <1>13, <1>15, <2>1, Zenon
<1>17. Direct(l, c, n + 1, Stitch(l, open, u, x))
  <2>1. CASE n > 0 /\ JoinedAt(c, n)
    <3>1. Stitch(l, open, u, x) = ReplaceLast(u, Extended(Last(u), c[n + 1].ts, 1))
      BY <1>6, <1>9, <1>16, <2>1, Zenon DEF Stitch
    <3>2. Direct(l, c, n + 1, ReplaceLast(u, Extended(Last(u), c[n + 1].ts, 1)))
      BY <1>5, <1>12, <2>1, DirectGrows
    <3> QED
      BY <3>1, <3>2
  <2>2. CASE ~(n > 0 /\ JoinedAt(c, n))
    <3>1. Stitch(l, open, u, x) = Append(u, NewSegment(l, x))
      BY <1>16, <2>2, Zenon DEF Stitch
    <3>2. NewSegment(l, x) = FailureOf(l, c, <<n + 1, n + 1>>)
      <4>1. (n + 1) - (n + 1) + 1 = 1
        BY <1>5
      <4>2. FailureOf(l, c, <<n + 1, n + 1>>) =
              [loc |-> l, msg |-> s.msg, start |-> s.ts, end |-> s.ts, count |-> 1, ongoing |-> FALSE]
        BY <1>6, <4>1 DEF FailureOf
      <4> QED
        BY <1>9, <4>2, Zenon DEF NewSegment
    <3>3. Direct(l, c, n + 1, Append(u, FailureOf(l, c, <<n + 1, n + 1>>)))
      BY <1>4, <1>6, <1>12, <2>2, DirectNew
    <3> QED
      BY <3>1, <3>2, <3>3
  <2> QED
    BY <2>1, <2>2
<1>18. Direct(l, c, a + (k + 1), Onto(l, open, segs, p.runs))
  BY <1>4, <1>14, <1>17
<1>19. /\ ~Last(p.runs).openEnd /\ Onto(l, open, segs, Front(p.runs)) \in Seq(Failure)
       /\ open /\ Last(p.runs).openStart => Onto(l, open, segs, Front(p.runs)) # << >>
  BY <1>9, <1>10, <1>11, <1>12, <1>13, Zenon
<1>20. k + 1 > 0 /\ c[a + (k + 1)].msg # Ok /\ Last(p.runs).msg = c[a + (k + 1)].msg
  BY <1>4, <1>6, <1>9, <1>10
<1> QED
  BY <1>1, <1>8, <1>10, <1>18, <1>19, <1>20, Zenon DEF ScanInv

\* Two samples of one hour are close enough to be one failure.
LEMMA HourShort ==
  ASSUME NEW t \in Nat, NEW u \in Nat, HourOf(t) = HourOf(u)
  PROVE  u - t <= MaxAge
<1>1. PICK h, n : h = HourOf(t) /\ n = HourOf(t) * Hour
  OBVIOUS
<1>2. HourOf(t) \in Nat /\ HourOf(t) * Hour <= t /\ u < HourOf(u) * Hour + Hour
  BY HourFacts
<1>3. n <= t /\ u < n + Hour
  BY <1>1, <1>2
<1>4. Hour \in Nat /\ MaxAge \in Nat /\ Hour <= MaxAge /\ n \in Int
  BY <1>1, <1>2, IncidentsAssumption
<1> QED
  BY <1>3, <1>4

\* One hour's runs, stitched onto the failures before it, are the failures
\* found directly in the samples up to its end.
LEMMA HourRuns ==
  ASSUME NEW l \in Locations, NEW t, NEW c, Ordered(c, t), NEW a \in Nat, NEW b \in Nat,
         a < b, b <= Len(c), NEW h, \A i \in (a + 1)..b : HourOf(c[i].ts) = h,
         NEW segs, NEW open, Direct(l, c, a, segs), open <=> Failing(c, a)
  PROVE  LET R == Runs(SubSeq(c, a + 1, b)) IN
           /\ R \in Seq(Run) /\ Direct(l, c, b, Onto(l, open, segs, R))
           /\ R # << >> /\ Last(R).openEnd <=> Failing(c, b)
<1>1. PICK samples : samples = SubSeq(c, a + 1, b)
  OBVIOUS
<1>2. PICK N \in Nat : N = b - a /\ N > 0 /\ a + N = b
  OBVIOUS
<1>3. Len(c) \in Nat /\ c \in Seq(Samples)
  BY OrderedFacts
<1>4. /\ samples \in Seq(Samples) /\ Len(samples) = N
      /\ \A k \in 0..(N - 1) : samples[k + 1] = c[a + k + 1]
  BY <1>1, <1>2, <1>3
<1>5. PICK good : good = {k \in 0..N : ScanInv(l, c, a, samples, segs, open, k)}
  OBVIOUS
<1>6. 0 \in good
  BY <1>5, ScanStart
<1>7. ASSUME NEW k \in 0..(N - 1), k \in good PROVE k + 1 \in good
  <2>1. /\ k \in Nat /\ k + 1 \in 0..N /\ a + k + 1 \in 1..Len(c) /\ a + k + 1 \in (a + 1)..b
        /\ k > 0 => a + k \in (a + 1)..b /\ a + k \in 1..Len(c)
    BY <1>2, <1>3
  <2>2. ScanInv(l, c, a, samples, segs, open, k) /\ samples[k + 1] = c[a + k + 1]
    BY <1>4, <1>5, <1>7
  <2>3. CASE c[a + k + 1].msg = Ok
    <3>1. ScanInv(l, c, a, samples, segs, open, k + 1)
      BY <2>1, <2>2, <2>3, ScanSuccess
    <3> QED
      BY <1>5, <2>1, <3>1
  <2>4. CASE c[a + k + 1].msg # Ok /\ k > 0 /\ c[a + k].msg = c[a + k + 1].msg
    <3>1. PICK u, v : u = c[a + k].ts /\ v = c[a + k + 1].ts
      OBVIOUS
    <3>2. u \in Nat /\ v \in Nat
      BY <2>1, <2>4, <3>1, OrderedFacts
    <3>3. HourOf(u) = HourOf(v)
      BY <2>1, <2>4, <3>1
    <3>4. c[a + k + 1].ts - c[a + k].ts <= MaxAge
      BY <3>1, <3>2, <3>3, HourShort
    <3>5. ScanInv(l, c, a, samples, segs, open, k + 1)
      BY <2>1, <2>2, <2>4, <3>4, ScanExtends
    <3> QED
      BY <1>5, <2>1, <3>5
  <2>5. CASE c[a + k + 1].msg # Ok /\ (k > 0 => c[a + k].msg # c[a + k + 1].msg)
    <3>1. ScanInv(l, c, a, samples, segs, open, k + 1)
      BY <2>1, <2>2, <2>5, ScanNew
    <3> QED
      BY <1>5, <2>1, <3>1
  <2> QED
    BY <2>3, <2>4, <2>5
<1>8. ScanInv(l, c, a, samples, segs, open, N)
  <2>1. \A k \in 0..N : k \in good
    BY <1>6, <1>7, Scans!UpTo
  <2>2. N \in 0..N
    OBVIOUS
  <2> QED
    BY <1>5, <2>1, <2>2
<1>9. PICK r : r = Scanned(samples, N)
  OBVIOUS
<1>10. /\ r.runs \in Seq(Run) /\ Direct(l, c, b, Onto(l, open, segs, r.runs))
       /\ r.open <=> Failing(c, b)
       /\ r.open => r.runs # << >>
       /\ r.runs # << >> => ~Last(r.runs).openEnd
  <2>1. /\ r.runs \in Seq(Run) /\ Direct(l, c, a + N, Onto(l, open, segs, r.runs))
        /\ r.open <=> N > 0 /\ c[a + N].msg # Ok
        /\ N > 0 /\ c[a + N].msg # Ok => r.runs # << >>
        /\ r.runs # << >> => ~Last(r.runs).openEnd
    BY <1>8, <1>9, Zenon DEF ScanInv
  <2>2. Failing(c, b) <=> c[b].msg # Ok
    BY DEF Failing
  <2> QED
    BY <1>2, <2>1, <2>2
<1>11. Runs(samples) = IF r.open THEN ReplaceLast(r.runs, [Last(r.runs) EXCEPT !.openEnd = TRUE])
                                 ELSE r.runs
  <2>1. FoldLeft(Scan, NoSamples, samples) = r
    BY <1>4, <1>9, RunsScanned
  <2> QED
    BY <2>1, Zenon DEF Runs
<1>12. PICK R : R = Runs(samples)
  OBVIOUS
<1>13. R \in Seq(Run) /\ Direct(l, c, b, Onto(l, open, segs, R))
       /\ (R # << >> /\ Last(R).openEnd <=> Failing(c, b))
  <2>1. CASE ~r.open
    <3>1. R = r.runs
      BY <1>11, <1>12, <2>1
    <3> QED
      BY <1>10, <2>1, <3>1
  <2>2. CASE r.open
    <3>1. PICK f, x, y : f = Front(r.runs) /\ x = Last(r.runs) /\ y = [x EXCEPT !.openEnd = TRUE]
      OBVIOUS
    <3>2. f \in Seq(Run) /\ x \in Run /\ Append(f, x) = r.runs
      BY <1>10, <2>2, <3>1, FrontFacts
    <3>3. y \in Run /\ y.openEnd
      <4>1. 0 \in Nat
        OBVIOUS
      <4> QED
        BY <3>1, <3>2, <4>1, RunFacts, Zenon
    <3>4. R = Append(f, y)
      BY <1>11, <1>12, <2>2, <3>1 DEF ReplaceLast
    <3>5. R \in Seq(Run) /\ R # << >> /\ Last(R) = y
      <4>1. Append(f, y) \in Seq(Run) /\ Append(f, y) # << >> /\ Last(Append(f, y)) = y
        BY <3>2, <3>3, AppendedFacts
      <4> QED
        BY <3>4, <4>1
    <3>6. PICK u : u = Onto(l, open, segs, f)
      OBVIOUS
    <3>7. Onto(l, open, segs, Append(f, y)) = Stitch(l, open, u, y)
      BY <3>2, <3>3, <3>6, OntoEquations
    <3>8. Onto(l, open, segs, Append(f, x)) = Stitch(l, open, u, x)
      <4>1. f \in Seq(Run) /\ x \in Run
        BY <3>2
      <4> QED
        BY <3>6, <4>1, OntoEquations
    <3>9. Stitch(l, open, u, y) = Stitch(l, open, u, x)
      BY <3>1, <3>2, StitchClosed
    <3>10. Onto(l, open, segs, R) = Onto(l, open, segs, r.runs)
      BY <3>2, <3>4, <3>7, <3>8, <3>9
    <3> QED
      BY <1>10, <2>2, <3>3, <3>5, <3>10
  <2> QED
    BY <2>1, <2>2
<1> QED
  BY <1>1, <1>12, <1>13

-----------------------------------------------------------------------------
(* The hours, one after the other.                                         *)

HourAt(c, acc, i) == StitchHour(c[1], acc, c[2][i])
Hours == INSTANCE FoldProofs WITH Op <- HourAt, Pick <- Max

\* The first k hours of location l, stitched.
HoursTo(l, k) == Hours!Fold(<<l, [i \in 1..(HourNow + 1) |-> i - 1]>>, NoHours, 1..k)

\* An hour is stitched onto the hours before it.
LEMMA HoursEquations ==
  ASSUME NEW l, HourNow \in Nat, NEW k \in 0..HourNow
  PROVE  /\ HoursTo(l, 0) = NoHours
         /\ HoursTo(l, k + 1) = StitchHour(l, HoursTo(l, k), k)
<1>1. PICK H, d : H = [i \in 1..(HourNow + 1) |-> i - 1] /\ d = <<l, H>>
  OBVIOUS
<1>2. \A n \in Nat : Hours!IsFiniteSet(1..n) /\ Hours!Picks(1..n)
  BY PickLast DEF Hours!Picks, IsFiniteSet, Hours!IsFiniteSet
<1>3. Hours!Fold(d, NoHours, {}) = NoHours
  <2>1. Hours!IsFiniteSet({}) /\ Hours!Picks({})
    <3>1. 1..0 = {} /\ 0 \in Nat
      BY PickLast
    <3> QED
      BY <1>2, <3>1
  <2> QED
    BY <2>1, Hours!FoldEquations
<1>4. Hours!Fold(d, NoHours, 1..(k + 1)) = HourAt(d, Hours!Fold(d, NoHours, 1..k), k + 1)
  <2>1. PICK S, x : S = 1..(k + 1) /\ x = k + 1
    OBVIOUS
  <2>2. Hours!IsFiniteSet(S) /\ Hours!Picks(S) /\ S # {} /\ Max(S) = x /\ S \ {x} = 1..k
    <3>1. k + 1 \in Nat /\ k \in Nat
      OBVIOUS
    <3>2. Max(1..(k + 1)) = k + 1 /\ (1..(k + 1)) \ {k + 1} = 1..k /\ 1..(k + 1) # {}
      BY <3>1, PickLast
    <3>3. Hours!IsFiniteSet(1..(k + 1)) /\ Hours!Picks(1..(k + 1))
      BY <1>2, <3>1
    <3> QED
      BY <2>1, <3>2, <3>3
  <2>3. Hours!Fold(d, NoHours, S) = HourAt(d, Hours!Fold(d, NoHours, S \ {x}), x)
    BY <2>2, Hours!FoldEquations
  <2> QED
    BY <2>1, <2>2, <2>3
<1>5. \A acc : HourAt(d, acc, k + 1) = StitchHour(l, acc, k)
  <2>1. d[1] = l /\ d[2] = H
    BY <1>1
  <2>2. H[k + 1] = k
    <3>1. k + 1 \in 1..(HourNow + 1) /\ (k + 1) - 1 = k
      OBVIOUS
    <3> QED
      BY <1>1, <3>1
  <2> QED
    BY <2>1, <2>2 DEF HourAt
<1>6. 1..0 = {}
  BY PickLast
<1> QED
  BY <1>1, <1>3, <1>4, <1>5, <1>6 DEF HoursTo

\* All the hours so far, as Segments stitches them.
LEMMA StitchedHours ==
  ASSUME NEW l, HourNow \in Nat
  PROVE  Stitched(l, [i \in 1..(HourNow + 1) |-> i - 1]) = HoursTo(l, HourNow + 1)
<1>1. PICK H : H = [i \in 1..(HourNow + 1) |-> i - 1]
  OBVIOUS
<1>2. DOMAIN H = 1..(HourNow + 1)
  BY <1>1
<1>3. Stitched(l, H) = Hours!Fold(<<l, H>>, NoHours, DOMAIN H)
  BY DEF Stitched, FoldLeft, Hours!Fold, MapThenFoldSet, Hours!MapThenFoldSet, HourAt
<1> QED
  BY <1>1, <1>2, <1>3 DEF HoursTo

\* What the stitched hours before h tell of the samples before h.
HoursInv(l, h) ==
  LET acc == HoursTo(l, h)  c == checks[l]  n == Earlier(l, h) IN
  /\ Direct(l, c, n, acc.segs)
  /\ acc.open <=> Failing(c, n)
  /\ n > 0 => acc.lastHour = HourOf(c[n].ts)

\* No sample, no failure.
LEMMA DirectNone ==
  ASSUME NEW l, NEW c
  PROVE  Direct(l, c, 0, << >>)
<1>1. PICK q : q = << >>
  OBVIOUS
<1>2. q \in Seq(Nat \X Nat) /\ Len(q) = 0 /\ 1..0 = {} /\ ~(0 > 0)
  BY <1>1, PickLast
<1>3. StretchesTo(c, 0) = {}
  BY <1>2, Zenon DEF StretchesTo
<1>4. Lists(c, 0, q)
  BY <1>2, <1>3, Zenon DEF Lists
<1>5. FailuresOf(l, c, q) = << >>
  BY <1>2 DEF FailuresOf
<1> QED
  BY <1>4, <1>5 DEF Direct

\* One more hour.
LEMMA HoursStep ==
  ASSUME SamplesInv, NEW l \in Locations, HourNow \in Nat, NEW h \in 0..HourNow, HoursInv(l, h)
  PROVE  HoursInv(l, h + 1)
<1>1. PICK c : c = checks[l]
  OBVIOUS
<1>2. Ordered(c, now) /\ h \in Nat
  BY <1>1 DEF SamplesInv
<1>3. PICK a \in 0..Len(c), b \in 0..Len(c) :
        /\ a <= b /\ OlderThan(c, h) = 1..a /\ OlderThan(c, h + 1) = 1..b
        /\ Earlier(l, h) = a /\ Earlier(l, h + 1) = b
        /\ InHour(l, h) = SubSeq(c, a + 1, b)
  BY <1>1, <1>2, HourSamples
<1>4. Len(c) \in Nat /\ a \in Nat /\ b \in Nat /\ b <= Len(c) /\ c \in Seq(Samples)
  BY <1>2, OrderedFacts
<1>5. PICK acc, new : acc = HoursTo(l, h) /\ new = HoursTo(l, h + 1)
  OBVIOUS
<1>6. new = StitchHour(l, acc, h)
  BY <1>5, HoursEquations
<1>7. /\ Direct(l, c, a, acc.segs)
      /\ acc.open <=> Failing(c, a)
      /\ a > 0 => acc.lastHour = HourOf(c[a].ts)
  BY <1>1, <1>3, <1>5, Zenon DEF HoursInv
<1>8. /\ Direct(l, c, b, new.segs)
      /\ new.open <=> Failing(c, b)
      /\ b > 0 => new.lastHour = HourOf(c[b].ts)
  <2>1. CASE a = b
    <3>1. SubSeq(c, a + 1, b) = << >>
      BY <1>4, <2>1
    <3>2. new = acc
      BY <1>3, <1>6, <3>1, Zenon DEF StitchHour
    <3> QED
      BY <1>7, <2>1, <3>2
  <2>2. CASE a < b
    <3>1. ASSUME NEW i \in (a + 1)..b PROVE HourOf(c[i].ts) = h
      <4>1. i \in 1..b /\ i \notin 1..a /\ i \in 1..Len(c)
        BY <1>4
      <4>2. i \in OlderThan(c, h + 1) /\ i \notin OlderThan(c, h) /\ i \in DOMAIN c
        BY <1>2, <1>3, <4>1, OrderedFacts
      <4>3. c[i].ts \in Nat
        BY <1>2, <4>1, OrderedFacts
      <4>4. PICK k \in Nat : k = HourOf(c[i].ts)
        BY <4>3, HourFacts
      <4>5. k < h + 1 /\ ~(k < h)
        BY <4>2, <4>4 DEF OlderThan
      <4> QED
        BY <1>2, <4>4, <4>5
    <3>2. PICK R : R = Runs(SubSeq(c, a + 1, b))
      OBVIOUS
    <3>3. PICK open : open = acc.open
      OBVIOUS
    <3>4. /\ R \in Seq(Run) /\ Direct(l, c, b, Onto(l, open, acc.segs, R))
          /\ R # << >> /\ Last(R).openEnd <=> Failing(c, b)
      <4>1. open <=> Failing(c, a)
        BY <1>7, <3>3
      <4> QED
        BY <1>2, <1>4, <1>7, <2>2, <3>1, <3>2, <4>1, HourRuns
    <3>5. InHour(l, h) # << >>
      <4>1. Len(SubSeq(c, a + 1, b)) = b - a /\ b - a # 0
        BY <1>4, <2>2
      <4> QED
        BY <1>3, <4>1
    <3>6. new = [segs |-> Onto(l, open, acc.segs, R),
                 open |-> R # << >> /\ Last(R).openEnd, lastHour |-> h]
      <4>1. StitchHour(l, acc, h) =
              IF InHour(l, h) = << >> THEN acc
              ELSE [segs |-> Onto(l, acc.open, acc.segs, R),
                    open |-> R # << >> /\ Last(R).openEnd, lastHour |-> h]
        <5>1. R \in Seq(Run)
          BY <3>4
        <5>2. R = Runs(InHour(l, h))
          BY <1>3, <3>2
        <5> QED
          BY <5>1, <5>2, HourStitched
      <4> QED
        BY <1>6, <3>3, <3>5, <4>1, Zenon
    <3>7. new.segs = Onto(l, open, acc.segs, R) /\ new.lastHour = h
          /\ (new.open <=> R # << >> /\ Last(R).openEnd)
      BY <3>6
    <3>8. HourOf(c[b].ts) = h
      <4>1. b \in (a + 1)..b
        BY <1>4, <2>2
      <4> QED
        BY <3>1, <4>1
    <3> QED
      BY <3>4, <3>7, <3>8
  <2> QED
    BY <1>3, <1>4, <2>1, <2>2
<1> QED
  BY <1>1, <1>3, <1>5, <1>8, Zenon DEF HoursInv

\* The hours until now, stitched: the failures of all the samples.
LEMMA HoursDirect ==
  ASSUME SamplesInv, NEW l \in Locations
  PROVE  /\ HourNow \in Nat
         /\ Direct(l, checks[l], Len(checks[l]), HoursTo(l, HourNow + 1).segs)
         /\ HoursTo(l, HourNow + 1).open <=> Failing(checks[l], Len(checks[l]))
         /\ Len(checks[l]) > 0 =>
              HoursTo(l, HourNow + 1).lastHour = HourOf(checks[l][Len(checks[l])].ts)
<1>1. PICK c : c = checks[l]
  OBVIOUS
<1>2. Ordered(c, now) /\ now \in Nat
  BY <1>1 DEF SamplesInv
<1>3. HourNow \in Nat
  BY <1>2, HourFacts DEF HourNow
<1>4. PICK N \in Nat : N = HourNow + 1 /\ N - 1 = HourNow
  BY <1>3
<1>5. PICK good : good = {h \in 0..N : HoursInv(l, h)}
  OBVIOUS
<1>6. 0 \in good
  <2>1. Earlier(l, 0) = 0
    <3>1. OlderThan(c, 0) = {}
      <4>1. \A i \in DOMAIN c : HourOf(c[i].ts) \in Nat
        BY <1>2, OrderedFacts, HourFacts
      <4> QED
        BY <4>1 DEF OlderThan
    <3> QED
      BY <1>1, <3>1, FS_EmptySet DEF Earlier, OlderThan
  <2>2. HoursTo(l, 0) = NoHours
    BY <1>3, HoursEquations
  <2>3. HoursTo(l, 0).segs = << >> /\ ~HoursTo(l, 0).open
    BY <2>2 DEF NoHours
  <2>4. Direct(l, c, 0, << >>)
    BY DirectNone
  <2>5. ~(0 > 0) /\ 0 \in 0..N
    OBVIOUS
  <2>6. HoursInv(l, 0)
    BY <1>1, <2>1, <2>3, <2>4, <2>5, Zenon DEF HoursInv, Failing
  <2> QED
    BY <1>5, <2>5, <2>6
<1>7. ASSUME NEW h \in 0..(N - 1), h \in good PROVE h + 1 \in good
  <2>1. h \in 0..HourNow /\ h + 1 \in 0..N /\ HoursInv(l, h)
    BY <1>4, <1>5, <1>7
  <2>2. HoursInv(l, h + 1)
    BY <1>3, <2>1, HoursStep
  <2> QED
    BY <1>5, <2>1, <2>2
<1>8. HoursInv(l, HourNow + 1)
  <2>1. \A h \in 0..N : h \in good
    BY <1>6, <1>7, Scans!UpTo
  <2>2. N \in 0..N
    OBVIOUS
  <2> QED
    BY <1>4, <1>5, <2>1, <2>2
<1>9. Earlier(l, HourNow + 1) = Len(c)
  <2>1. PICK n \in 0..Len(c) : OlderThan(c, HourNow + 1) = 1..n
                               /\ Cardinality(OlderThan(c, HourNow + 1)) = n
    <3>1. PICK m \in Nat : m = HourNow + 1
      BY <1>3
    <3>2. \E n \in 0..Len(c) : OlderThan(c, m) = 1..n /\ Cardinality(OlderThan(c, m)) = n
      BY <1>2, OlderFirst
    <3> QED
      BY <3>1, <3>2
  <2>2. \A i \in 1..Len(c) : HourOf(c[i].ts) < HourNow + 1
    <3> SUFFICES ASSUME NEW i \in 1..Len(c) PROVE HourOf(c[i].ts) < HourNow + 1
      OBVIOUS
    <3>1. PICK u \in Nat : u = c[i].ts /\ u <= now
      BY <1>2, OrderedFacts
    <3>2. HourOf(u) <= HourOf(now) /\ HourOf(u) \in Nat
      BY <1>2, <3>1, HourFacts
    <3> QED
      BY <1>3, <3>1, <3>2 DEF HourNow
  <2>3. OlderThan(c, HourNow + 1) = 1..Len(c)
    BY <1>2, <2>2, OrderedFacts DEF OlderThan
  <2>4. n = Len(c)
    <3>1. Len(c) \in Nat /\ n \in Nat /\ 1..n = 1..Len(c)
      BY <1>2, <2>1, <2>3, OrderedFacts
    <3> QED
      BY <3>1, SameInterval
  <2> QED
    BY <1>1, <2>1, <2>4 DEF Earlier, OlderThan
<1> QED
  BY <1>1, <1>3, <1>8, <1>9, Zenon DEF HoursInv

-----------------------------------------------------------------------------
(* StitchedIsDirect and IncidentsPartition, of every reachable state.      *)

\* What StitchedIsDirect says of the stretch p.
Expected(l, live, p) ==
  [loc |-> l, msg |-> checks[l][p[1]].msg,
   start |-> checks[l][p[1]].ts, end |-> checks[l][p[2]].ts,
   count |-> p[2] - p[1] + 1,
   ongoing |-> live /\ p[2] = Len(checks[l])
                    /\ HourOf(checks[l][p[2]].ts) * Hour >= now - MaxAge]

\* The segments are what is expected of a list of the stretches.
LEMMA SegmentsListed ==
  ASSUME SamplesInv, NEW l \in Locations, NEW live \in BOOLEAN
  PROVE  \E q : /\ Lists(checks[l], Len(checks[l]), q)
                /\ Segments(l, live) \in Seq(Failure) /\ Len(Segments(l, live)) = Len(q)
                /\ \A i \in 1..Len(q) : Segments(l, live)[i] = Expected(l, live, q[i])
<1>1. PICK c : c = checks[l]
  OBVIOUS
<1>2. PICK n \in Nat : n = Len(c) /\ n \in 0..Len(c) /\ (n > 0 => n \in 1..Len(c)) /\ Ordered(c, now)
  <2>1. Ordered(c, now)
    BY <1>1 DEF SamplesInv
  <2>2. Len(c) \in Nat
    BY <2>1, OrderedFacts
  <2> QED
    BY <2>1, <2>2
<1>3. PICK all : all = HoursTo(l, HourNow + 1)
  OBVIOUS
<1>4. /\ HourNow \in Nat /\ Direct(l, c, n, all.segs)
      /\ all.open <=> Failing(c, n)
      /\ n > 0 => all.lastHour = HourOf(c[n].ts)
  BY <1>1, <1>2, <1>3, HoursDirect
<1>5. PICK V, U : V = Segments(l, live) /\ U = all.segs
  OBVIOUS
<1>6. PICK on \in BOOLEAN : on <=> live /\ all.open /\ Recent(all.lastHour)
  OBVIOUS
<1>7. V = IF on THEN ReplaceLast(U, [Last(U) EXCEPT !.ongoing = TRUE]) ELSE U
  <2>1. Stitched(l, [i \in 1..(HourNow + 1) |-> i - 1]) = all
    BY <1>3, <1>4, StitchedHours
  <2> QED
    BY <1>5, <1>6, <2>1, Zenon DEF Segments
<1>8. PICK q : Lists(c, n, q) /\ U = FailuresOf(l, c, q)
  BY <1>4, <1>5 DEF Direct
<1>9. PICK k \in Nat : k = Len(q)
  BY <1>8, ListFacts
<1>10. /\ U \in Seq(Failure) /\ Len(U) = k
       /\ \A i \in 1..k : U[i] = FailureOf(l, c, q[i]) /\ U[i] \in Failure
  BY <1>2, <1>8, <1>9, FailuresType
<1>11. \A i \in 1..k : q[i][2] = n <=> i = k /\ n > 0 /\ c[n].msg # Ok
  BY <1>8, <1>9, LastStretch
<1>12. ASSUME NEW i \in 1..k
       PROVE  Expected(l, live, q[i]) = [U[i] EXCEPT !.ongoing = (on /\ i = k)]
  <2>1. PICK o \in BOOLEAN :
          o <=> live /\ q[i][2] = n /\ HourOf(c[q[i][2]].ts) * Hour >= now - MaxAge
    OBVIOUS
  <2>2. o <=> on /\ i = k
    <3>1. CASE q[i][2] = n
      <4>1. i = k /\ n > 0 /\ c[n].msg # Ok
        BY <1>11, <3>1
      <4>2. all.open /\ all.lastHour = HourOf(c[q[i][2]].ts)
        BY <1>4, <3>1, <4>1 DEF Failing
      <4> QED
        BY <1>6, <2>1, <3>1, <4>1, <4>2 DEF Recent
    <3>2. CASE q[i][2] # n
      <4>1. ~(i = k /\ n > 0 /\ c[n].msg # Ok)
        BY <1>11, <3>2
      <4>2. ~(on /\ i = k)
        BY <1>4, <1>6, <4>1 DEF Failing
      <4> QED
        BY <2>1, <3>2, <4>2
    <3> QED
      BY <3>1, <3>2
  <2>3. PICK m, s, e, d : m = c[q[i][1]].msg /\ s = c[q[i][1]].ts /\ e = c[q[i][2]].ts
                          /\ d = q[i][2] - q[i][1] + 1
    OBVIOUS
  <2>4. U[i] = [loc |-> l, msg |-> m, start |-> s, end |-> e, count |-> d, ongoing |-> FALSE]
    BY <1>10, <2>3 DEF FailureOf
  <2>5. [U[i] EXCEPT !.ongoing = o] =
          [loc |-> l, msg |-> m, start |-> s, end |-> e, count |-> d, ongoing |-> o]
    BY <2>4
  <2>6. o = (on /\ i = k)
    BY <2>2
  <2>7. o = (live /\ q[i][2] = n /\ HourOf(c[q[i][2]].ts) * Hour >= now - MaxAge)
    BY <2>1
  <2>8. Expected(l, live, q[i]) =
          [loc |-> l, msg |-> m, start |-> s, end |-> e, count |-> d, ongoing |-> o]
    BY <1>1, <1>2, <2>3, <2>7, Zenon DEF Expected
  <2> QED
    BY <2>5, <2>6, <2>8, Zenon
<1>13. V \in Seq(Failure) /\ Len(V) = k /\ \A i \in 1..k : V[i] = [U[i] EXCEPT !.ongoing = (on /\ i = k)]
  <2>1. \A f \in Failure : [f EXCEPT !.ongoing = FALSE] = f \/ f.ongoing
    BY DEF Failure
  <2>2. \A i \in 1..k : ~U[i].ongoing
    BY <1>10 DEF FailureOf
  <2>3. \A i \in 1..k : [U[i] EXCEPT !.ongoing = FALSE] = U[i]
    BY <1>10, <2>1, <2>2
  <2>4. CASE ~on
    <3>1. V = U
      BY <1>7, <2>4
    <3>2. \A i \in 1..k : (on /\ i = k) = FALSE
      BY <2>4
    <3>3. ASSUME NEW i \in 1..k PROVE V[i] = [U[i] EXCEPT !.ongoing = (on /\ i = k)]
      BY <2>3, <3>1, <3>2, Zenon
    <3> QED
      BY <1>10, <3>1, <3>3
  <2>5. CASE on
    <3>1. n > 0 /\ c[n].msg # Ok
      BY <1>4, <1>6, <2>5 DEF Failing
    <3>2. q # << >>
      BY <1>8, <3>1 DEF Lists
    <3>3. k > 0 /\ k \in 1..k /\ U # << >>
      <4>1. q \in Seq(Nat \X Nat)
        BY <1>8 DEF Lists
      <4>2. k # 0
        BY <1>9, <3>2, <4>1
      <4> QED
        BY <1>10, <4>2
    <3>4. PICK x : x = [U[k] EXCEPT !.ongoing = TRUE]
      OBVIOUS
    <3>5. x \in Failure
      BY <1>10, <3>3, <3>4 DEF Failure
    <3>6. V = ReplaceLast(U, x)
      BY <1>7, <1>10, <2>5, <3>4 DEF Last
    <3>7. V \in Seq(Failure) /\ Len(V) = k /\ V[k] = x /\ \A i \in 1..k : i # k => V[i] = U[i]
      <4>1. /\ ReplaceLast(U, x) \in Seq(Failure) /\ Len(ReplaceLast(U, x)) = Len(U)
            /\ ReplaceLast(U, x)[Len(U)] = x
            /\ \A i \in 1..Len(U) : i # Len(U) => ReplaceLast(U, x)[i] = U[i]
        <5>1. U \in Seq(Failure) /\ U # << >> /\ x \in Failure
          BY <1>10, <3>3, <3>5
        <5> QED
          BY <5>1, LastReplaced
      <4> QED
        BY <1>10, <3>6, <4>1, Zenon
    <3>8. ASSUME NEW i \in 1..k PROVE V[i] = [U[i] EXCEPT !.ongoing = (on /\ i = k)]
      <4>1. CASE i = k
        <5>1. (on /\ i = k) = TRUE
          BY <2>5, <4>1
        <5> QED
          BY <3>4, <3>7, <4>1, <5>1, Zenon
      <4>2. CASE i # k
        <5>1. (on /\ i = k) = FALSE
          BY <4>2
        <5> QED
          BY <2>3, <3>7, <4>2, <5>1, Zenon
      <4> QED
        BY <4>1, <4>2
    <3> QED
      BY <3>7, <3>8
  <2> QED
    BY <2>4, <2>5
<1>14. Lists(checks[l], Len(checks[l]), q)
  BY <1>1, <1>2, <1>8
<1>15. \A i \in 1..Len(q) : V[i] = Expected(l, live, q[i])
  BY <1>9, <1>12, <1>13
<1> QED
  BY <1>5, <1>9, <1>13, <1>14, <1>15

\* Stretches is StretchesTo, of all the samples.
LEMMA StretchesAre ==
  ASSUME NEW l, DOMAIN checks[l] = 1..Len(checks[l])
  PROVE  Stretches(l) = StretchesTo(checks[l], Len(checks[l]))
BY DEF Stretches, StretchesTo, Joined, JoinedAt

\* What StitchedIsDirect says of one location.
LEMMA SegmentsDirect ==
  ASSUME SamplesInv, NEW l \in Locations, NEW live \in BOOLEAN
  PROVE  /\ ToSet(Segments(l, live)) = {Expected(l, live, p) : p \in Stretches(l)}
         /\ Len(Segments(l, live)) = Cardinality(Stretches(l))
<1>1. PICK c : c = checks[l]
  OBVIOUS
<1>2. PICK n \in Nat : n = Len(c) /\ DOMAIN c = 1..n
  <2>1. Ordered(c, now)
    BY <1>1 DEF SamplesInv
  <2> QED
    BY <2>1, OrderedFacts
<1>3. PICK V : V = Segments(l, live)
  OBVIOUS
<1>4. PICK q : /\ Lists(c, n, q) /\ V \in Seq(Failure) /\ Len(V) = Len(q)
               /\ \A i \in 1..Len(q) : V[i] = Expected(l, live, q[i])
  BY <1>1, <1>2, <1>3, SegmentsListed
<1>5. PICK k \in Nat :
        /\ k = Len(q) /\ q \in Seq(Nat \X Nat)
        /\ \A i \in 1..k : /\ q[i][1] \in 1..n /\ q[i][2] \in 1..n /\ q[i][1] <= q[i][2]
                           /\ c[q[i][1]].msg # Ok /\ c[q[i][1]].msg = c[q[i][2]].msg
                           /\ q[i] \in StretchesTo(c, n)
        /\ \A i, j \in 1..k : i < j => q[i][2] < q[j][1]
  BY <1>4, ListFacts, Zenon
<1>6. PICK S : S = Stretches(l)
  OBVIOUS
<1>7. S = StretchesTo(c, n)
  BY <1>1, <1>2, <1>6, StretchesAre
<1>8. \A p : p \in S <=> \E i \in 1..k : p = q[i]
  BY <1>4, <1>5, <1>7, Zenon DEF Lists
<1>9. ToSet(V) = {V[i] : i \in 1..k}
  <2>1. DOMAIN V = 1..k
    BY <1>4, <1>5
  <2> QED
    BY <2>1 DEF ToSet
<1>10. ToSet(V) = {Expected(l, live, p) : p \in S}
  <2>1. \A i \in 1..k : V[i] = Expected(l, live, q[i])
    BY <1>4, <1>5
  <2>2. PICK W, X : W = ToSet(V) /\ X = {Expected(l, live, p) : p \in S}
    OBVIOUS
  <2>3. ASSUME NEW x \in W PROVE x \in X
    <3>1. PICK i \in 1..k : x = V[i]
      BY <1>9, <2>2
    <3>2. x = Expected(l, live, q[i]) /\ q[i] \in S
      BY <1>8, <2>1, <3>1
    <3> QED
      BY <2>2, <3>2, Zenon
  <2>4. ASSUME NEW x \in X PROVE x \in W
    <3>1. PICK p \in S : x = Expected(l, live, p)
      BY <2>2, Zenon
    <3>2. PICK i \in 1..k : p = q[i]
      BY <1>8
    <3>3. x = V[i]
      BY <2>1, <3>1, <3>2, Zenon
    <3> QED
      BY <1>9, <2>2, <3>3
  <2> QED
    BY <2>2, <2>3, <2>4
<1>11. Cardinality(S) = k
  <2>1. q \in [1..k -> S]
    BY <1>5, <1>8
  <2>2. \A i, j \in 1..k : q[i] = q[j] => i = j
    <3> SUFFICES ASSUME NEW i \in 1..k, NEW j \in 1..k, q[i] = q[j], i < j PROVE FALSE
      OBVIOUS
    <3>1. q[i][2] < q[j][1] /\ q[j][1] <= q[j][2] /\ q[j][1] \in 1..n /\ q[j][2] \in 1..n
      BY <1>5
    <3> QED
      BY <3>1
  <2>3. q \in Injection(1..k, S)
    BY <2>1, <2>2 DEF Injection, IsInjective
  <2>4. q \in Surjection(1..k, S)
    BY <1>8, <2>1 DEF Surjection
  <2>5. ExistsBijection(1..k, S)
    BY <2>3, <2>4 DEF ExistsBijection, Bijection
  <2>6. IsFiniteSet(1..k) /\ Cardinality(1..k) = k
    <3>1. 1 \in Int /\ k \in Int /\ (IF 1 > k THEN 0 ELSE k - 1 + 1) = k
      OBVIOUS
    <3> QED
      BY <3>1, FS_Interval
  <2> QED
    BY <2>5, <2>6, FS_Bijection
<1> QED
  BY <1>3, <1>4, <1>5, <1>6, <1>10, <1>11

\* FailureWindows: however a location's checks are cut into hours, rolling the
\* hours up and stitching their runs finds exactly the maximal runs of failures
\* of one message, and marks the one that is still ongoing.
THEOREM IncidentsStitched == Spec => []StitchedIsDirect
<1>1. SamplesInv => StitchedIsDirect
  BY SegmentsDirect DEF StitchedIsDirect, Expected
<1> QED
  BY <1>1, SamplesInOrder, PTL

\* The segments are a finite set of failures that end after they start.
LEMMA SegmentsProper ==
  ASSUME SamplesInv
  PROVE  Proper(AllSegments(TRUE))
<1>1. PICK F : F = [l \in Locations |-> ToSet(Segments(l, TRUE))]
  OBVIOUS
<1>2. ASSUME NEW l \in Locations
      PROVE  IsFiniteSet(F[l]) /\ F[l] \subseteq Failure /\ \A s \in F[l] : s.start <= s.end
  <2>1. PICK c : c = checks[l]
    OBVIOUS
  <2>2. Ordered(c, now)
    BY <2>1 DEF SamplesInv
  <2>3. PICK n \in Nat : n = Len(c)
    BY <2>2, OrderedFacts
  <2>4. PICK V : V = Segments(l, TRUE)
    OBVIOUS
  <2>5. PICK q : /\ Lists(c, n, q) /\ V \in Seq(Failure) /\ Len(V) = Len(q)
                 /\ \A i \in 1..Len(q) : V[i] = Expected(l, TRUE, q[i])
    BY <2>1, <2>3, <2>4, SegmentsListed
  <2>6. PICK k \in Nat : k = Len(q) /\ \A i \in 1..k :
          q[i][1] \in 1..n /\ q[i][2] \in 1..n /\ q[i][1] <= q[i][2]
    BY <2>5, ListFacts
  <2>7. V \in [1..k -> Failure]
    BY <2>5, <2>6
  <2>8. F[l] = {V[i] : i \in 1..k}
    <3>1. DOMAIN V = 1..k
      BY <2>7
    <3>2. F[l] = ToSet(V)
      BY <1>1, <2>4
    <3> QED
      BY <3>1, <3>2 DEF ToSet
  <2>9. V \in Surjection(1..k, F[l])
    <3>1. V \in [1..k -> F[l]]
      BY <2>7, <2>8
    <3> QED
      BY <2>8, <3>1 DEF Surjection
  <2>10. IsFiniteSet(F[l])
    <3>1. IsFiniteSet(1..k)
      BY FS_Interval
    <3> QED
      BY <2>9, <3>1, FS_Surjection
  <2>11. ASSUME NEW i \in 1..k PROVE V[i].start <= V[i].end
    <3>1. V[i].start = c[q[i][1]].ts /\ V[i].end = c[q[i][2]].ts
      <4>1. PICK p : p = q[i]
        OBVIOUS
      <4>2. V[i] = Expected(l, TRUE, p)
        BY <2>5, <2>6, <4>1
      <4>3. Expected(l, TRUE, p).start = c[p[1]].ts /\ Expected(l, TRUE, p).end = c[p[2]].ts
        BY <2>1 DEF Expected
      <4> QED
        BY <4>1, <4>2, <4>3
    <3>2. PICK a \in 1..Len(c), b \in 1..Len(c) : a = q[i][1] /\ b = q[i][2] /\ a <= b
      BY <2>3, <2>6
    <3>3. c[a].ts \in Nat /\ c[b].ts \in Nat /\ (a < b => c[a].ts < c[b].ts)
      BY <2>2, OrderedFacts
    <3>4. c[a].ts <= c[b].ts
      <4>1. CASE a = b
        BY <3>3, <4>1
      <4>2. CASE a # b
        BY <3>2, <3>3, <4>2
      <4> QED
        BY <4>1, <4>2
    <3> QED
      BY <3>1, <3>2, <3>4
  <2> QED
    BY <2>7, <2>8, <2>10, <2>11
<1>3. PICK A : A = {F[l] : l \in Locations}
  OBVIOUS
<1>4. F \in Surjection(Locations, A)
  BY <1>1, <1>3 DEF Surjection
<1>5. IsFiniteSet(A)
  BY <1>4, IncidentsAssumption, FS_Surjection
<1>6. IsFiniteSet(UNION A)
  BY <1>2, <1>3, <1>5, FS_UNION
<1>7. AllSegments(TRUE) = UNION A
  BY <1>1, <1>3 DEF AllSegments
<1> QED
  BY <1>2, <1>3, <1>6, <1>7 DEF Proper

\* The incidents partition the failures, in every reachable state.
THEOREM IncidentsApart == Spec => []IncidentsPartition
<1>1. SamplesInv => IncidentsPartition
  <2> SUFFICES ASSUME SamplesInv PROVE IncidentsPartition
    OBVIOUS
  <2>1. Partitioned(AllSegments(TRUE))
    BY SegmentsProper, MergePartitions
  <2> QED
    BY <2>1, Zenon DEF Partitioned, IncidentsPartition
<1> QED
  BY <1>1, SamplesInOrder, PTL
=============================================================================

------------------------------ MODULE ClusterApi ------------------------------
(***************************************************************************)
(* What the operator's controller sees of Kubernetes, for ONE              *)
(* EndpointMonitor: the stored object with its resource version, the       *)
(* manager's cache that follows it one watch event at a time, and the      *)
(* work queue that the watch, RequeueAfter and errors fill.  All of it is  *)
(* outside the repository; it is modelled from how                         *)
(* internal/controller/endpointmonitor_controller.go uses it.              *)
(***************************************************************************)
EXTENDS Naturals, Sequences

CONSTANTS
  MaxTime,        \* the clock's horizon
  MaxEdits        \* how many times users edit, delete or create the monitor

ASSUME ClusterAssumption == MaxTime \in Nat \ {0} /\ MaxEdits \in Nat

VARIABLES
  store,          \* the object the API server holds
  cached,         \* the object the manager's cache holds
  events,         \* versions the watch has not delivered to the cache yet
  queued,         \* the monitor's key is in the work queue
  wakeAt,         \* when the delaying queue adds the key again, or Never
  clock,          \* wall clock, in seconds
  edits           \* user actions so far

clusterVars == <<store, cached, events, queued, wakeAt, clock, edits>>

Statuses == {"success", "failure"}
Never == 0

(***************************************************************************)
(* An EndpointMonitor: metadata (rv, uid, generation), the one spec field  *)
(* the reconciler branches on (whether checkInterval is in range), and     *)
(* its status.  "" is an empty string, 0 the zero time, and noti = "absent"*)
(* a nil LastNotifiedStatus.                                               *)
(***************************************************************************)
Monitor == [rv: Nat, uid: Nat, live: BOOLEAN, valid: BOOLEAN, gen: Nat,
            obs: Nat, last: Statuses \cup {""}, since: Nat,
            noti: Statuses \cup {"", "absent"}, notiSince: Nat, checked: Nat]

Created(uid, rv, valid) ==
  [rv |-> rv, uid |-> uid, live |-> TRUE, valid |-> valid, gen |-> 1,
   obs |-> 0, last |-> "", since |-> 0, noti |-> "absent", notiSince |-> 0,
   checked |-> 0]

\* A status written before LastNotifiedStatus existed.
Legacy(status) ==
  [Created(1, 1, TRUE) EXCEPT !.last = status, !.since = 1, !.checked = 1]

\* The status subresource of an object.
StatusOf(m) == [obs |-> m.obs, last |-> m.last, since |-> m.since,
                noti |-> m.noti, notiSince |-> m.notiSince,
                checked |-> m.checked]

-----------------------------------------------------------------------------
(* The API server accepts a status update only of the version it holds.    *)

Accepts(m) == store.live /\ store.rv = m.rv

\* A write gives the object its next version and sends it down the watch.
Put(m) ==
  /\ store' = [m EXCEPT !.rv = store.rv + 1]
  /\ events' = Append(events, [m EXCEPT !.rv = store.rv + 1])

(***************************************************************************)
(* The work queue.  AddAfter keeps the earlier of two times, and an        *)
(* error's AddRateLimited may come back at once.                           *)
(***************************************************************************)
AddAfter(t) == wakeAt' = IF wakeAt = Never \/ t < wakeAt THEN t ELSE wakeAt

TimerFires ==
  /\ wakeAt # Never /\ wakeAt <= clock
  /\ queued' = TRUE /\ wakeAt' = Never
  /\ UNCHANGED <<store, cached, events, clock, edits>>

(***************************************************************************)
(* The watch delivers the next version.  GenerationChangedPredicate lets   *)
(* creations and deletions through, and updates that change the            *)
(* generation; status updates do not.                                      *)
(***************************************************************************)
Passes(old, new) == old.live # new.live \/ old.gen # new.gen

Deliver ==
  /\ events # << >>
  /\ cached' = Head(events) /\ events' = Tail(events)
  /\ queued' = (queued \/ Passes(cached, Head(events)))
  /\ UNCHANGED <<store, wakeAt, clock, edits>>

Tick ==
  /\ clock < MaxTime
  /\ clock' = clock + 1
  /\ UNCHANGED <<store, cached, events, queued, wakeAt, edits>>

-----------------------------------------------------------------------------
(* What users do to the object.                                            *)

UserAct == edits < MaxEdits /\ edits' = edits + 1
              /\ UNCHANGED <<cached, queued, wakeAt, clock>>

\* A spec edit starts a new generation; a label or annotation edit does not.
EditSpec ==
  /\ store.live /\ UserAct
  /\ \E valid \in BOOLEAN : Put([store EXCEPT !.gen = @ + 1, !.valid = valid])

EditMeta == store.live /\ UserAct /\ Put(store)

Delete == store.live /\ UserAct /\ Put([store EXCEPT !.live = FALSE])

Recreate ==
  /\ ~store.live /\ UserAct
  /\ \E valid \in BOOLEAN : Put(Created(store.uid + 1, store.rv, valid))

User == EditSpec \/ EditMeta \/ Delete \/ Recreate

ClusterInit ==
  /\ store \in {Created(1, 1, v) : v \in BOOLEAN} \cup {Legacy(s) : s \in Statuses}
  /\ cached = store /\ events = << >>
  /\ queued = TRUE /\ wakeAt = Never /\ clock = 1 /\ edits = 0

ClusterTypeOK ==
  /\ store \in Monitor /\ cached \in Monitor /\ events \in Seq(Monitor)
  /\ queued \in BOOLEAN /\ wakeAt \in Nat /\ clock \in Nat /\ edits \in Nat
=============================================================================

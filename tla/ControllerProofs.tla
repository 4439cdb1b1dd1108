---------------------------- MODULE ControllerProofs ---------------------------
(***************************************************************************)
(* Theorems about MonitorController, for every value of its constants:     *)
(* its types, the safety of alerts (AlertInv), and what the controller     *)
(* promises (PromiseInv and FollowInv).                                    *)
(***************************************************************************)
EXTENDS MonitorController, TLAPS

-----------------------------------------------------------------------------
(* The records the actions build have their types.                         *)

\* A new object is a Monitor.
LEMMA CreatedType ==
  ASSUME NEW uid \in Nat, NEW rv \in Nat, NEW valid \in BOOLEAN
  PROVE  Created(uid, rv, valid) \in Monitor
BY DEF Created, Monitor, Statuses

\* A Monitor with another version is a Monitor.
LEMMA VersionType ==
  ASSUME NEW m \in Monitor, NEW n \in Nat
  PROVE  [m EXCEPT !.rv = n] \in Monitor
BY DEF Monitor

\* A write keeps the types of the object and of the watch's events.
LEMMA PutType ==
  ASSUME ClusterTypeOK, NEW m \in Monitor, Put(m)
  PROVE  store' \in Monitor /\ events' \in Seq(Monitor)
<1>0. store \in Monitor /\ events \in Seq(Monitor)
  BY DEF ClusterTypeOK
<1>1. store.rv \in Nat
  BY <1>0 DEF Monitor
<1>2. [m EXCEPT !.rv = store.rv + 1] \in Monitor
  BY <1>1, VersionType
<1> QED
  BY <1>0, <1>2 DEF Put

\* What a check writes is a Monitor.
LEMMA CheckedType ==
  ASSUME NEW m \in Monitor, NEW status \in Statuses, NEW now \in Nat
  PROVE  Checked(m, status, now) \in Monitor
BY DEF Checked, Notified, NotifiedSince, Monitor, Statuses

\* Recording an announcement keeps a Monitor a Monitor.
LEMMA AnnouncedType ==
  ASSUME NEW m \in Monitor
  PROVE  Announced(m) \in Monitor
BY DEF Announced, Monitor, Statuses

\* A typed goroutine with one field changed, to a value of its type, is typed.
LEMMA RunType ==
  ASSUME NEW run \in Run,
         NEW pc \in {"off", "wait", "send", "mark", "write", "note", "exit"},
         NEW n \in Nat, NEW b \in BOOLEAN
  PROVE  /\ [run EXCEPT !.pc = pc] \in Run
         /\ [run EXCEPT !.stop = b] \in Run
         /\ [run EXCEPT !.pc = pc, !.try = run.try + 1] \in Run
         /\ [run EXCEPT !.pc = pc, !.copy = n, !.attempt = run.attempt + 1] \in Run
         /\ [Off EXCEPT !.stop = b] \in Run
         /\ Off \in Run
<1>0. run.try \in Nat /\ run.attempt \in Nat
  BY DEF Run
<1>1. run.try + 1 \in Nat /\ run.attempt + 1 \in Nat
  BY <1>0
<1>2. Off \in Run
  BY DEF Run, Off, Statuses
<1>3. [run EXCEPT !.pc = pc] \in Run
  BY DEF Run
<1>4. [run EXCEPT !.stop = b] \in Run
  BY DEF Run
<1>5. \A k \in Nat : [run EXCEPT !.pc = pc, !.try = k] \in Run
  BY DEF Run
<1>6. \A k \in Nat : [run EXCEPT !.pc = pc, !.copy = n, !.attempt = k] \in Run
  BY DEF Run
<1>7. [Off EXCEPT !.stop = b] \in Run
  BY <1>2 DEF Run
<1> QED
  BY <1>1, <1>2, <1>3, <1>4, <1>5, <1>6, <1>7

\* The goroutine that queueRetries starts is typed and at its second try.
LEMMA NewRunType ==
  ASSUME mon \in Monitor, NEW marks \in BOOLEAN
  PROVE  NewRun(marks) \in Run /\ NewRun(marks).try = 2 /\ NewRun(marks).pc = "wait"
         /\ NewRun(marks).status = mon.last /\ NewRun(marks).uid = mon.uid
         /\ NewRun(marks).marks = marks
<1>1. mon.last \in Statuses \cup {""} /\ mon.since \in Nat /\ mon.uid \in Nat
  BY DEF Monitor
<1> QED
  BY <1>1 DEF NewRun, Off, Run, Statuses

\* Returning from Reconcile leaves typed locals and a typed queue.
LEMMA FinishType ==
  ASSUME ReconcilerTypeOK, Finish
  PROVE  ReconcilerTypeOK'
<1>1. NoCopy \in Monitor
  BY CreatedType DEF NoCopy
<1> QED
  BY <1>1 DEF ReconcilerTypeOK, Finish, NoLocals, Statuses

\* AddAfter leaves a time in the delaying queue.
LEMMA AddAfterType ==
  ASSUME wakeAt \in Nat, NEW t \in Nat, AddAfter(t)
  PROVE  wakeAt' \in Nat
BY DEF AddAfter

\* Counting a fault or a failing setup keeps the bounds typed.
LEMMA FaultType ==
  ASSUME used \in [crashes: Nat, faults: Nat, setups: Nat], Fault \/ SetupFault
  PROVE  used' \in [crashes: Nat, faults: Nat, setups: Nat]
<1>1. CASE Fault
  BY <1>1 DEF Fault
<1>2. CASE SetupFault
  BY <1>2 DEF SetupFault
<1> QED
  BY <1>1, <1>2

\* Moving a live goroutine to another step keeps the retries' types and tries.
LEMMA GotoType ==
  ASSUME RetryTypeOK, TriesBounded, NEW r \in RunIds, Live(r), UNCHANGED <<pending, wrote>>,
         NEW pc \in {"wait", "send", "mark", "write", "note", "exit"}, Goto(r, pc)
  PROVE  RetryTypeOK' /\ TriesBounded'
<1>1. [runs[r] EXCEPT !.pc = pc] \in Run
  BY RunType DEF RetryTypeOK
<1>2. [runs[r] EXCEPT !.pc = pc].try = runs[r].try
  BY DEF RetryTypeOK, Run
<1>3. runs' = [runs EXCEPT ![r] = [runs[r] EXCEPT !.pc = pc]]
  BY DEF Goto, RetryTypeOK
<1> QED
  BY <1>1, <1>2, <1>3 DEF RetryTypeOK, TriesBounded, Live

\* Queueing retries keeps the types and starts every new run at try 2.
LEMMA QueueRetriesType ==
  ASSUME RetryTypeOK, TriesBounded, mon \in Monitor, debts \subseteq RunIds,
         NEW kind \in Kinds, NEW sent, QueueRetries(kind, sent)
  PROVE  RetryTypeOK' /\ TriesBounded' /\ debts' \subseteq RunIds
<1> DEFINE new == {kind} \X Retried(sent)
           fresh == NewRun(kind = "change" /\ OnlyFailure(sent))
<1>1. new \subseteq RunIds
  BY DEF RunIds, Retried
<1>2. fresh \in Run /\ fresh.try = 2
  BY NewRunType
<1>3. runs' = [r \in RunIds |-> IF r \in new THEN fresh ELSE runs[r]]
  BY DEF QueueRetries
<1>4. ASSUME NEW r \in new  PROVE Tries >= 2
  BY DEF Retried
<1>5. RetryTypeOK' /\ debts' \subseteq RunIds
  BY <1>1, <1>2, <1>3 DEF QueueRetries, RetryTypeOK
<1>6. ASSUME NEW r \in RunIds, Live(r)'  PROVE runs'[r].try \in 2..Tries
  <2>1. CASE r \in new
    BY <2>1, <1>2, <1>3, <1>4, ControllerAssumption DEF ControllerAssumption
  <2>2. CASE r \notin new
    BY <2>2, <1>3, <1>6 DEF TriesBounded, Live
  <2> QED
    BY <2>1, <2>2
<1> QED
  BY <1>5, <1>6 DEF TriesBounded

\* The steps of the watch, the queue, the clock and the users.
LEMMA ClusterStepType ==
  ASSUME ClusterTypeOK, TimerFires \/ Deliver \/ Tick \/ User
  PROVE  ClusterTypeOK'
<1>0. /\ store \in Monitor /\ cached \in Monitor /\ events \in Seq(Monitor)
      /\ queued \in BOOLEAN /\ wakeAt \in Nat /\ clock \in Nat /\ edits \in Nat
  BY DEF ClusterTypeOK
<1>1. CASE TimerFires
  BY <1>0, <1>1 DEF TimerFires, ClusterTypeOK, Never
<1>2. CASE Deliver
  <2>1. Head(events) \in Monitor /\ Tail(events) \in Seq(Monitor)
    BY <1>0, <1>2 DEF Deliver
  <2>2. queued' \in BOOLEAN
    BY <1>2 DEF Deliver
  <2> QED
    BY <1>0, <1>2, <2>1, <2>2 DEF Deliver, ClusterTypeOK
<1>3. CASE Tick
  BY <1>0, <1>3 DEF Tick, ClusterTypeOK
<1>4. CASE User
  <2>1. store.gen \in Nat /\ store.uid \in Nat /\ store.rv \in Nat
    BY <1>0 DEF Monitor
  <2>2. \A n \in Nat, b \in BOOLEAN : /\ [store EXCEPT !.gen = n, !.valid = b] \in Monitor
                                     /\ [store EXCEPT !.live = b] \in Monitor
    BY <1>0 DEF Monitor
  <2>3. PICK m \in Monitor : UserAct /\ Put(m)
    <3>1. CASE EditSpec
      <4>1. PICK b \in BOOLEAN : Put([store EXCEPT !.gen = store.gen + 1, !.valid = b])
        BY <3>1 DEF EditSpec
      <4>2. store.gen + 1 \in Nat
        BY <2>1
      <4>3. [store EXCEPT !.gen = store.gen + 1, !.valid = b] \in Monitor
        BY <4>2, <1>0 DEF Monitor
      <4> QED
        BY <4>1, <4>3, <3>1 DEF EditSpec
    <3>2. CASE EditMeta
      BY <3>2, <1>0 DEF EditMeta
    <3>3. CASE Delete
      <4>1. [store EXCEPT !.live = FALSE] \in Monitor
        BY <2>2
      <4> QED
        BY <4>1, <3>3 DEF Delete
    <3>4. CASE Recreate
      <4>1. PICK b \in BOOLEAN : Put(Created(store.uid + 1, store.rv, b))
        BY <3>4 DEF Recreate
      <4>2. Created(store.uid + 1, store.rv, b) \in Monitor
        BY <2>1, CreatedType
      <4> QED
        BY <4>1, <4>2, <3>4 DEF Recreate
    <3> QED
      BY <1>4, <3>1, <3>2, <3>3, <3>4 DEF User
  <2>4. store' \in Monitor /\ events' \in Seq(Monitor)
    BY <2>3, PutType
  <2> QED
    BY <1>0, <2>3, <2>4 DEF UserAct, ClusterTypeOK
<1> QED
  BY <1>1, <1>2, <1>3, <1>4

\* The initial states are typed.
LEMMA TypeInit == Init => TypeOK
<1> SUFFICES ASSUME Init PROVE TypeOK
  OBVIOUS
<1>1. NoCopy \in Monitor
  BY CreatedType DEF NoCopy
<1>2. \A s \in Statuses : Legacy(s) \in Monitor
  <2>1. Created(1, 1, TRUE) \in Monitor
    BY CreatedType
  <2> QED
    BY <2>1 DEF Legacy, Monitor
<1>3. store \in Monitor
  BY <1>2, CreatedType DEF Init, ClusterInit
<1>4. ClusterTypeOK
  <2>0. << >> \in Seq(Monitor)
    OBVIOUS
  <2>1. events \in Seq(Monitor)
    BY <2>0, Zenon DEF Init, ClusterInit
  <2> QED
    BY <1>3, <2>1 DEF Init, ClusterInit, ClusterTypeOK, Never
<1>5. ReconcilerTypeOK
  BY <1>1 DEF Init, ReconcilerTypeOK, NoLocals, Statuses
<1>6. Off \in Run /\ Off.pc = "off"
  BY DEF Off, Run, Statuses
<1>7. RetryTypeOK /\ TriesBounded
  BY <1>6 DEF Init, RetryTypeOK, TriesBounded, Live
<1>8. ObserverTypeOK
  BY DEF Init, ObserverTypeOK
<1> QED
  BY <1>4, <1>5, <1>7, <1>8 DEF TypeOK

\* Reconcile's steps that touch no retry: it starts, skips, reads, checks,
\* updates, or fails.
LEMMA ReconcileStepType ==
  ASSUME TypeOK,
         \/ ReconcileGone \/ ReconcileInvalid \/ ReconcileSkip \/ ReconcileDue
         \/ StopDone \/ Reread \/ Check \/ UpdateStatus \/ RecordChange \/ ReconcileFails
  PROVE  TypeOK'
<1> USE DEF TypeOK
<1>0. /\ store \in Monitor /\ cached \in Monitor /\ events \in Seq(Monitor) /\ mon \in Monitor
      /\ wakeAt \in Nat /\ clock \in Nat /\ CheckInterval \in Nat /\ SetupRetry \in Nat
      /\ locals.started \in Nat /\ queued \in BOOLEAN /\ edits \in Nat
  <2>1. CheckInterval \in Nat /\ SetupRetry \in Nat
    BY ControllerAssumption DEF ControllerAssumption
  <2>2. locals.started \in Nat
    BY DEF ReconcilerTypeOK
  <2> QED
    BY <2>1, <2>2 DEF ClusterTypeOK, ReconcilerTypeOK
<1>1. ASSUME UNCHANGED <<retryVars, observerVars, used>>
      PROVE  RetryTypeOK' /\ ObserverTypeOK' /\ TriesBounded'
  BY <1>1 DEF RetryTypeOK, ObserverTypeOK, TriesBounded, Live, retryVars, observerVars
<1>2. ASSUME UNCHANGED <<retryVars, observerVars>>, Fault \/ SetupFault
      PROVE  RetryTypeOK' /\ ObserverTypeOK' /\ TriesBounded'
  BY <1>2, FaultType DEF RetryTypeOK, ObserverTypeOK, TriesBounded, Live, retryVars, observerVars
<1>3. ASSUME StopTake, waiting' = pending, UNCHANGED <<observerVars, used>>
      PROVE  RetryTypeOK' /\ ObserverTypeOK' /\ TriesBounded' /\ waiting' \subseteq RunIds
  BY <1>3 DEF StopTake, RetryTypeOK, ObserverTypeOK, TriesBounded, Live, observerVars
<1>4. ASSUME NEW t \in Nat, ReturnAfter(t), UNCHANGED <<store, cached, events, clock, edits>>,
             queued' \in BOOLEAN
      PROVE  ClusterTypeOK' /\ ReconcilerTypeOK'
  BY <1>0, <1>4, FinishType, AddAfterType DEF ReturnAfter, ClusterTypeOK
<1>5. ASSUME ReturnDone, UNCHANGED <<store, cached, events, clock, edits>>, queued' \in BOOLEAN
      PROVE  ClusterTypeOK' /\ ReconcilerTypeOK'
  BY <1>0, <1>5, FinishType DEF ReturnDone, ClusterTypeOK
<1>6. ASSUME NEW t \in Nat, ReturnAfter(t), NEW m \in Monitor, Put(m),
             UNCHANGED <<cached, queued, clock, edits>>
      PROVE  ClusterTypeOK' /\ ReconcilerTypeOK'
  BY <1>0, <1>6, FinishType, AddAfterType, PutType DEF ReturnAfter, ClusterTypeOK
<1>7. cached.checked \in Nat
  BY <1>0 DEF Monitor
<1>10. CASE ReconcileGone
  <2>1. ClusterTypeOK'
    BY <1>0, <1>10 DEF ReconcileGone, Dequeue, ClusterTypeOK
  <2>2. [NoLocals EXCEPT !.gone = TRUE] \in
           [started: Nat, past: BOOLEAN, gone: BOOLEAN,
            notified: Statuses \cup {""}, notifiedSince: Nat]
    BY DEF NoLocals, Statuses
  <2>3. waiting' = pending
    BY <1>10 DEF ReconcileGone, StopTake
  <2> QED
    BY <1>0, <1>3, <1>10, <2>1, <2>2, <2>3 DEF ReconcileGone, ReconcilerTypeOK
<1>11. CASE ReconcileInvalid
  BY <1>1, <1>5, <1>11 DEF ReconcileInvalid, Dequeue
<1>12. CASE ReconcileSkip
  <2>1. cached.checked + CheckInterval \in Nat
    BY <1>0, <1>7
  <2> QED
    BY <1>1, <1>4, <1>12, <2>1 DEF ReconcileSkip, Dequeue
<1>13. CASE ReconcileDue
  <2>1. ClusterTypeOK'
    BY <1>0, <1>13 DEF ReconcileDue, Dequeue, ClusterTypeOK
  <2>2. [NoLocals EXCEPT !.started = clock, !.past = pending # {} \/ wrote] \in
           [started: Nat, past: BOOLEAN, gone: BOOLEAN,
            notified: Statuses \cup {""}, notifiedSince: Nat]
    <3>1. (pending # {} \/ wrote) \in BOOLEAN
      OBVIOUS
    <3> QED
      BY <1>0, <3>1 DEF NoLocals, Statuses
  <2>3. waiting' = pending
    BY <1>13 DEF ReconcileDue, StopTake
  <2> QED
    BY <1>0, <1>3, <1>13, <2>1, <2>2, <2>3 DEF ReconcileDue, ReconcilerTypeOK
<1>14. CASE StopDone
  <2>1. RetryTypeOK' /\ ObserverTypeOK' /\ TriesBounded'
    BY <1>14 DEF StopDone, RetryTypeOK, ObserverTypeOK, TriesBounded, Live, observerVars
  <2>2. CASE locals.gone
    BY <1>0, <1>5, <1>14, <2>1, <2>2 DEF StopDone
  <2>3. CASE ~locals.gone
    BY <1>0, <1>14, <2>1, <2>3 DEF StopDone, ClusterTypeOK, ReconcilerTypeOK
  <2> QED
    BY <2>2, <2>3
<1>15. CASE Reread
  <2>1. CASE rpc' = "check" /\ mon' = store /\ UNCHANGED <<wakeAt, locals, waiting, used>>
    BY <1>0, <1>1, <1>15, <2>1 DEF Reread, ClusterTypeOK, ReconcilerTypeOK
  <2>2. CASE ReturnDone /\ UNCHANGED used
    BY <1>0, <1>1, <1>5, <1>15, <2>2 DEF Reread
  <2>3. CASE Fault /\ ReturnError
    BY <1>0, <1>2, <1>4, <1>15, <2>3 DEF Reread, ReturnError
  <2> QED
    BY <1>15, <2>1, <2>2, <2>3 DEF Reread
<1>16. CASE Check
  <2>1. PICK status \in Statuses : mon' = Checked(mon, status, locals.started)
    BY <1>16 DEF Check
  <2>2. mon' \in Monitor
    BY <1>0, <2>1, CheckedType
  <2>3. Notified(mon) \in Statuses \cup {""} /\ NotifiedSince(mon) \in Nat
    BY <1>0 DEF Notified, NotifiedSince, Monitor, Statuses
  <2>4. locals' \in [started: Nat, past: BOOLEAN, gone: BOOLEAN,
                     notified: Statuses \cup {""}, notifiedSince: Nat]
    BY <1>16, <2>3 DEF Check, ReconcilerTypeOK
  <2>5. ReconcilerTypeOK'
    BY <1>16, <2>2, <2>4 DEF Check, ReconcilerTypeOK
  <2> QED
    BY <1>0, <1>1, <1>16, <2>5 DEF Check, ClusterTypeOK, clusterVars
<1>17. CASE UpdateStatus
  <2>1. CASE Write(mon) /\ mon' = store' /\ rpc' = "alert" /\ UNCHANGED <<locals, waiting, used>>
    <3>1. store' \in Monitor /\ events' \in Seq(Monitor)
      BY <1>0, <2>1, PutType DEF Write
    <3> QED
      BY <1>0, <1>1, <1>17, <2>1, <3>1 DEF UpdateStatus, Write, ClusterTypeOK, ReconcilerTypeOK
  <2>2. CASE WriteLost(mon)
    BY <1>0, <1>2, <1>6, <1>17, <2>2 DEF UpdateStatus, WriteLost, ReturnError
  <2>3. CASE WriteRefused(mon)
    BY <1>0, <1>1, <1>2, <1>4, <1>17, <2>3 DEF UpdateStatus, WriteRefused, ReturnError
  <2> QED
    BY <1>17, <2>1, <2>2, <2>3 DEF UpdateStatus
<1>18. CASE RecordChange
  <2>1. Announced(mon) \in Monitor /\ clock + CheckInterval \in Nat
    BY <1>0, AnnouncedType
  <2>2. CASE Put(Announced(mon)) /\ ReturnAfter(clock + CheckInterval) /\ UNCHANGED used
    BY <1>1, <1>6, <1>18, <2>1, <2>2 DEF RecordChange
  <2>3. CASE Fault /\ Put(Announced(mon)) /\ ReturnError
    BY <1>0, <1>2, <1>6, <1>18, <2>1, <2>3 DEF RecordChange, ReturnError
  <2>4. CASE WriteRefused(mon)
    BY <1>0, <1>1, <1>2, <1>4, <1>18, <2>4 DEF RecordChange, WriteRefused, ReturnError
  <2> QED
    BY <1>18, <2>2, <2>3, <2>4 DEF RecordChange
<1>19. CASE ReconcileFails
  <2>1. clock + SetupRetry \in Nat
    BY <1>0
  <2>2. CASE ReconcileGetFails
    BY <1>0, <1>2, <1>4, <2>2 DEF ReconcileGetFails, Dequeue, ReturnError
  <2>3. CASE SetupFails
    BY <1>0, <1>2, <1>4, <2>1, <2>3 DEF SetupFails
  <2>4. CASE CheckFails
    BY <1>0, <1>2, <1>4, <2>4 DEF CheckFails, ReturnError
  <2> QED
    BY <1>19, <2>2, <2>3, <2>4 DEF ReconcileFails
<1> QED
  BY <1>10, <1>11, <1>12, <1>13, <1>14, <1>15, <1>16, <1>17, <1>18, <1>19

\* Reconcile's steps that touch the retries: it waits for them and starts them.
LEMMA AlertStepType ==
  ASSUME TypeOK,
         \/ \E r \in RunIds : StopClose(r) \/ StopWait(r)
         \/ SendStatusAlert \/ SendChangeAlert
  PROVE  TypeOK'
<1> USE DEF TypeOK
<1>0. /\ store \in Monitor /\ mon \in Monitor /\ wakeAt \in Nat /\ clock + CheckInterval \in Nat
      /\ mon.last \in Statuses \cup {""}
  <2>1. CheckInterval \in Nat
    BY ControllerAssumption DEF ControllerAssumption
  <2>2. store \in Monitor /\ mon \in Monitor /\ wakeAt \in Nat /\ clock \in Nat
    BY DEF ClusterTypeOK, ReconcilerTypeOK
  <2>3. mon.last \in Statuses \cup {""}
    BY <2>2 DEF Monitor
  <2>4. clock + CheckInterval \in Nat
    BY <2>1, <2>2
  <2> QED
    BY <2>2, <2>3, <2>4
<1>1. ASSUME NEW r \in RunIds, StopClose(r)  PROVE TypeOK'
  <2>1. [runs[r] EXCEPT !.stop = TRUE] \in Run
    BY RunType DEF RetryTypeOK
  <2>2. /\ [runs[r] EXCEPT !.stop = TRUE].pc = runs[r].pc
        /\ [runs[r] EXCEPT !.stop = TRUE].try = runs[r].try
    BY DEF RetryTypeOK, Run
  <2>3. runs' = [runs EXCEPT ![r] = [runs[r] EXCEPT !.stop = TRUE]]
    BY <1>1 DEF StopClose, RetryTypeOK
  <2>4. RetryTypeOK' /\ TriesBounded'
    BY <1>1, <2>1, <2>2, <2>3 DEF StopClose, RetryTypeOK, TriesBounded, Live
  <2>5. ClusterTypeOK' /\ ReconcilerTypeOK' /\ ObserverTypeOK'
    BY <1>1 DEF StopClose, clusterVars, reconcilerVars, observerVars, ClusterTypeOK,
                ReconcilerTypeOK, ObserverTypeOK
  <2> QED
    BY <2>4, <2>5
<1>2. ASSUME NEW r \in RunIds, StopWait(r)  PROVE TypeOK'
  BY <1>2 DEF StopWait, clusterVars, retryVars, observerVars, ClusterTypeOK,
              ReconcilerTypeOK, RetryTypeOK, ObserverTypeOK, TriesBounded, Live
<1>3. ASSUME UNCHANGED <<store, cached, events, queued, clock, edits>>, wakeAt' \in Nat
      PROVE  ClusterTypeOK'
  BY <1>3 DEF ClusterTypeOK
<1>4. ASSUME ReturnAfter(clock + CheckInterval)  PROVE ReconcilerTypeOK' /\ wakeAt' \in Nat
  BY <1>0, <1>4, FinishType, AddAfterType DEF ReturnAfter
<1>5. ASSUME rpc' \in {"change", "record"}, UNCHANGED <<wakeAt, mon, locals, waiting>>
      PROVE  ReconcilerTypeOK' /\ wakeAt' \in Nat
  BY <1>0, <1>5 DEF ReconcilerTypeOK
<1>6. CASE SendStatusAlert
  <2>1. PICK sent \in Sends(mon.last) : QueueRetries("status", sent)
    BY <1>6 DEF SendStatusAlert
  <2>2. RetryTypeOK' /\ TriesBounded' /\ debts' \subseteq RunIds
    BY <1>0, <2>1, QueueRetriesType DEF ObserverTypeOK, Kinds
  <2>3. ReconcilerTypeOK' /\ wakeAt' \in Nat
    BY <1>4, <1>5, <1>6 DEF SendStatusAlert, AfterAlert
  <2> QED
    BY <1>3, <1>6, <2>2, <2>3 DEF SendStatusAlert, ObserverTypeOK
<1>7. CASE SendChangeAlert
  <2>1. PICK sent \in Sends("change") :
          /\ heard' = [n \in Notifiers |->
                         IF n \in Delivered(sent) THEN mon.last ELSE heard[n]]
          /\ QueueRetries("change", sent)
          /\ IF \A n \in Notifiers : sent[n] = "ok"
               THEN rpc' = "record" /\ UNCHANGED <<wakeAt, mon, locals, waiting>>
               ELSE ReturnAfter(clock + CheckInterval)
    BY <1>7 DEF SendChangeAlert
  <2>2. RetryTypeOK' /\ TriesBounded' /\ debts' \subseteq RunIds
    BY <1>0, <2>1, QueueRetriesType DEF ObserverTypeOK, Kinds
  <2>3. ReconcilerTypeOK' /\ wakeAt' \in Nat
    BY <1>4, <1>5, <2>1
  <2>4. heard' \in [Notifiers -> Statuses \cup {""}]
    BY <1>0, <2>1 DEF ObserverTypeOK
  <2> QED
    BY <1>3, <1>7, <2>2, <2>3, <2>4 DEF SendChangeAlert, ObserverTypeOK
<1> QED
  BY <1>1, <1>2, <1>6, <1>7

\* A goroutine's steps.
LEMMA RetryStepType ==
  ASSUME TypeOK, NEW r \in RunIds, Retry(r)
  PROVE  TypeOK'
<1> USE DEF TypeOK
<1>0. /\ store \in Monitor /\ store.rv \in Nat /\ runs[r] \in Run /\ r[2] \in Notifiers
      /\ runs[r].status \in Statuses \cup {""} /\ runs[r].try \in Nat /\ Tries \in Nat
  <2>1. store \in Monitor /\ runs[r] \in Run /\ Tries \in Nat
    BY ControllerAssumption DEF ClusterTypeOK, RetryTypeOK, ControllerAssumption
  <2>2. r[2] \in Notifiers
    BY DEF RunIds
  <2> QED
    BY <2>1, <2>2 DEF Monitor, Run
<1>1. ASSUME UNCHANGED clusterVars  PROVE ClusterTypeOK'
  BY <1>1 DEF clusterVars, ClusterTypeOK
<1>2. ASSUME UNCHANGED reconcilerVars  PROVE ReconcilerTypeOK'
  BY <1>2 DEF reconcilerVars, ReconcilerTypeOK
<1>3. ASSUME heard' \in [Notifiers -> Statuses \cup {""}],
             Settle(r) \/ UNCHANGED debts, Fault \/ UNCHANGED used
      PROVE  ObserverTypeOK'
  BY <1>3, FaultType DEF Settle, ObserverTypeOK
<1>4. heard \in [Notifiers -> Statuses \cup {""}]
  BY DEF ObserverTypeOK
<1>5. ASSUME Live(r), UNCHANGED <<pending, wrote>>,
             NEW pc \in {"wait", "send", "mark", "write", "note", "exit"}, Goto(r, pc)
      PROVE  RetryTypeOK' /\ TriesBounded'
  BY <1>5, GotoType
<1>10. CASE RetryStopped(r)
  BY <1>1, <1>2, <1>3, <1>4, <1>5, <1>10 DEF RetryStopped, Live
<1>11. CASE RetryTimer(r)
  BY <1>1, <1>2, <1>3, <1>4, <1>5, <1>11 DEF RetryTimer, Live
<1>12. CASE RetrySends(r)
  <2>1. heard' \in [Notifiers -> Statuses \cup {""}]
    BY <1>0, <1>4, <1>12 DEF RetrySends
  <2> QED
    BY <1>1, <1>2, <1>3, <1>5, <1>12, <2>1 DEF RetrySends, Live
<1>13. CASE RetryAgain(r)
  <2> DEFINE next == [runs[r] EXCEPT !.pc = "wait", !.try = runs[r].try + 1]
  <2>1. next \in Run
    BY <1>0, RunType
  <2>2. next.try = runs[r].try + 1
    BY <1>0 DEF Run
  <2>3. runs' = [runs EXCEPT ![r] = next]
    BY <1>0, <1>13 DEF RetryAgain, RetryTypeOK
  <2>4. runs[r].try \in 2..Tries /\ runs[r].try < Tries
    BY <1>13 DEF RetryAgain, TriesBounded, Live
  <2>8. runs[r].try + 1 \in 2..Tries
    <3>1. Tries \in Nat /\ runs[r].try \in Nat
      BY <1>0
    <3>2. \A k, n \in Nat : k \in 2..n /\ k < n => k + 1 \in 2..n
      OBVIOUS
    <3> QED
      BY <2>4, <3>1, <3>2
  <2> HIDE DEF next
  <2>5. next.try \in 2..Tries
    BY <2>2, <2>8
  <2>6. RetryTypeOK'
    BY <1>13, <2>1, <2>3 DEF RetryAgain, RetryTypeOK
  <2>7. TriesBounded'
    BY <2>3, <2>5 DEF RetryTypeOK, TriesBounded, Live
  <2> QED
    BY <1>1, <1>2, <1>13, <2>6, <2>7 DEF RetryAgain, observerVars, ObserverTypeOK
<1>14. CASE RetryGivesUp(r)
  BY <1>1, <1>2, <1>3, <1>4, <1>5, <1>14 DEF RetryGivesUp, Live
<1>15. CASE MarkRead(r)
  <2> DEFINE next == [runs[r] EXCEPT !.pc = "write", !.copy = store.rv, !.attempt = runs[r].attempt + 1]
  <2>1. ASSUME runs' = [runs EXCEPT ![r].pc = "write", ![r].copy = store.rv, ![r].attempt = @ + 1]
        PROVE  RetryTypeOK' /\ TriesBounded'
    <3>1. next \in Run
      BY <1>0, RunType
    <3>2. next.try = runs[r].try
      BY <1>0 DEF Run
    <3>3. runs' = [runs EXCEPT ![r] = next]
      BY <1>0, <2>1 DEF RetryTypeOK
    <3> QED
      BY <1>0, <1>15, <3>1, <3>2, <3>3 DEF MarkRead, RetryTypeOK, TriesBounded, Live
  <2> QED
    BY <1>1, <1>2, <1>3, <1>4, <1>5, <1>15, <2>1 DEF MarkRead, Live, observerVars
<1>16. CASE MarkWrite(r)
  <2>1. Announced(store) \in Monitor
    BY <1>0, AnnouncedType
  <2>2. store' \in Monitor /\ events' \in Seq(Monitor)
    <3>1. CASE UNCHANGED <<store, events>>
      BY <1>0, <3>1 DEF ClusterTypeOK
    <3>2. CASE Put(Announced(store))
      BY <2>1, <3>2, PutType
    <3> QED
      BY <1>16, <3>1, <3>2 DEF MarkWrite
  <2>3. ClusterTypeOK'
    BY <1>16, <2>2 DEF MarkWrite, ClusterTypeOK
  <2> QED
    BY <1>2, <1>3, <1>4, <1>5, <1>16, <2>3 DEF MarkWrite, Live, observerVars
<1>17. CASE NoteWrite(r)
  <2>1. RetryTypeOK' /\ TriesBounded'
    <3>0. [runs[r] EXCEPT !.pc = "exit"] \in Run
      BY <1>0, RunType
    <3>1. [runs[r] EXCEPT !.pc = "exit"].try = runs[r].try
      BY <1>0 DEF Run
    <3>2. runs' = [runs EXCEPT ![r] = [runs[r] EXCEPT !.pc = "exit"]]
      BY <1>17 DEF NoteWrite, Goto, RetryTypeOK
    <3> QED
      BY <1>0, <1>17, <3>0, <3>1, <3>2 DEF NoteWrite, RetryTypeOK, TriesBounded, Live
  <2> QED
    BY <1>1, <1>2, <1>3, <1>4, <1>17, <2>1 DEF NoteWrite, observerVars
<1>18. CASE RetryExit(r)
  <2> DEFINE next == [Off EXCEPT !.stop = runs[r].stop]
  <2>0. runs[r].stop \in BOOLEAN
    BY <1>0 DEF Run
  <2>1. next \in Run
    BY <1>0, <2>0, RunType
  <2>2. next.pc = "off"
    BY DEF Off
  <2>3. RetryTypeOK' /\ TriesBounded'
    BY <1>18, <2>1, <2>2 DEF RetryExit, RetryTypeOK, TriesBounded, Live
  <2> QED
    BY <1>1, <1>2, <1>3, <1>4, <1>18, <2>3 DEF RetryExit, observerVars
<1> QED
  BY <1>10, <1>11, <1>12, <1>13, <1>14, <1>15, <1>16, <1>17, <1>18 DEF Retry

\* A restart.
LEMMA RestartType ==
  ASSUME TypeOK, Restart
  PROVE  TypeOK'
<1> USE DEF TypeOK
<1>1. NoCopy \in Monitor
  BY CreatedType DEF NoCopy
<1>2. store \in Monitor /\ store.live \in BOOLEAN
  BY DEF ClusterTypeOK, Monitor
<1>3. << >> \in Seq(Monitor)
  OBVIOUS
<1>4. ClusterTypeOK'
  BY <1>2, <1>3 DEF Restart, ClusterTypeOK, Never
<1>5. ReconcilerTypeOK'
  BY <1>1 DEF Restart, ReconcilerTypeOK, NoLocals, Statuses
<1>6. Off \in Run /\ Off.pc = "off"
  BY DEF Off, Run, Statuses
<1>7. RetryTypeOK' /\ TriesBounded'
  BY <1>6 DEF Restart, RetryTypeOK, TriesBounded, Live
<1>8. ObserverTypeOK'
  <2>1. used \in [crashes: Nat, faults: Nat, setups: Nat]
    BY DEF ObserverTypeOK
  <2>2. [used EXCEPT !.crashes = used.crashes + 1] \in [crashes: Nat, faults: Nat, setups: Nat]
    BY <2>1
  <2>3. used' = [used EXCEPT !.crashes = used.crashes + 1]
    BY DEF Restart
  <2>4. heard' = heard /\ debts' = {}
    BY DEF Restart
  <2> QED
    BY <2>2, <2>3, <2>4 DEF ObserverTypeOK
<1> QED
  BY <1>4, <1>5, <1>7, <1>8

\* Every step keeps the types.
LEMMA TypeStep == TypeOK /\ [Next]_vars => TypeOK'
<1> SUFFICES ASSUME TypeOK, [Next]_vars PROVE TypeOK'
  OBVIOUS
<1>1. CASE Reconcile
  BY <1>1, ReconcileStepType, AlertStepType DEF Reconcile
<1>2. CASE ReconcileFails
  BY <1>2, ReconcileStepType
<1>3. CASE Restart
  BY <1>3, RestartType
<1>4. CASE Cluster
  BY <1>4, ClusterStepType DEF Cluster, TypeOK, reconcilerVars, retryVars, observerVars,
     ReconcilerTypeOK, RetryTypeOK, ObserverTypeOK, TriesBounded, Live
<1>5. CASE \E r \in RunIds : Retry(r)
  BY <1>5, RetryStepType
<1>6. CASE UNCHANGED vars
  BY <1>6 DEF vars, clusterVars, reconcilerVars, retryVars, observerVars, TypeOK, ClusterTypeOK,
     ReconcilerTypeOK, RetryTypeOK, ObserverTypeOK, TriesBounded, Live
<1> QED
  BY <1>1, <1>2, <1>3, <1>4, <1>5, <1>6 DEF Next

\* Every reachable state is typed, and no alert is tried more often than
\* AlertRetries.Tries, whatever the notifiers, users, faults and restarts do.
THEOREM TypeCorrect == Spec => []TypeOK
BY TypeInit, TypeStep, PTL DEF Spec

-----------------------------------------------------------------------------
(***************************************************************************)
(* The safety of alerts: AlertInv is inductive, so no retry outlives the   *)
(* check that replaces it, alerts are about the stored status, and no      *)
(* failed alert is lost.                                                   *)
(***************************************************************************)

Waiting == {"wait", "send"}
Marking == {"mark", "write", "note"}

\* What a write stores: everything of m but the version.
LEMMA PutFields ==
  ASSUME NEW m \in Monitor, store.rv \in Nat, Put(m)
  PROVE  /\ store'.rv = store.rv + 1 /\ SpecOf(store)' = SpecOf(m)
         /\ store'.uid = m.uid /\ store'.live = m.live /\ store'.last = m.last
         /\ StatusOf(store)' = StatusOf(m)
         /\ events' = Append(events, store')
<1>1. store' = [m EXCEPT !.rv = store.rv + 1] /\ events' = Append(events, store')
  BY DEF Put
<1>2. \A n : /\ [m EXCEPT !.rv = n].rv = n /\ [m EXCEPT !.rv = n].uid = m.uid
             /\ [m EXCEPT !.rv = n].live = m.live /\ [m EXCEPT !.rv = n].last = m.last
             /\ [m EXCEPT !.rv = n].valid = m.valid /\ [m EXCEPT !.rv = n].gen = m.gen
             /\ [m EXCEPT !.rv = n].obs = m.obs /\ [m EXCEPT !.rv = n].since = m.since
             /\ [m EXCEPT !.rv = n].noti = m.noti
             /\ [m EXCEPT !.rv = n].notiSince = m.notiSince
             /\ [m EXCEPT !.rv = n].checked = m.checked
  BY DEF Monitor
<1> QED
  BY <1>1, <1>2 DEF SpecOf, StatusOf

\* What an announcement leaves alone.
LEMMA AnnouncedFields ==
  ASSUME NEW m \in Monitor
  PROVE  /\ Announced(m) \in Monitor /\ Announced(m).last = m.last
         /\ Announced(m).uid = m.uid /\ Announced(m).live = m.live
         /\ SpecOf(Announced(m)) = SpecOf(m)
<1>1. /\ Announced(m).last = m.last /\ Announced(m).valid = m.valid
      /\ Announced(m).uid = m.uid /\ Announced(m).live = m.live
      /\ Announced(m).gen = m.gen
  BY DEF Announced, Monitor
<1> QED
  BY <1>1, AnnouncedType DEF SpecOf

\* Goto moves one run and nothing else.
LEMMA GotoFields ==
  ASSUME runs \in [RunIds -> Run], NEW r \in RunIds, NEW pc, Goto(r, pc)
  PROVE  /\ \A q \in RunIds \ {r} : runs'[q] = runs[q]
         /\ runs'[r].pc = pc /\ runs'[r].status = runs[r].status
         /\ runs'[r].uid = runs[r].uid /\ runs'[r].marks = runs[r].marks
         /\ runs'[r].stop = runs[r].stop
<1>1. runs' = [runs EXCEPT ![r] = [runs[r] EXCEPT !.pc = pc]] /\ runs[r] \in Run
  BY DEF Goto
<1>2. /\ [runs[r] EXCEPT !.pc = pc].pc = pc
      /\ [runs[r] EXCEPT !.pc = pc].status = runs[r].status
      /\ [runs[r] EXCEPT !.pc = pc].uid = runs[r].uid
      /\ [runs[r] EXCEPT !.pc = pc].marks = runs[r].marks
      /\ [runs[r] EXCEPT !.pc = pc].stop = runs[r].stop
  BY <1>1 DEF Run
<1> QED
  BY <1>1, <1>2
(***************************************************************************)
(* The effect of a goroutine's step, as far as AlertInv looks.             *)
(***************************************************************************)
RetryEffect(r) ==
  /\ UNCHANGED <<rpc, mon, locals, waiting, cached>>
  /\ \A q \in RunIds \ {r} : runs'[q] = runs[q]
  /\ runs[r].pc # "off"
  /\ \/ /\ runs'[r].pc = "off" /\ runs'[r].uid = 0 /\ ~runs'[r].marks
        /\ pending' = pending \ {r}
     \/ /\ runs'[r].pc # "off" /\ runs'[r].status = runs[r].status
        /\ runs'[r].uid = runs[r].uid /\ runs'[r].marks = runs[r].marks
        /\ pending' = pending
  /\ runs'[r].pc \in Marking => runs[r].marks \/ runs[r].pc \in Marking
  /\ runs'[r].pc \in Waiting => runs[r].pc \in Waiting
  /\ \/ debts' = debts \ {r}
     \/ debts' = debts /\ (runs[r].pc \in Waiting => runs'[r].pc \in Waiting)
  /\ \/ UNCHANGED <<store, events>>
     \/ runs[r].pc = "write" /\ store.live /\ Put(Announced(store))

\* Every step of a goroutine has that effect.
LEMMA RetryHasEffect ==
  ASSUME TypeOK, NEW r \in RunIds, Retry(r)
  PROVE  RetryEffect(r)
<1>0. runs \in [RunIds -> Run] /\ runs[r] \in Run
  BY DEF TypeOK, RetryTypeOK
<1>1. ASSUME NEW pc, Goto(r, pc)
      PROVE  /\ \A q \in RunIds \ {r} : runs'[q] = runs[q]
             /\ runs'[r].pc = pc /\ runs'[r].status = runs[r].status
             /\ runs'[r].uid = runs[r].uid /\ runs'[r].marks = runs[r].marks
  BY <1>0, <1>1, GotoFields
<1> USE DEF clusterVars, reconcilerVars, observerVars, Settle, Waiting, Marking
<1>2. CASE RetryStopped(r)
  BY <1>1, <1>2 DEF RetryStopped, RetryEffect
<1>3. CASE RetryTimer(r)
  BY <1>1, <1>3 DEF RetryTimer, RetryEffect
<1>4. CASE RetrySends(r)
  BY <1>1, <1>4 DEF RetrySends, RetryEffect
<1>5. CASE RetryAgain(r)
  <2> DEFINE next == [runs[r] EXCEPT !.pc = "wait", !.try = runs[r].try + 1]
  <2>1. runs' = [runs EXCEPT ![r] = next]
    BY <1>0, <1>5 DEF RetryAgain
  <2>2. /\ next.pc = "wait" /\ next.status = runs[r].status
        /\ next.uid = runs[r].uid /\ next.marks = runs[r].marks
    BY <1>0 DEF Run
  <2> HIDE DEF next
  <2> QED
    BY <1>0, <1>5, <2>1, <2>2 DEF RetryAgain, RetryEffect
<1>6. CASE RetryGivesUp(r)
  BY <1>1, <1>6 DEF RetryGivesUp, RetryEffect
<1>7. CASE MarkRead(r)
  <2> DEFINE next == [runs[r] EXCEPT !.pc = "write", !.copy = store.rv,
                                     !.attempt = runs[r].attempt + 1]
  <2>1. CASE runs' = [runs EXCEPT ![r].pc = "write", ![r].copy = store.rv, ![r].attempt = @ + 1]
    <3>1. runs' = [runs EXCEPT ![r] = next]
      BY <1>0, <2>1
    <3>2. /\ next.pc = "write" /\ next.status = runs[r].status
          /\ next.uid = runs[r].uid /\ next.marks = runs[r].marks
      BY <1>0 DEF Run
    <3> HIDE DEF next
    <3> QED
      BY <1>0, <1>7, <3>1, <3>2 DEF MarkRead, RetryEffect
  <2>2. CASE Goto(r, "note") \/ Goto(r, "exit")
    BY <1>1, <1>7, <2>2 DEF MarkRead, RetryEffect
  <2> QED
    BY <1>7, <2>1, <2>2 DEF MarkRead
<1>8. CASE MarkWrite(r)
  BY <1>1, <1>8 DEF MarkWrite, RetryEffect
<1>9. CASE NoteWrite(r)
  BY <1>1, <1>9 DEF NoteWrite, RetryEffect
<1>10. CASE RetryExit(r)
  <2> DEFINE next == [Off EXCEPT !.stop = runs[r].stop]
  <2>1. next.pc = "off" /\ next.uid = 0 /\ ~next.marks
    BY DEF Off
  <2> HIDE DEF next
  <2>2. runs' = [runs EXCEPT ![r] = next]
    BY <1>10 DEF RetryExit, next
  <2> QED
    BY <1>0, <1>10, <2>1, <2>2 DEF RetryExit, RetryEffect
<1> QED
  BY <1>2, <1>3, <1>4, <1>5, <1>6, <1>7, <1>8, <1>9, <1>10 DEF Retry
-----------------------------------------------------------------------------
\* The numbers in a typed state.
LEMMA Numbers ==
  ASSUME TypeOK
  PROVE  /\ store \in Monitor /\ cached \in Monitor /\ mon \in Monitor
         /\ store.rv \in Nat /\ store.uid \in Nat /\ mon.rv \in Nat /\ mon.uid \in Nat
         /\ cached.rv \in Nat /\ cached.uid \in Nat /\ events \in Seq(Monitor)
         /\ \A i \in 1..Len(events) : events[i] \in Monitor /\ events[i].rv \in Nat
                                                         /\ events[i].uid \in Nat
         /\ \A r \in RunIds : runs[r] \in Run /\ runs[r].uid \in Nat
<1>1. /\ store \in Monitor /\ cached \in Monitor /\ mon \in Monitor
      /\ events \in Seq(Monitor) /\ runs \in [RunIds -> Run]
  BY DEF TypeOK, ClusterTypeOK, ReconcilerTypeOK, RetryTypeOK
<1>2. \A i \in 1..Len(events) : events[i] \in Monitor
  BY <1>1
<1>3. \A m \in Monitor : m.rv \in Nat /\ m.uid \in Nat
  BY DEF Monitor
<1>4. \A run \in Run : run.uid \in Nat
  BY DEF Run
<1> QED
  BY <1>1, <1>2, <1>3, <1>4

\* A write that does not go back to an earlier object keeps every copy a copy,
\* and adds one.
LEMMA PutKeepsCopies ==
  ASSUME TypeOK, CopiesAreVersions, NEW m \in Monitor, Put(m), m.uid >= store.uid
  PROVE  /\ store'.rv > 0
         /\ mon.uid <= store'.uid /\ mon.rv < store'.rv
         /\ cached.uid <= store'.uid /\ cached.rv < store'.rv
         /\ \A i \in 1..Len(events)' : IsCopy(events[i])'
         /\ \A r \in RunIds : runs[r].uid <= store'.uid
         /\ IsCopy(store)'
<1>1. store'.rv = store.rv + 1 /\ store'.uid = m.uid /\ events' = Append(events, store')
  BY Numbers, PutFields
<1>2. m.uid \in Nat
  BY DEF Monitor
<1>3. \A n, k \in Nat : n <= store.uid /\ k <= store.rv => n <= store'.uid /\ k < store'.rv /\ k # store'.rv
  BY <1>1, <1>2, Numbers
<1>4. IsCopy(store)' /\ store'.rv > 0
  BY <1>1, <1>2, Numbers DEF IsCopy
<1>5. ASSUME NEW i \in 1..Len(events)'  PROVE IsCopy(events[i])'
  <2>1. CASE i = Len(events) + 1
    <3>1. events'[i] = store'
      BY <1>1, <2>1, Numbers
    <3> QED
      BY <1>4, <3>1 DEF IsCopy
  <2>2. CASE i # Len(events) + 1
    <3>1. i \in 1..Len(events) /\ events'[i] = events[i]
      BY <1>1, <2>2, Numbers
    <3>2. events[i].uid <= store.uid /\ events[i].rv <= store.rv
      BY <3>1 DEF CopiesAreVersions, IsCopy
    <3>3. events[i].uid \in Nat /\ events[i].rv \in Nat
      BY <3>1, Numbers
    <3>4. events[i].uid <= store'.uid /\ events[i].rv < store'.rv /\ events[i].rv # store'.rv
      BY <1>3, <3>2, <3>3
    <3>5. events[i].rv <= store'.rv
      BY <1>1, <3>2, <3>3, Numbers
    <3> QED
      BY <3>1, <3>4, <3>5 DEF IsCopy
  <2> QED
    BY <2>1, <2>2
<1>6. mon.uid <= store'.uid /\ mon.rv < store'.rv /\ cached.uid <= store'.uid /\ cached.rv < store'.rv
  BY <1>3, Numbers DEF CopiesAreVersions, IsCopy
<1>7. \A r \in RunIds : runs[r].uid <= store'.uid
  BY <1>3, Numbers DEF CopiesAreVersions
<1> QED
  BY <1>4, <1>5, <1>6, <1>7

\* A goroutine's step keeps the invariant: it can write only while no alert of
\* Reconcile's is under way, and then changes nothing but the announcement.
LEMMA RetryKeepsAlertInv ==
  ASSUME TypeOK, AlertInv, NEW r \in RunIds, Retry(r)
  PROVE  AlertInv'
<1> DEFINE same == UNCHANGED <<store, events>>
<1>1. RetryEffect(r)
  BY RetryHasEffect
<1>2. RunsOwned'
  BY <1>1 DEF RetryEffect, AlertInv, RunsOwned, Live
<1>3. OnlyChangesMark'
  BY <1>1 DEF RetryEffect, AlertInv, OnlyChangesMark, Marking
<1>4. NoOverlap'
  <2>1. \A q \in RunIds : runs'[q].pc # "off" => runs[q].pc # "off"
    BY <1>1 DEF RetryEffect
  <2>2. \A n \in Notifiers : <<"change", n>> \in RunIds
    BY DEF RunIds, Kinds
  <2> QED
    BY <1>1, <2>1, <2>2 DEF RetryEffect, AlertInv, NoOverlap, Live
<1>5. AlertAccounted'
  <2>1. \A q \in debts' : q \in debts /\ q \in RunIds
    BY <1>1 DEF RetryEffect, TypeOK, ObserverTypeOK
  <2> QED
    BY <1>1, <2>1 DEF RetryEffect, AlertInv, AlertAccounted, Waiting
<1>6. \A q \in RunIds : runs'[q].uid = runs[q].uid \/ runs'[q].uid = 0
  BY <1>1 DEF RetryEffect
<1>7. ASSUME NEW q \in RunIds, runs'[q].pc \in Waiting
      PROVE  /\ runs[q].pc \in Waiting /\ runs'[q].uid = runs[q].uid
             /\ runs'[q].status = runs[q].status
  BY <1>1, <1>7 DEF RetryEffect, Waiting
<1>8. CASE same
  <2>1. CopiesAreVersions'
    BY <1>1, <1>6, <1>8, Numbers DEF RetryEffect, AlertInv, CopiesAreVersions, IsCopy, SpecOf
  <2>2. AlertMatchesStore'
    BY <1>1, <1>8 DEF RetryEffect, AlertInv, AlertMatchesStore, StatusOf
  <2>3. RetryTellsCurrent'
    BY <1>7, <1>8 DEF AlertInv, RetryTellsCurrent, Waiting
  <2> QED
    BY <1>2, <1>3, <1>4, <1>5, <2>1, <2>2, <2>3 DEF AlertInv
<1>9. CASE runs[r].pc = "write" /\ store.live /\ Put(Announced(store))
  <2>1. Announced(store) \in Monitor /\ Announced(store).uid = store.uid
    BY Numbers, AnnouncedFields
  <2>2. store'.uid = store.uid /\ store'.last = store.last /\ store'.live = store.live
    BY <1>9, <2>1, Numbers, PutFields, AnnouncedFields
  <2>3. CopiesAreVersions'
    <3>1. Announced(store).uid >= store.uid
      BY <2>1, Numbers
    <3>2. /\ store'.rv > 0 /\ mon.uid <= store'.uid /\ mon.rv < store'.rv
          /\ cached.uid <= store'.uid /\ cached.rv < store'.rv
          /\ \A i \in 1..Len(events)' : IsCopy(events[i])'
          /\ \A q \in RunIds : runs[q].uid <= store'.uid
      BY <1>9, <2>1, <3>1, PutKeepsCopies DEF AlertInv
    <3>3. store'.rv \in Nat /\ store'.uid \in Nat
      <4>1. store'.rv = store.rv + 1
        BY <1>9, <2>1, Numbers, PutFields
      <4> QED
        BY <2>2, <4>1, Numbers
    <3>4. IsCopy(mon)' /\ IsCopy(cached)'
      BY <1>1, <3>2, <3>3, Numbers DEF RetryEffect, IsCopy
    <3>5. \A q \in RunIds : runs'[q].uid <= store'.uid
      BY <1>6, <3>2, <3>3
    <3> QED
      BY <3>2, <3>4, <3>5 DEF CopiesAreVersions
  <2>4. AlertMatchesStore'
    <3>1. r[1] = "change" /\ Live(r)
      BY <1>9 DEF AlertInv, OnlyChangesMark, Live
    <3>2. r = <<"change", r[2]>> /\ r[2] \in Notifiers
      BY <3>1 DEF RunIds
    <3>3. rpc \notin {"alert", "change", "record"}
      BY <3>1, <3>2 DEF AlertInv, NoOverlap
    <3> QED
      BY <1>1, <3>3 DEF RetryEffect, AlertMatchesStore
  <2>5. RetryTellsCurrent'
    BY <1>7, <2>2 DEF AlertInv, RetryTellsCurrent, Waiting
  <2> QED
    BY <1>2, <1>3, <1>4, <1>5, <2>3, <2>4, <2>5 DEF AlertInv
<1> QED
  BY <1>1, <1>8, <1>9 DEF RetryEffect
-----------------------------------------------------------------------------
\* No copy is a copy of nothing newer than the store.
LEMMA NoCopyIsCopy ==
  ASSUME TypeOK, CopiesAreVersions
  PROVE  NoCopy.uid = 0 /\ NoCopy.rv = 0 /\ IsCopy(NoCopy)
<1>1. NoCopy.uid = 0 /\ NoCopy.rv = 0
  BY DEF NoCopy, Created
<1> HIDE DEF NoCopy
<1> QED
  BY <1>1, Numbers DEF IsCopy, CopiesAreVersions

\* Returning without a write keeps the invariant.
LEMMA FinishKeepsAlertInv ==
  ASSUME TypeOK, AlertInv, Finish, waiting = {}, rpc # "stop" \/ \A r \in RunIds : ~Live(r),
         UNCHANGED <<store, cached, events, runs, debts, pending>>
  PROVE  AlertInv'
<1>1. RunsOwned'
  BY DEF Finish, AlertInv, RunsOwned, Live
<1>2. OnlyChangesMark' /\ NoOverlap' /\ AlertMatchesStore' /\ RetryTellsCurrent' /\ AlertAccounted'
  BY DEF Finish, AlertInv, OnlyChangesMark, NoOverlap, AlertMatchesStore, RetryTellsCurrent,
         AlertAccounted
<1>3. CopiesAreVersions'
  <2>1. mon' = NoCopy /\ IsCopy(NoCopy)
    BY NoCopyIsCopy DEF Finish, AlertInv
  <2> HIDE DEF NoCopy
  <2> QED
    BY <2>1 DEF AlertInv, CopiesAreVersions, IsCopy, SpecOf
<1> QED
  BY <1>1, <1>2, <1>3 DEF AlertInv

\* Returning with a write of the object's own spec and last status keeps it.
LEMMA PutFinishKeepsAlertInv ==
  ASSUME TypeOK, AlertInv, Finish, rpc # "stop", NEW m \in Monitor, Put(m), m.uid = store.uid,
         store.live, m.last = store.last \/ \A r \in RunIds : ~Live(r),
         UNCHANGED <<cached, runs, debts, pending>>
  PROVE  AlertInv'
<1>1. RunsOwned' /\ OnlyChangesMark' /\ NoOverlap' /\ AlertMatchesStore' /\ AlertAccounted'
  BY DEF Finish, AlertInv, RunsOwned, OnlyChangesMark, NoOverlap, AlertMatchesStore,
         AlertAccounted, Live
<1>2. store'.uid = m.uid /\ store'.last = m.last
  BY Numbers, PutFields
<1>3. RetryTellsCurrent'
  <2>1. SUFFICES ASSUME NEW r \in RunIds, runs'[r].pc \in {"wait", "send"}, store'.live,
                        store'.uid = runs'[r].uid
                 PROVE  store'.last = runs'[r].status
    BY DEF RetryTellsCurrent
  <2>2. Live(r) /\ m.last = store.last
    BY <2>1 DEF Live
  <2> QED
    BY <1>2, <2>1, <2>2 DEF AlertInv, RetryTellsCurrent
<1>4. CopiesAreVersions'
  <2>1. m.uid >= store.uid
    BY Numbers
  <2>2. /\ store'.rv > 0 /\ cached.uid <= store'.uid /\ cached.rv < store'.rv
        /\ \A i \in 1..Len(events)' : IsCopy(events[i])'
        /\ \A q \in RunIds : runs[q].uid <= store'.uid
    BY <2>1, PutKeepsCopies DEF AlertInv
  <2>3. store'.rv = store.rv + 1
    BY Numbers, PutFields
  <2>4. store'.rv \in Nat /\ store'.uid \in Nat
    BY <1>2, <2>3, Numbers
  <2>5. IsCopy(cached)'
    BY <2>2, <2>4, Numbers DEF IsCopy
  <2>6. mon' = NoCopy /\ NoCopy.uid = 0 /\ NoCopy.rv = 0
    BY NoCopyIsCopy DEF Finish, AlertInv
  <2>7. IsCopy(mon)'
    <3> HIDE DEF NoCopy
    <3> QED
      BY <2>2, <2>4, <2>6 DEF IsCopy
  <2> QED
    BY <2>2, <2>5, <2>7 DEF CopiesAreVersions
<1> QED
  BY <1>1, <1>3, <1>4 DEF AlertInv
\* An accepted update is one of the stored object and its spec.
LEMMA AcceptedIsStored ==
  ASSUME TypeOK, CopiesAreVersions, Accepts(mon)
  PROVE  store.live /\ mon.uid = store.uid /\ SpecOf(mon) = SpecOf(store)
BY DEF Accepts, CopiesAreVersions, IsCopy, SpecOf

\* Reconcile's way into Stop and through it.
LEMMA StopKeepsAlertInv ==
  ASSUME TypeOK, AlertInv,
         \/ ReconcileGone \/ ReconcileDue \/ StopDone
         \/ \E r \in RunIds : StopClose(r) \/ StopWait(r)
  PROVE  AlertInv'
<1>1. ASSUME rpc' = "stop", waiting' = pending, pending' = {}, rpc = "idle",
             UNCHANGED <<store, cached, events, runs, debts>>, mon' \in {mon, cached}
      PROVE  AlertInv'
  <2>1. RunsOwned' /\ OnlyChangesMark' /\ NoOverlap' /\ AlertMatchesStore' /\ RetryTellsCurrent'
        /\ AlertAccounted'
    BY <1>1 DEF AlertInv, RunsOwned, OnlyChangesMark, NoOverlap, AlertMatchesStore,
       RetryTellsCurrent, AlertAccounted, Live
  <2>2. CopiesAreVersions'
    BY <1>1 DEF AlertInv, CopiesAreVersions, IsCopy, SpecOf
  <2> QED
    BY <2>1, <2>2 DEF AlertInv
<1>2. CASE ReconcileGone
  BY <1>1, <1>2 DEF ReconcileGone, Dequeue, StopTake, observerVars
<1>3. CASE ReconcileDue
  BY <1>1, <1>3 DEF ReconcileDue, Dequeue, StopTake, observerVars
<1>4. CASE StopDone
  <2>1. \A r \in RunIds : ~Live(r)
    BY <1>4 DEF StopDone, AlertInv, RunsOwned
  <2>2. CASE locals.gone
    BY <1>4, <2>1, <2>2, FinishKeepsAlertInv DEF StopDone, ReturnDone, observerVars
  <2>3. CASE ~locals.gone
    <3>1. /\ rpc' \in {"reread", "check"} /\ waiting' = {} /\ mon' = mon
          /\ UNCHANGED <<store, cached, events, runs, debts, pending>>
      BY <1>4, <2>3 DEF StopDone, observerVars
    <3>2. RunsOwned' /\ OnlyChangesMark' /\ NoOverlap' /\ AlertMatchesStore'
          /\ RetryTellsCurrent' /\ AlertAccounted'
      BY <2>1, <3>1 DEF AlertInv, RunsOwned, OnlyChangesMark, NoOverlap, AlertMatchesStore,
         RetryTellsCurrent, AlertAccounted, Live
    <3>3. CopiesAreVersions'
      BY <3>1 DEF AlertInv, CopiesAreVersions, IsCopy, SpecOf
    <3> QED
      BY <3>2, <3>3 DEF AlertInv
  <2> QED
    BY <2>2, <2>3
<1>5. ASSUME NEW r \in RunIds, StopClose(r)  PROVE AlertInv'
  <2>1. \A q \in RunIds : /\ runs'[q].pc = runs[q].pc /\ runs'[q].uid = runs[q].uid
                         /\ runs'[q].status = runs[q].status /\ runs'[q].marks = runs[q].marks
    <3> DEFINE next == [runs[r] EXCEPT !.stop = TRUE]
    <3>1. runs \in [RunIds -> Run] /\ runs[r] \in Run
      BY DEF TypeOK, RetryTypeOK
    <3>2. next.pc = runs[r].pc /\ next.uid = runs[r].uid /\ next.status = runs[r].status
          /\ next.marks = runs[r].marks
      BY <3>1 DEF Run
    <3>3. runs' = [runs EXCEPT ![r] = next]
      BY <1>5, <3>1 DEF StopClose
    <3> HIDE DEF next
    <3> QED
      BY <3>1, <3>2, <3>3
  <2>2. UNCHANGED <<store, cached, events, debts, pending, waiting, rpc, mon>> /\ rpc = "stop"
    BY <1>5 DEF StopClose, clusterVars, reconcilerVars, observerVars
  <2>3. debts \subseteq RunIds
    BY DEF TypeOK, ObserverTypeOK
  <2>4. RunsOwned' /\ OnlyChangesMark' /\ NoOverlap' /\ AlertMatchesStore'
        /\ RetryTellsCurrent' /\ AlertAccounted'
    BY <2>1, <2>2, <2>3 DEF AlertInv, RunsOwned, OnlyChangesMark, NoOverlap,
       AlertMatchesStore, RetryTellsCurrent, AlertAccounted, Live
  <2>5. CopiesAreVersions'
    BY <2>1, <2>2 DEF AlertInv, CopiesAreVersions, IsCopy, SpecOf
  <2> QED
    BY <2>4, <2>5 DEF AlertInv
<1>6. ASSUME NEW r \in RunIds, StopWait(r)  PROVE AlertInv'
  <2>1. /\ UNCHANGED <<store, cached, events, debts, pending, runs, rpc, mon>> /\ rpc = "stop"
        /\ waiting' = waiting \ {r} /\ ~Live(r)
    BY <1>6 DEF StopWait, clusterVars, retryVars, observerVars
  <2>2. RunsOwned' /\ OnlyChangesMark' /\ NoOverlap' /\ AlertMatchesStore'
        /\ RetryTellsCurrent' /\ AlertAccounted'
    BY <2>1 DEF AlertInv, RunsOwned, OnlyChangesMark, NoOverlap,
       AlertMatchesStore, RetryTellsCurrent, AlertAccounted, Live
  <2>3. CopiesAreVersions'
    BY <2>1 DEF AlertInv, CopiesAreVersions, IsCopy, SpecOf
  <2> QED
    BY <2>2, <2>3 DEF AlertInv
<1> QED
  BY <1>2, <1>3, <1>4, <1>5, <1>6

\* Reconcile's reads and its check.
LEMMA CheckKeepsAlertInv ==
  ASSUME TypeOK, AlertInv,
         ReconcileInvalid \/ ReconcileSkip \/ ReconcileFails \/ Reread \/ Check
  PROVE  AlertInv'
<1> USE DEF retryVars, observerVars
<1>1. ASSUME Finish, rpc # "stop", UNCHANGED <<store, cached, events, runs, debts, pending>>
      PROVE  AlertInv'
  BY <1>1, FinishKeepsAlertInv DEF AlertInv, RunsOwned
<1>2. ASSUME rpc \in {"reread", "check"}, rpc' \in {"check", "update"}, IsCopy(mon)',
             UNCHANGED <<store, cached, events, runs, debts, pending, waiting>>
      PROVE  AlertInv'
  <2>1. RunsOwned' /\ OnlyChangesMark' /\ NoOverlap' /\ AlertMatchesStore'
        /\ RetryTellsCurrent' /\ AlertAccounted'
    BY <1>2 DEF AlertInv, RunsOwned, OnlyChangesMark, NoOverlap,
       AlertMatchesStore, RetryTellsCurrent, AlertAccounted, Live
  <2>2. CopiesAreVersions'
    BY <1>2 DEF AlertInv, CopiesAreVersions, IsCopy, SpecOf
  <2> QED
    BY <2>1, <2>2 DEF AlertInv
<1>3. CASE ReconcileInvalid
  BY <1>1, <1>3 DEF ReconcileInvalid, Dequeue, ReturnDone
<1>4. CASE ReconcileSkip
  BY <1>1, <1>4 DEF ReconcileSkip, Dequeue, ReturnAfter
<1>5. CASE ReconcileFails
  BY <1>1, <1>5 DEF ReconcileFails, ReconcileGetFails, SetupFails, CheckFails, Dequeue,
     ReturnError, ReturnAfter
<1>6. CASE Reread
  <2>1. CASE rpc' = "check" /\ mon' = store /\ UNCHANGED <<wakeAt, locals, waiting, used>>
    <3>1. IsCopy(mon)'
      BY <1>6, <2>1, Numbers DEF Reread, IsCopy
    <3> QED
      BY <1>2, <1>6, <2>1, <3>1 DEF Reread
  <2>2. CASE Finish
    BY <1>1, <1>6, <2>2 DEF Reread
  <2> QED
    BY <1>6, <2>1, <2>2 DEF Reread, ReturnDone, ReturnError, ReturnAfter
<1>7. CASE Check
  <2>1. PICK status \in Statuses : mon' = Checked(mon, status, locals.started)
    BY <1>7 DEF Check
  <2>2. mon'.rv = mon.rv /\ mon'.uid = mon.uid /\ mon'.live = mon.live
        /\ mon'.valid = mon.valid /\ mon'.gen = mon.gen
    BY <2>1, Numbers DEF Checked, Monitor
  <2>3. IsCopy(mon)'
    BY <1>7, <2>2 DEF Check, clusterVars, AlertInv, CopiesAreVersions, IsCopy, SpecOf
  <2> QED
    BY <1>2, <1>7, <2>3 DEF Check, clusterVars
<1> QED
  BY <1>3, <1>4, <1>5, <1>6, <1>7

\* Reconcile's two status updates.
LEMMA UpdateKeepsAlertInv ==
  ASSUME TypeOK, AlertInv, UpdateStatus \/ RecordChange
  PROVE  AlertInv'
<1> USE DEF retryVars, observerVars, ReturnError, ReturnAfter
<1>1. Accepts(mon) => store.live /\ mon.uid = store.uid
  BY AcceptedIsStored DEF AlertInv
<1>2. ASSUME WriteRefused(mon), rpc # "stop", UNCHANGED <<cached, runs, debts, pending>>
      PROVE  AlertInv'
  BY <1>2, FinishKeepsAlertInv DEF WriteRefused, AlertInv, RunsOwned
<1>3. CASE UpdateStatus
  <2>0. \A r \in RunIds : ~Live(r)
    BY <1>3 DEF UpdateStatus, AlertInv, NoOverlap
  <2>1. CASE Accepts(mon) /\ Write(mon) /\ mon' = store' /\ rpc' = "alert"
             /\ UNCHANGED <<locals, waiting, used>>
    <3>1. rpc = "update" /\ UNCHANGED <<cached, runs, debts, pending>>
      BY <1>3 DEF UpdateStatus
    <3>2. RunsOwned' /\ OnlyChangesMark' /\ NoOverlap' /\ AlertMatchesStore'
          /\ RetryTellsCurrent' /\ AlertAccounted'
      BY <2>0, <2>1, <3>1 DEF AlertInv, RunsOwned, OnlyChangesMark, NoOverlap,
         AlertMatchesStore, RetryTellsCurrent, AlertAccounted, Live
    <3>3. mon.uid >= store.uid
      BY <1>1, <2>1, Numbers
    <3>4. /\ store'.rv > 0 /\ cached.uid <= store'.uid /\ cached.rv < store'.rv
          /\ \A i \in 1..Len(events)' : IsCopy(events[i])'
          /\ \A q \in RunIds : runs[q].uid <= store'.uid
          /\ IsCopy(store)'
      BY <2>1, <3>3, Numbers, PutKeepsCopies DEF AlertInv, Write
    <3>5. store'.rv = store.rv + 1 /\ store'.uid = mon.uid
      BY <2>1, Numbers, PutFields DEF Write
    <3>6. IsCopy(cached)' /\ IsCopy(mon)'
      BY <2>1, <3>1, <3>4, <3>5, Numbers DEF IsCopy
    <3>7. CopiesAreVersions'
      BY <3>1, <3>4, <3>6 DEF CopiesAreVersions
    <3> QED
      BY <3>2, <3>7 DEF AlertInv
  <2>2. CASE WriteLost(mon)
    BY <1>1, <1>3, <2>0, <2>2, Numbers, PutFinishKeepsAlertInv DEF UpdateStatus, WriteLost
  <2>3. CASE WriteRefused(mon)
    BY <1>2, <1>3, <2>3 DEF UpdateStatus
  <2> QED
    BY <1>3, <2>1, <2>2, <2>3 DEF UpdateStatus
<1>4. CASE RecordChange
  <2>1. Announced(mon) \in Monitor /\ Announced(mon).uid = mon.uid /\ Announced(mon).last = mon.last
    BY Numbers, AnnouncedFields
  <2>2. ASSUME Accepts(mon)  PROVE mon.last = store.last
    BY <1>1, <1>4, <2>2 DEF RecordChange, AlertInv, AlertMatchesStore, StatusOf
  <2>3. CASE Accepts(mon) /\ Put(Announced(mon)) /\ Finish
    BY <1>1, <1>4, <2>1, <2>2, <2>3, PutFinishKeepsAlertInv DEF RecordChange
  <2>4. CASE WriteRefused(mon)
    BY <1>2, <1>4, <2>4 DEF RecordChange
  <2> QED
    BY <1>4, <2>3, <2>4 DEF RecordChange
<1> QED
  BY <1>3, <1>4
-----------------------------------------------------------------------------
\* The runs that queueRetries starts, and those it leaves.
LEMMA QueueRetriesEffect ==
  ASSUME TypeOK, NEW kind \in Kinds, NEW sent, QueueRetries(kind, sent)
  PROVE  /\ \A r \in RunIds :
              \/ runs'[r] = runs[r]
              \/ /\ r[1] = kind /\ r \in pending' /\ runs'[r].pc = "wait"
                 /\ runs'[r].status = mon.last /\ runs'[r].uid = mon.uid
                 /\ runs'[r].marks => kind = "change"
         /\ pending \subseteq pending'
         /\ \A r \in debts' : r \in RunIds /\ (r \in debts \/ runs'[r].pc = "wait")
<1> DEFINE new == {kind} \X Retried(sent)
           fresh == NewRun(kind = "change" /\ OnlyFailure(sent))
<1>1. fresh.pc = "wait" /\ fresh.status = mon.last /\ fresh.uid = mon.uid
      /\ (fresh.marks => kind = "change")
  <2>1. (kind = "change" /\ OnlyFailure(sent)) \in BOOLEAN
    OBVIOUS
  <2>2. fresh.marks = (kind = "change" /\ OnlyFailure(sent))
    BY <2>1, Numbers, NewRunType
  <2> QED
    BY <2>1, <2>2, Numbers, NewRunType
<1>2. runs' = [r \in RunIds |-> IF r \in new THEN fresh ELSE runs[r]]
  BY DEF QueueRetries
<1>3. pending' = pending \cup new /\ debts' = debts \cup new
  BY DEF QueueRetries
<1>4. new \subseteq RunIds /\ \A r \in new : r[1] = kind
  BY DEF RunIds, Retried
<1>5. debts \subseteq RunIds
  BY DEF TypeOK, ObserverTypeOK
<1> HIDE DEF new, fresh
<1> QED
  BY <1>1, <1>2, <1>3, <1>4, <1>5

\* Reconcile's alerts: the runs they start are new ones, about the stored
\* status.
LEMMA SendKeepsAlertInv ==
  ASSUME TypeOK, AlertInv, SendStatusAlert \/ SendChangeAlert
  PROVE  AlertInv'
<1>1. ASSUME NEW kind \in Kinds, NEW sent, QueueRetries(kind, sent),
             rpc \in {"alert", "change"}, rpc = "alert" => kind = "status",
             rpc = "change" => kind = "change",
             waiting' = waiting, UNCHANGED <<store, cached, events>>,
             \/ rpc' = "idle" /\ mon' = NoCopy
             \/ rpc' = "change" /\ mon' = mon /\ rpc = "alert"
             \/ rpc' = "record" /\ mon' = mon /\ runs' = runs
      PROVE  AlertInv'
  <2>1. /\ \A r \in RunIds :
             \/ runs'[r] = runs[r]
             \/ /\ r[1] = kind /\ r \in pending' /\ runs'[r].pc = "wait"
                /\ runs'[r].status = mon.last /\ runs'[r].uid = mon.uid
                /\ runs'[r].marks => kind = "change"
        /\ pending \subseteq pending'
        /\ \A r \in debts' : r \in RunIds /\ (r \in debts \/ runs'[r].pc = "wait")
    BY <1>1, QueueRetriesEffect
  <2>2. RunsOwned'
    BY <1>1, <2>1 DEF AlertInv, RunsOwned, Live
  <2>3. OnlyChangesMark'
    BY <1>1, <2>1 DEF AlertInv, OnlyChangesMark
  <2>4. AlertAccounted'
    BY <2>1 DEF AlertInv, AlertAccounted
  <2>5. NoOverlap'
    <3>1. ASSUME rpc' \in {"change", "record"}, NEW n \in Notifiers
          PROVE  ~Live(<<"change", n>>)'
      <4>1. <<"change", n>> \in RunIds /\ <<"change", n>>[1] = "change"
        BY DEF RunIds, Kinds
      <4>2. ~Live(<<"change", n>>)
        BY <1>1, <4>1 DEF AlertInv, NoOverlap
      <4>3. runs'[<<"change", n>>] = runs[<<"change", n>>]
        BY <1>1, <2>1, <3>1, <4>1
      <4> QED
        BY <4>2, <4>3 DEF Live
    <3> QED
      BY <1>1, <3>1 DEF NoOverlap
  <2>6. AlertMatchesStore'
    BY <1>1 DEF AlertInv, AlertMatchesStore, StatusOf
  <2>7. RetryTellsCurrent'
    <3>1. store.live /\ store.uid = mon.uid => store.last = mon.last
      BY <1>1 DEF AlertInv, AlertMatchesStore, StatusOf
    <3> QED
      BY <1>1, <2>1, <3>1 DEF AlertInv, RetryTellsCurrent
  <2>8. CopiesAreVersions'
    <3>1. IsCopy(mon)'
      <4>1. IsCopy(NoCopy) /\ IsCopy(mon)
        BY NoCopyIsCopy DEF AlertInv, CopiesAreVersions
      <4> HIDE DEF NoCopy
      <4> QED
        BY <1>1, <4>1 DEF IsCopy, SpecOf
    <3>2. \A r \in RunIds : runs'[r].uid <= store.uid
      BY <2>1 DEF AlertInv, CopiesAreVersions, IsCopy
    <3> QED
      BY <1>1, <3>1, <3>2 DEF AlertInv, CopiesAreVersions, IsCopy, SpecOf
  <2> QED
    BY <2>2, <2>3, <2>4, <2>5, <2>6, <2>7, <2>8 DEF AlertInv
<1>2. CASE SendStatusAlert
  <2>1. PICK sent \in Sends(mon.last) : QueueRetries("status", sent)
    BY <1>2 DEF SendStatusAlert
  <2> QED
    BY <1>1, <1>2, <2>1 DEF SendStatusAlert, AfterAlert, ReturnAfter, Finish, Kinds
<1>3. CASE SendChangeAlert
  <2>1. PICK sent \in Sends("change") :
          /\ QueueRetries("change", sent)
          /\ IF \A n \in Notifiers : sent[n] = "ok"
               THEN rpc' = "record" /\ UNCHANGED <<wakeAt, mon, locals, waiting>>
               ELSE ReturnAfter(clock + CheckInterval)
    BY <1>3 DEF SendChangeAlert
  <2>2. CASE \A n \in Notifiers : sent[n] = "ok"
    <3>1. Retried(sent) = {}
      BY <2>2 DEF Retried
    <3>2. runs' = [r \in RunIds |-> runs[r]]
      BY <2>1, <3>1 DEF QueueRetries
    <3>3. runs' = runs
      BY <3>2 DEF TypeOK, RetryTypeOK
    <3> QED
      BY <1>1, <1>3, <2>1, <2>2, <3>3 DEF SendChangeAlert, Kinds
  <2>3. CASE ~(\A n \in Notifiers : sent[n] = "ok")
    BY <1>1, <1>3, <2>1, <2>3 DEF SendChangeAlert, ReturnAfter, Finish, Kinds
  <2> QED
    BY <2>2, <2>3
<1> QED
  BY <1>2, <1>3

-----------------------------------------------------------------------------
\* What users write: the same status, or a new object.
LEMMA UserWrites ==
  ASSUME TypeOK, User
  PROVE  /\ UNCHANGED cached
         /\ \E m \in Monitor : /\ Put(m) /\ m.uid >= store.uid
                              /\ \/ m.uid = store.uid + 1
                                 \/ /\ m.uid = store.uid /\ StatusOf(m) = StatusOf(store)
                                    /\ store.live
<1>0. store \in Monitor /\ store.uid \in Nat /\ store.gen \in Nat /\ store.rv \in Nat
  BY Numbers DEF Monitor
<1>1. CASE EditSpec
  <2>1. PICK b \in BOOLEAN : Put([store EXCEPT !.gen = store.gen + 1, !.valid = b])
    BY <1>1 DEF EditSpec
  <2> DEFINE m == [store EXCEPT !.gen = store.gen + 1, !.valid = b]
  <2>2. \A g \in Nat : [store EXCEPT !.gen = g, !.valid = b] \in Monitor
    BY <1>0 DEF Monitor
  <2>3. store.gen + 1 \in Nat
    BY <1>0
  <2>4. m \in Monitor
    BY <2>2, <2>3
  <2>5. m.uid = store.uid /\ m.obs = store.obs /\ m.last = store.last /\ m.since = store.since
        /\ m.noti = store.noti /\ m.notiSince = store.notiSince /\ m.checked = store.checked
    BY <1>0 DEF Monitor
  <2>6. Put(m)
    BY <2>1
  <2> HIDE DEF m
  <2> QED
    BY <1>0, <1>1, <2>4, <2>5, <2>6 DEF EditSpec, UserAct, StatusOf
<1>2. CASE EditMeta
  BY <1>0, <1>2 DEF EditMeta, UserAct
<1>3. CASE Delete
  <2> DEFINE m == [store EXCEPT !.live = FALSE]
  <2>1. m \in Monitor
    BY <1>0 DEF Monitor
  <2>2. m.uid = store.uid /\ m.obs = store.obs /\ m.last = store.last /\ m.since = store.since
        /\ m.noti = store.noti /\ m.notiSince = store.notiSince /\ m.checked = store.checked
    BY <1>0 DEF Monitor
  <2>3. Put(m) /\ store.live
    BY <1>3 DEF Delete
  <2> HIDE DEF m
  <2> QED
    BY <1>0, <1>3, <2>1, <2>2, <2>3 DEF Delete, UserAct, StatusOf
<1>4. CASE Recreate
  <2>1. PICK b \in BOOLEAN : Put(Created(store.uid + 1, store.rv, b))
    BY <1>4 DEF Recreate
  <2> DEFINE m == Created(store.uid + 1, store.rv, b)
  <2>2. m \in Monitor
    BY <1>0, CreatedType
  <2>3. m.uid = store.uid + 1
    BY DEF Created
  <2>4. Put(m)
    BY <2>1
  <2> HIDE DEF m
  <2>5. m.uid >= store.uid
    BY <1>0, <2>3
  <2> QED
    BY <1>4, <2>2, <2>3, <2>4, <2>5 DEF Recreate, UserAct
<1> QED
  BY <1>1, <1>2, <1>3, <1>4 DEF User

\* The cluster's steps: a user's write is about the same status or about
\* another object, and the watch only moves copies.
LEMMA ClusterKeepsAlertInv ==
  ASSUME TypeOK, AlertInv, Cluster
  PROVE  AlertInv'
<1>0. UNCHANGED <<rpc, mon, locals, waiting, pending, wrote, runs, heard, debts, used>>
  BY DEF Cluster, reconcilerVars, retryVars, observerVars
<1>1. RunsOwned' /\ OnlyChangesMark' /\ NoOverlap' /\ AlertAccounted'
  BY <1>0 DEF AlertInv, RunsOwned, OnlyChangesMark, NoOverlap, AlertAccounted, Live
<1>2. CASE UNCHANGED <<store, cached, events>>
  <2>1. AlertMatchesStore' /\ RetryTellsCurrent' /\ CopiesAreVersions'
    BY <1>0, <1>2 DEF AlertInv, AlertMatchesStore, RetryTellsCurrent, CopiesAreVersions,
       IsCopy, SpecOf, StatusOf
  <2> QED
    BY <1>1, <2>1 DEF AlertInv
<1>3. CASE Deliver
  <2>1. store' = store /\ cached' = Head(events) /\ events' = Tail(events) /\ events # << >>
    BY <1>3 DEF Deliver
  <2>2. cached' = events[1] /\ 1 \in 1..Len(events)
    BY <2>1, Numbers
  <2>3. \A i \in 1..Len(events') : i + 1 \in 1..Len(events) /\ events'[i] = events[i + 1]
    BY <2>1, Numbers
  <2>4. AlertMatchesStore' /\ RetryTellsCurrent'
    BY <1>0, <2>1 DEF AlertInv, AlertMatchesStore, RetryTellsCurrent, StatusOf
  <2>5. IsCopy(mon)' /\ IsCopy(cached)' /\ store'.rv > 0
    BY <1>0, <2>1, <2>2 DEF AlertInv, CopiesAreVersions, IsCopy, SpecOf
  <2>6. ASSUME NEW i \in 1..Len(events)'  PROVE IsCopy(events[i])'
    <3>1. IsCopy(events[i + 1]) /\ events'[i] = events[i + 1]
      BY <2>3 DEF AlertInv, CopiesAreVersions
    <3> QED
      BY <2>1, <3>1 DEF IsCopy, SpecOf
  <2>7. \A r \in RunIds : runs'[r].uid <= store'.uid
    BY <1>0, <2>1 DEF AlertInv, CopiesAreVersions
  <2> QED
    BY <1>1, <2>4, <2>5, <2>6, <2>7 DEF AlertInv, CopiesAreVersions
<1>4. CASE User
  <2>1. PICK m \in Monitor : /\ Put(m) /\ m.uid >= store.uid
                             /\ \/ m.uid = store.uid + 1
                                \/ /\ m.uid = store.uid /\ StatusOf(m) = StatusOf(store)
                                   /\ store.live
    BY <1>4, UserWrites
  <2>2. UNCHANGED cached
    BY <1>4, UserWrites
  <2>3. store'.uid = m.uid /\ store'.last = m.last /\ StatusOf(store)' = StatusOf(m)
        /\ store'.rv = store.rv + 1
    BY <2>1, Numbers, PutFields
  <2>4. /\ store'.rv > 0
        /\ mon.uid <= store'.uid /\ mon.rv < store'.rv
        /\ cached.uid <= store'.uid /\ cached.rv < store'.rv
        /\ \A i \in 1..Len(events)' : IsCopy(events[i])'
        /\ \A r \in RunIds : runs[r].uid <= store'.uid
    BY <2>1, PutKeepsCopies DEF AlertInv
  <2>5. store'.rv \in Nat
    BY <2>3, Numbers
  <2>6. IsCopy(mon)' /\ IsCopy(cached)'
    BY <1>0, <2>2, <2>4, <2>5, Numbers DEF IsCopy
  <2>7. CopiesAreVersions'
    BY <1>0, <2>4, <2>6 DEF CopiesAreVersions
  <2>8. \A n \in Nat : n <= store.uid => n # store.uid + 1
    BY Numbers
  <2>9. mon.uid <= store.uid /\ \A r \in RunIds : runs[r].uid <= store.uid
    BY DEF AlertInv, CopiesAreVersions, IsCopy
  <2>10. AlertMatchesStore'
    <3>1. CASE m.uid = store.uid + 1
      BY <1>0, <2>3, <2>8, <2>9, <3>1, Numbers DEF AlertMatchesStore
    <3>2. CASE m.uid = store.uid /\ StatusOf(m) = StatusOf(store) /\ store.live
      <4>1. StatusOf(mon)' = StatusOf(mon)
        BY <1>0 DEF StatusOf
      <4> QED
        BY <1>0, <2>3, <3>2, <4>1 DEF AlertInv, AlertMatchesStore
    <3> QED
      BY <2>1, <3>1, <3>2
  <2>11. RetryTellsCurrent'
    <3>1. CASE m.uid = store.uid + 1
      BY <1>0, <2>3, <2>8, <2>9, <3>1, Numbers DEF RetryTellsCurrent
    <3>2. CASE m.uid = store.uid /\ StatusOf(m) = StatusOf(store) /\ store.live
      <4>1. m.last = store.last
        BY <3>2 DEF StatusOf
      <4> QED
        BY <1>0, <2>3, <3>2, <4>1 DEF AlertInv, RetryTellsCurrent
    <3> QED
      BY <2>1, <3>1, <3>2
  <2> QED
    BY <1>1, <2>7, <2>10, <2>11 DEF AlertInv
<1> QED
  BY <1>2, <1>3, <1>4 DEF Cluster, TimerFires, Tick
\* A restart forgets every goroutine and every debt.
LEMMA RestartKeepsAlertInv ==
  ASSUME TypeOK, AlertInv, Restart
  PROVE  AlertInv'
<1>1. Off.pc = "off" /\ ~Off.marks /\ Off.uid = 0
  BY DEF Off
<1> HIDE DEF Off
<1>2. \A r \in RunIds : runs'[r] = Off
  BY DEF Restart
<1>3. RunsOwned' /\ OnlyChangesMark' /\ NoOverlap' /\ AlertMatchesStore' /\ RetryTellsCurrent'
      /\ AlertAccounted'
  BY <1>1, <1>2 DEF Restart, RunsOwned, OnlyChangesMark, NoOverlap, AlertMatchesStore,
     RetryTellsCurrent, AlertAccounted, Live
<1>4. CopiesAreVersions'
  <2>1. IsCopy(NoCopy) /\ store.rv > 0
    BY NoCopyIsCopy DEF AlertInv, CopiesAreVersions
  <2> HIDE DEF NoCopy
  <2>2. store' = store /\ cached' = store /\ events' = << >> /\ mon' = NoCopy
    BY DEF Restart
  <2>3. IsCopy(mon)'
    BY <2>1, <2>2 DEF IsCopy, SpecOf
  <2>4. IsCopy(cached)'
    BY <2>2, Numbers DEF IsCopy
  <2>5. \A r \in RunIds : runs'[r].uid <= store'.uid
    BY <1>1, <1>2, <2>2, Numbers
  <2>6. 1..Len(events') = {}
    BY <2>2
  <2> QED
    BY <2>1, <2>2, <2>3, <2>4, <2>5, <2>6 DEF CopiesAreVersions
<1> QED
  BY <1>3, <1>4 DEF AlertInv

\* The invariant holds at the start.
LEMMA AlertInvInit == Init => AlertInv
<1> SUFFICES ASSUME Init PROVE AlertInv
  OBVIOUS
<1>0. TypeOK
  BY TypeInit
<1>1. Off.pc = "off" /\ ~Off.marks /\ Off.uid = 0
  BY DEF Off
<1> HIDE DEF Off
<1>2. \A r \in RunIds : runs[r] = Off
  BY DEF Init
<1>3. RunsOwned /\ OnlyChangesMark /\ NoOverlap /\ AlertMatchesStore /\ RetryTellsCurrent
      /\ AlertAccounted
  BY <1>1, <1>2 DEF Init, RunsOwned, OnlyChangesMark, NoOverlap, AlertMatchesStore,
     RetryTellsCurrent, AlertAccounted, Live
<1>4. CopiesAreVersions
  <2>1. cached = store /\ events = << >> /\ mon = NoCopy
    BY Zenon DEF Init, ClusterInit
  <2>2. store.rv = 1
    <3>1. ASSUME NEW v \in BOOLEAN, store = Created(1, 1, v)  PROVE store.rv = 1
      BY <3>1 DEF Created
    <3>2. ASSUME NEW s \in Statuses, store = Legacy(s)  PROVE store.rv = 1
      BY <3>2 DEF Legacy, Created
    <3>3. \/ \E v \in BOOLEAN : store = Created(1, 1, v)
          \/ \E s \in Statuses : store = Legacy(s)
      BY DEF Init, ClusterInit
    <3> QED
      BY <3>1, <3>2, <3>3
  <2>3. NoCopy.uid = 0 /\ NoCopy.rv = 0
    BY DEF NoCopy, Created
  <2> HIDE DEF NoCopy
  <2>4. IsCopy(mon)
    BY <1>0, <2>1, <2>2, <2>3, Numbers DEF IsCopy
  <2>5. IsCopy(cached)
    BY <1>0, <2>1, Numbers DEF IsCopy
  <2>6. \A r \in RunIds : runs[r].uid <= store.uid
    BY <1>0, <1>1, <1>2, Numbers
  <2>7. 1..Len(events) = {}
    BY <2>1
  <2> QED
    BY <2>2, <2>4, <2>5, <2>6, <2>7 DEF CopiesAreVersions
<1> QED
  BY <1>3, <1>4 DEF AlertInv

\* Every step keeps the invariant.
LEMMA AlertInvStep == TypeOK /\ AlertInv /\ [Next]_vars => AlertInv'
<1> SUFFICES ASSUME TypeOK, AlertInv, [Next]_vars PROVE AlertInv'
  OBVIOUS
<1>1. CASE Reconcile
  BY <1>1, StopKeepsAlertInv, CheckKeepsAlertInv, UpdateKeepsAlertInv, SendKeepsAlertInv
     DEF Reconcile
<1>2. CASE ReconcileFails
  BY <1>2, CheckKeepsAlertInv
<1>3. CASE Restart
  BY <1>3, RestartKeepsAlertInv
<1>4. CASE Cluster
  BY <1>4, ClusterKeepsAlertInv
<1>5. CASE \E r \in RunIds : Retry(r)
  BY <1>5, RetryKeepsAlertInv
<1>6. CASE UNCHANGED vars
  <2>1. UNCHANGED <<store, cached, events, rpc, mon, waiting, pending, runs, debts>>
    BY <1>6 DEF vars, clusterVars, reconcilerVars, retryVars, observerVars
  <2> QED
    BY <2>1 DEF AlertInv, RunsOwned, OnlyChangesMark, CopiesAreVersions, NoOverlap,
       AlertMatchesStore, RetryTellsCurrent, AlertAccounted, Live, IsCopy, SpecOf, StatusOf
<1> QED
  BY <1>1, <1>2, <1>3, <1>4, <1>5, <1>6 DEF Next

\* The inductive invariant holds in every reachable state.
THEOREM AlertInvariant == Spec => []AlertInv
<1>1. Init => TypeOK /\ AlertInv
  BY TypeInit, AlertInvInit
<1>2. (TypeOK /\ AlertInv) /\ [Next]_vars => (TypeOK /\ AlertInv)'
  BY TypeStep, AlertInvStep
<1> QED
  BY <1>1, <1>2, PTL DEF Spec

\* Stop's promise: no retry of an earlier check is alive between the moment
\* Stop returns and the new check's alerts.
THEOREM RetriesNeverOverlap == Spec => []NoOverlap
<1>1. AlertInv => NoOverlap
  BY DEF AlertInv
<1> QED
  BY <1>1, AlertInvariant, PTL

\* Reconcile alerts about the status that is stored while it alerts.
THEOREM AlertsMatchStore == Spec => []AlertMatchesStore
<1>1. AlertInv => AlertMatchesStore
  BY DEF AlertInv
<1> QED
  BY <1>1, AlertInvariant, PTL

\* A retry never announces a status that a newer check has replaced.
THEOREM RetriesTellCurrent == Spec => []RetryTellsCurrent
<1>1. AlertInv => RetryTellsCurrent
  BY DEF AlertInv
<1> QED
  BY <1>1, AlertInvariant, PTL

\* No failed alert is lost while the operator runs and the monitor exists.
THEOREM AlertsAccounted == Spec => []AlertAccounted
<1>1. AlertInv => AlertAccounted
  BY DEF AlertInv
<1> QED
  BY <1>1, AlertInvariant, PTL

-----------------------------------------------------------------------------
(***************************************************************************)
(* What MonitorController promises: it implements Announcements, a         *)
(* monitor's status only moves forward (PromiseInv is the strengthening of *)
(* AlertInv that both need), and no monitor is forgotten (FollowInv).      *)
(***************************************************************************)

(***************************************************************************)
(* The object and its copies.  A copy with the store's version is the      *)
(* stored object, so an accepted update writes a check of that object.     *)
(***************************************************************************)
StoreSane ==
  /\ store.uid > 0 /\ cached.uid > 0 /\ \A i \in 1..Len(events) : events[i].uid > 0
  /\ store.since <= store.checked /\ store.checked <= clock /\ store.obs <= store.gen

CopiesAreExact ==
  /\ cached.rv = store.rv => cached = store
  /\ \A i \in 1..Len(events) : events[i].rv = store.rv => events[i] = store
  /\ rpc \in {"stop", "reread", "check"} /\ mon.rv = store.rv => mon = store

ChecksStored ==
  /\ rpc = "update" /\ mon.rv = store.rv =>
        \E status \in Statuses : mon = Checked(store, status, locals.started)
  /\ rpc = "idle" => mon = NoCopy
  /\ rpc \notin {"idle", "stop"} => ~locals.gone
  /\ locals.gone => mon = NoCopy
  /\ rpc # "idle" /\ ~locals.gone => mon.uid > 0
  /\ rpc \in {"stop", "reread", "check", "update"} /\ ~locals.gone =>
        store.checked <= locals.started /\ locals.started <= clock

\* What Reconcile knows of the check it alerts about.
AlertsChange ==
  /\ rpc \in {"update", "alert", "change", "record"} =>
        mon.last \in Statuses /\ mon.noti # "absent" /\ locals.notified = mon.noti
  /\ rpc \in {"change", "record"} => locals.notified # mon.last
  /\ rpc = "record" => \A n \in Subscribers : heard[n] = mon.last

\* The retries of a change alert: one that is to record the change is alone,
\* and every other subscriber has been told; until it is recorded, the change
\* is not announced.
RetryTells(r) ==
  /\ runs[r].uid > 0 /\ runs[r].status \in Statuses
  /\ runs[r].pc \in Marking => runs[r].marks
  /\ runs[r].marks => \A q \in RunIds : Live(q) /\ q[1] = "change" => q = r
  /\ runs[r].marks /\ runs[r].pc # "exit" =>
       \A n \in Subscribers : \/ heard[n] = runs[r].status
                              \/ n = r[2] /\ runs[r].pc \in Waiting
  /\ r[1] = "change" /\ runs[r].pc \in Waiting /\ store.live /\ store.uid = runs[r].uid
       => Notified(store) # store.last
  /\ runs[r].pc = "write" => /\ runs[r].copy <= store.rv
                             /\ runs[r].copy = store.rv => store.last = runs[r].status
RetriesTell == \A r \in RunIds : Live(r) => RetryTells(r)

PromiseInv == StoreSane /\ CopiesAreExact /\ ChecksStored /\ AlertsChange /\ RetriesTell

-----------------------------------------------------------------------------
(* The records.                                                            *)

\* The numbers of an object are numbers.
LEMMA MonitorNumbers ==
  ASSUME NEW m \in Monitor
  PROVE  /\ m.rv \in Nat /\ m.uid \in Nat /\ m.gen \in Nat /\ m.obs \in Nat
         /\ m.since \in Nat /\ m.checked \in Nat
         /\ m.last \in Statuses \cup {""}
BY DEF Monitor

\* What an update stores, field by field.
LEMMA PutStatus ==
  ASSUME NEW m \in Monitor, store.rv \in Nat, Put(m)
  PROVE  /\ store'.since = m.since /\ store'.checked = m.checked
         /\ store'.obs = m.obs /\ store'.gen = m.gen /\ store'.noti = m.noti
         /\ store'.live = m.live /\ store'.last = m.last /\ store'.uid = m.uid
         /\ store'.valid = m.valid /\ Notified(store)' = Notified(m)
<1>1. store' = [m EXCEPT !.rv = store.rv + 1]
  BY DEF Put
<1>2. \A n : /\ [m EXCEPT !.rv = n].since = m.since /\ [m EXCEPT !.rv = n].checked = m.checked
             /\ [m EXCEPT !.rv = n].obs = m.obs /\ [m EXCEPT !.rv = n].gen = m.gen
             /\ [m EXCEPT !.rv = n].noti = m.noti /\ [m EXCEPT !.rv = n].live = m.live
             /\ [m EXCEPT !.rv = n].last = m.last /\ [m EXCEPT !.rv = n].uid = m.uid
             /\ [m EXCEPT !.rv = n].valid = m.valid
  BY DEF Monitor
<1> QED
  BY <1>1, <1>2 DEF Notified

\* What a check writes: another time, perhaps another status, and nothing of
\* what is announced.
LEMMA CheckedFields ==
  ASSUME NEW m \in Monitor, NEW status \in Statuses, NEW now \in Nat
  PROVE  LET c == Checked(m, status, now) IN
         /\ c \in Monitor /\ c.rv = m.rv /\ c.uid = m.uid /\ c.live = m.live /\ c.gen = m.gen
         /\ c.last = status /\ c.noti = Notified(m) /\ c.checked = now /\ c.obs = m.gen
         /\ c.since \in {now, m.since} /\ c.noti # "absent" /\ Notified(c) = Notified(m)
<1>1. Checked(m, status, now) \in Monitor
  BY CheckedType
<1> DEFINE c == Checked(m, status, now)
<1>2. /\ c.rv = m.rv /\ c.uid = m.uid /\ c.live = m.live /\ c.gen = m.gen
      /\ c.last = status /\ c.noti = Notified(m) /\ c.checked = now /\ c.obs = m.gen
      /\ c.since \in {now, m.since}
  BY DEF Checked, Monitor
<1>3. Notified(m) # "absent"
  BY MonitorNumbers DEF Notified, Statuses
<1> HIDE DEF c
<1>4. Notified(c) = Notified(m) /\ c.noti # "absent"
  BY <1>2, <1>3 DEF Notified
<1> QED
  BY <1>1, <1>2, <1>4 DEF c

\* What an announcement changes.
LEMMA AnnouncedStatus ==
  ASSUME NEW m \in Monitor
  PROVE  /\ Announced(m).since = m.since /\ Announced(m).checked = m.checked
         /\ Announced(m).obs = m.obs /\ Announced(m).gen = m.gen
         /\ Announced(m).noti = m.last /\ Notified(Announced(m)) = m.last
<1>1. /\ Announced(m).since = m.since /\ Announced(m).checked = m.checked
      /\ Announced(m).obs = m.obs /\ Announced(m).gen = m.gen
      /\ Announced(m).noti = m.last
  BY DEF Announced, Monitor
<1> QED
  BY <1>1, MonitorNumbers DEF Notified, Statuses

\* After a write no copy but the newest event has the store's version.
LEMMA PutKeepsExact ==
  ASSUME TypeOK, AlertInv, StoreSane, NEW m \in Monitor, Put(m), m.uid >= store.uid
  PROVE  /\ mon.rv < store'.rv /\ cached.rv < store'.rv /\ store'.rv = store.rv + 1
         /\ mon.rv # store'.rv /\ cached.rv # store'.rv
         /\ store'.uid > 0 /\ events' = Append(events, store')
         /\ \A i \in 1..Len(events)' : /\ events'[i].uid > 0
                                       /\ events'[i].rv = store'.rv => events'[i] = store'
<1>1. /\ store'.rv = store.rv + 1 /\ store'.uid = m.uid /\ events' = Append(events, store')
      /\ mon.rv < store'.rv /\ cached.rv < store'.rv
  BY Numbers, PutFields, PutKeepsCopies DEF AlertInv
<1>2. store'.uid > 0
  <2>1. m.uid \in Nat
    BY MonitorNumbers
  <2>2. store.uid > 0 /\ store.uid \in Nat
    BY Numbers DEF StoreSane
  <2> QED
    BY <1>1, <2>1, <2>2
<1>3. ASSUME NEW i \in 1..Len(events)'
      PROVE  events'[i].uid > 0 /\ (events'[i].rv = store'.rv => events'[i] = store')
  <2>1. CASE i = Len(events) + 1
    BY <1>1, <1>2, <2>1, Numbers
  <2>2. CASE i # Len(events) + 1
    <3>1. i \in 1..Len(events) /\ events'[i] = events[i]
      BY <1>1, <2>2, Numbers
    <3>2. events[i].rv <= store.rv /\ events[i].rv \in Nat /\ events[i].uid > 0
      BY <3>1, Numbers DEF AlertInv, CopiesAreVersions, IsCopy, StoreSane
    <3> QED
      BY <1>1, <3>1, <3>2, Numbers
  <2> QED
    BY <2>1, <2>2
<1> QED
  BY <1>1, <1>2, <1>3, Numbers

-----------------------------------------------------------------------------
(* The goroutines.                                                         *)

(***************************************************************************)
(* What a goroutine's step tells, and when it writes.                      *)
(***************************************************************************)
RetryTelling(r) ==
  /\ UNCHANGED clock
  /\ \/ UNCHANGED heard
     \/ /\ runs[r].pc = "send" /\ r[1] = "change" /\ runs'[r].pc \in {"mark", "exit"}
        /\ heard' = [heard EXCEPT ![r[2]] = runs[r].status]
  /\ \/ UNCHANGED <<store, events>>
     \/ /\ runs[r].pc = "write" /\ store.rv = runs[r].copy /\ store.live
        /\ Put(Announced(store)) /\ runs'[r].pc \in {"note", "exit"}
  /\ \/ runs'[r].pc \in {"off", "exit"}
     \/ runs[r].pc \in Waiting /\ runs'[r].pc \in Waiting
     \/ /\ runs[r].pc = "send" /\ runs[r].marks /\ runs'[r].pc = "mark"
        /\ r[1] = "change" => heard' = [heard EXCEPT ![r[2]] = runs[r].status]
     \/ /\ runs[r].pc = "mark" /\ runs'[r].pc = "write" /\ runs'[r].copy = store.rv
        /\ store.last = runs[r].status /\ UNCHANGED store
     \/ runs[r].pc \in {"mark", "write"} /\ runs'[r].pc \in {"note", "mark"}

\* Every step of a goroutine is one of these.
LEMMA RetryHasTelling ==
  ASSUME TypeOK, NEW r \in RunIds, Retry(r)
  PROVE  RetryTelling(r)
<1>0. runs \in [RunIds -> Run] /\ runs[r] \in Run
  BY DEF TypeOK, RetryTypeOK
<1>1. ASSUME NEW pc, Goto(r, pc)
      PROVE  runs'[r].pc = pc
  BY <1>0, <1>1, GotoFields
<1> USE DEF clusterVars, reconcilerVars, observerVars, Settle, Waiting
<1>2. CASE RetryStopped(r)
  BY <1>1, <1>2 DEF RetryStopped, RetryTelling
<1>3. CASE RetryTimer(r)
  BY <1>1, <1>3 DEF RetryTimer, RetryTelling
<1>4. CASE RetrySends(r)
  BY <1>1, <1>4 DEF RetrySends, RetryTelling
<1>5. CASE RetryAgain(r)
  <2>1. runs'[r].pc = "wait"
    BY <1>0, <1>5 DEF RetryAgain, Run
  <2> QED
    BY <1>5, <2>1 DEF RetryAgain, RetryTelling
<1>6. CASE RetryGivesUp(r)
  BY <1>1, <1>6 DEF RetryGivesUp, RetryTelling
<1>7. CASE MarkRead(r)
  <2>1. CASE /\ store.live /\ ~MovedOn(r)
             /\ runs' = [runs EXCEPT ![r].pc = "write", ![r].copy = store.rv, ![r].attempt = @ + 1]
    <3>1. runs'[r].pc = "write" /\ runs'[r].copy = store.rv
      BY <1>0, <2>1 DEF Run
    <3> QED
      BY <1>7, <2>1, <3>1 DEF MarkRead, MovedOn, RetryTelling
  <2>2. CASE Goto(r, "note") \/ Goto(r, "exit")
    BY <1>1, <1>7, <2>2 DEF MarkRead, RetryTelling
  <2> QED
    BY <1>7, <2>1, <2>2 DEF MarkRead
<1>8. CASE MarkWrite(r)
  BY <1>1, <1>8 DEF MarkWrite, RetryTelling
<1>9. CASE NoteWrite(r)
  BY <1>1, <1>9 DEF NoteWrite, RetryTelling
<1>10. CASE RetryExit(r)
  <2>1. runs'[r].pc = "off"
    BY <1>0, <1>10 DEF RetryExit, Off
  <2> QED
    BY <1>10, <2>1 DEF RetryExit, RetryTelling
<1> QED
  BY <1>2, <1>3, <1>4, <1>5, <1>6, <1>7, <1>8, <1>9, <1>10 DEF Retry

\* A goroutine's step keeps the invariant.
LEMMA RetryKeepsPromiseInv ==
  ASSUME TypeOK, AlertInv, PromiseInv, NEW r \in RunIds, Retry(r)
  PROVE  PromiseInv'
<1>1. RetryEffect(r) /\ RetryTelling(r)
  BY RetryHasEffect, RetryHasTelling
<1>2. /\ UNCHANGED <<rpc, mon, locals, cached, clock>> /\ Live(r) /\ RetryTells(r)
      /\ \A q \in RunIds \ {r} : runs'[q] = runs[q]
  BY <1>1 DEF RetryEffect, RetryTelling, Live, PromiseInv, RetriesTell
<1>3. \A q \in RunIds : Live(q)' => Live(q)
  BY <1>2 DEF Live
<1>4. heard' # heard => r[1] = "change" /\ rpc # "record"
  <2>1. heard' # heard => r[1] = "change"
    BY <1>1 DEF RetryTelling
  <2>2. r[1] = "change" => r = <<"change", r[2]>> /\ r[2] \in Notifiers
    BY DEF RunIds
  <2>3. r[1] = "change" => rpc # "record"
    BY <1>2, <2>2 DEF AlertInv, NoOverlap
  <2> QED
    BY <2>1, <2>3
<1>5. AlertsChange'
  BY <1>2, <1>4 DEF PromiseInv, AlertsChange
<1>6. ASSUME NEW q \in RunIds, q # r, Live(q)'
      PROVE  RetryTells(q)'
  <2>1. runs'[q] = runs[q] /\ Live(q) /\ RetryTells(q)
    BY <1>2, <1>3, <1>6 DEF PromiseInv, RetriesTell
  <2>2. runs[q].marks => q[1] = "change"
    BY DEF AlertInv, OnlyChangesMark
  <2>3. runs[q].marks => heard' = heard
    BY <1>2, <1>4, <1>6, <2>1 DEF RetryTells
  <2>4. store' # store => q[1] # "change"
    <3>1. store' # store => runs[r].pc = "write"
      BY <1>1 DEF RetryTelling
    <3> QED
      BY <1>2, <1>6, <2>1, <3>1 DEF RetryTells, Marking
  <2>5. runs[q].pc = "write" => q[1] = "change"
    BY DEF AlertInv, OnlyChangesMark
  <2>6. /\ runs'[q].uid > 0 /\ runs'[q].status \in Statuses
        /\ runs'[q].pc \in Marking => runs'[q].marks
        /\ runs'[q].marks => \A p \in RunIds : Live(p)' /\ p[1] = "change" => p = q
    BY <1>3, <2>1 DEF RetryTells
  <2>7. runs'[q].marks /\ runs'[q].pc # "exit" =>
          \A n \in Subscribers : \/ heard'[n] = runs'[q].status
                                 \/ n = q[2] /\ runs'[q].pc \in Waiting
    BY <2>1, <2>3 DEF RetryTells
  <2>8. q[1] = "change" => /\ Notified(store)' = Notified(store) /\ store' = store
    BY <2>4 DEF Notified
  <2> QED
    BY <2>1, <2>5, <2>6, <2>7, <2>8 DEF RetryTells
<1>7. ASSUME Live(r)'
      PROVE  RetryTells(r)'
  <2>1. /\ runs'[r].status = runs[r].status /\ runs'[r].uid = runs[r].uid
        /\ runs'[r].marks = runs[r].marks
    BY <1>1, <1>7 DEF RetryEffect, Live
  <2>2. /\ runs'[r].uid > 0 /\ runs'[r].status \in Statuses
        /\ runs'[r].pc \in Marking => runs'[r].marks
        /\ runs'[r].marks => \A p \in RunIds : Live(p)' /\ p[1] = "change" => p = r
    BY <1>1, <1>2, <1>3, <2>1 DEF RetryEffect, RetryTells
  <2>3. ASSUME runs'[r].marks, runs'[r].pc # "exit", NEW n \in Subscribers
        PROVE  \/ heard'[n] = runs'[r].status
               \/ n = r[2] /\ runs'[r].pc \in Waiting
    <3>1. \/ heard[n] = runs[r].status
          \/ n = r[2] /\ runs[r].pc \in Waiting
      <4>1. runs[r].pc # "exit"
        BY <1>1, <1>7, <2>3 DEF RetryTelling, Live, Waiting
      <4> QED
        BY <1>2, <2>1, <2>3, <4>1 DEF RetryTells
    <3>2. r[1] = "change"
      BY <2>1, <2>3 DEF AlertInv, OnlyChangesMark
    <3>3. heard \in [Notifiers -> Statuses \cup {""}] /\ n \in Notifiers /\ r[2] \in Notifiers
      BY DEF TypeOK, ObserverTypeOK, Subscribers, RunIds
    <3>4. CASE heard' = [heard EXCEPT ![r[2]] = runs[r].status]
      BY <2>1, <3>1, <3>3, <3>4
    <3>5. CASE heard' = heard
      <4>1. runs[r].pc \in Waiting => runs'[r].pc \in Waiting \/ heard'[n] = runs[r].status
        <5>1. CASE runs[r].pc = "send" /\ runs'[r].pc = "mark"
          <6>1. heard' = [heard EXCEPT ![r[2]] = runs[r].status]
            BY <1>1, <3>2, <5>1 DEF RetryTelling, Waiting
          <6> QED
            BY <3>1, <3>3, <6>1
        <5>2. CASE ~(runs[r].pc = "send" /\ runs'[r].pc = "mark")
          BY <1>1, <1>7, <2>3, <5>2 DEF RetryTelling, Live, Waiting
        <5> QED
          BY <5>1, <5>2
      <4> QED
        BY <2>1, <3>1, <3>5, <4>1
    <3> QED
      BY <1>1, <3>4, <3>5 DEF RetryTelling
  <2>4. runs'[r].pc \in Waiting => runs[r].pc \in Waiting /\ store' = store
    BY <1>1 DEF RetryEffect, RetryTelling, Waiting
  <2>5. r[1] = "change" /\ runs'[r].pc \in Waiting /\ store'.live /\ store'.uid = runs'[r].uid
           => Notified(store)' # store'.last
    BY <1>2, <2>1, <2>4 DEF RetryTells, Notified
  <2>6. runs'[r].pc = "write" => /\ runs'[r].copy = store'.rv /\ store'.last = runs'[r].status
                                 /\ store'.rv = store.rv
    BY <1>1, <2>1 DEF RetryTelling, Waiting
  <2>7. runs'[r].pc = "write" => /\ runs'[r].copy <= store'.rv
                                 /\ runs'[r].copy = store'.rv => store'.last = runs'[r].status
    BY <2>6, Numbers
  <2> QED
    BY <2>2, <2>3, <2>5, <2>7 DEF RetryTells
<1>8. RetriesTell'
  BY <1>6, <1>7 DEF RetriesTell
<1>9. StoreSane' /\ CopiesAreExact' /\ ChecksStored'
  <2>1. CASE UNCHANGED <<store, events>>
    BY <1>2, <2>1 DEF PromiseInv, StoreSane, CopiesAreExact, ChecksStored
  <2>2. CASE store.live /\ Put(Announced(store))
    <3>1. Announced(store) \in Monitor /\ Announced(store).uid = store.uid
      BY Numbers, AnnouncedFields
    <3>2. /\ store'.checked = store.checked /\ store'.since = store.since
          /\ store'.obs = store.obs /\ store'.gen = store.gen
      BY <2>2, <3>1, Numbers, PutStatus, AnnouncedStatus
    <3>3. Announced(store).uid >= store.uid
      BY <3>1, Numbers
    <3>4. /\ mon.rv # store'.rv /\ cached.rv # store'.rv /\ store'.uid > 0
          /\ \A i \in 1..Len(events)' : /\ events'[i].uid > 0
                                        /\ events'[i].rv = store'.rv => events'[i] = store'
      BY <2>2, <3>1, <3>3, PutKeepsExact DEF PromiseInv
    <3> HIDE DEF NoCopy
    <3>5. StoreSane'
      BY <1>2, <3>2, <3>4 DEF PromiseInv, StoreSane
    <3>6. CopiesAreExact'
      BY <1>2, <3>4 DEF PromiseInv, CopiesAreExact
    <3>7. ChecksStored'
      BY <1>2, <3>2, <3>4 DEF PromiseInv, ChecksStored
    <3> QED
      BY <3>5, <3>6, <3>7
  <2> QED
    BY <1>1, <2>1, <2>2 DEF RetryTelling
<1> QED
  BY <1>5, <1>8, <1>9 DEF PromiseInv

-----------------------------------------------------------------------------
(* Reconcile.                                                              *)

\* Goroutines that stay as they are, but for their stop channels, keep telling
\* what they told.
LEMMA QuietRunsTell ==
  ASSUME PromiseInv, UNCHANGED <<store, heard>>,
         \A r \in RunIds : /\ runs'[r].pc = runs[r].pc /\ runs'[r].uid = runs[r].uid
                           /\ runs'[r].status = runs[r].status /\ runs'[r].copy = runs[r].copy
                           /\ runs'[r].marks = runs[r].marks
  PROVE  RetriesTell'
<1>1. \A r \in RunIds : Live(r)' = Live(r)
  BY DEF Live
<1>2. Notified(store)' = Notified(store)
  BY DEF Notified
<1>3. ASSUME NEW r \in RunIds, Live(r)'
      PROVE  RetryTells(r)'
  BY <1>1, <1>2, <1>3 DEF PromiseInv, RetriesTell, RetryTells
<1> QED
  BY <1>3 DEF RetriesTell

\* The idle reconciler's locals.
LEMMA IdleLocals == NoLocals.gone = FALSE /\ NoCopy.rv = 0
BY DEF NoLocals, NoCopy, Created

\* An object that is unchanged, with its copies and the clock, stays sane.
LEMMA QuietStore ==
  ASSUME PromiseInv, UNCHANGED <<store, cached, events, clock>>
  PROVE  /\ StoreSane'
         /\ cached'.rv = store'.rv => cached' = store'
         /\ \A i \in 1..Len(events)' : events'[i].rv = store'.rv => events'[i] = store'
BY DEF PromiseInv, StoreSane, CopiesAreExact

\* Returning without a write keeps the invariant.
LEMMA FinishKeepsPromiseInv ==
  ASSUME PromiseInv, Finish, UNCHANGED <<store, cached, events, clock, runs, heard>>
  PROVE  PromiseInv'
<1>1. rpc' = "idle" /\ mon' = NoCopy /\ ~locals'.gone
  BY IdleLocals DEF Finish
<1> HIDE DEF NoCopy
<1>2. CopiesAreExact' /\ ChecksStored' /\ AlertsChange'
  BY <1>1, QuietStore DEF CopiesAreExact, ChecksStored, AlertsChange
<1>3. RetriesTell'
  BY QuietRunsTell
<1> QED
  BY <1>2, <1>3, QuietStore DEF PromiseInv

\* Returning with a write.
LEMMA PutFinishKeepsPromiseInv ==
  ASSUME TypeOK, AlertInv, PromiseInv, Finish, NEW m \in Monitor, Put(m), m.uid = store.uid,
         m.since <= m.checked, m.checked <= clock, m.obs <= m.gen,
         UNCHANGED <<cached, clock, runs, heard>>,
         \A n \in Notifiers : ~Live(<<"change", n>>)
  PROVE  PromiseInv'
<1>1. rpc' = "idle" /\ mon' = NoCopy /\ ~locals'.gone
  BY IdleLocals DEF Finish
<1> HIDE DEF NoCopy
<1>2. m.uid >= store.uid
  BY Numbers
<1>3. /\ cached.rv # store'.rv /\ store'.uid > 0
      /\ \A i \in 1..Len(events)' : /\ events'[i].uid > 0
                                    /\ events'[i].rv = store'.rv => events'[i] = store'
  BY <1>2, PutKeepsExact DEF PromiseInv
<1>4. /\ store'.since = m.since /\ store'.checked = m.checked
      /\ store'.obs = m.obs /\ store'.gen = m.gen
  BY Numbers, PutStatus
<1>5. StoreSane'
  BY <1>3, <1>4 DEF PromiseInv, StoreSane
<1>6. CopiesAreExact' /\ ChecksStored' /\ AlertsChange'
  BY <1>1, <1>3 DEF CopiesAreExact, ChecksStored, AlertsChange
<1>7. ASSUME NEW r \in RunIds, Live(r)'
      PROVE  RetryTells(r)'
  <2>1. Live(r) /\ RetryTells(r) /\ runs' = runs
    BY <1>7 DEF PromiseInv, RetriesTell, Live
  <2>2. r[1] # "change"
    <3>1. r[1] = "change" => r = <<"change", r[2]>> /\ r[2] \in Notifiers
      BY DEF RunIds
    <3> QED
      BY <2>1, <3>1
  <2>3. ~runs[r].marks /\ runs[r].pc \notin Marking
    BY <2>2 DEF AlertInv, OnlyChangesMark, Marking
  <2> QED
    BY <2>1, <2>2, <2>3 DEF RetryTells, Marking
<1> QED
  BY <1>5, <1>6, <1>7 DEF PromiseInv, RetriesTell

\* Reconcile's way into Stop and through it.
LEMMA StopKeepsPromiseInv ==
  ASSUME TypeOK, AlertInv, PromiseInv,
         \/ ReconcileGone \/ ReconcileDue \/ StopDone
         \/ \E r \in RunIds : StopClose(r) \/ StopWait(r)
  PROVE  PromiseInv'
<1> USE DEF clusterVars, reconcilerVars, observerVars, retryVars
<1>1. UNCHANGED <<store, cached, events, clock, heard>>
  BY DEF ReconcileGone, ReconcileDue, StopDone, StopClose, StopWait
<1>2. store.rv > 0 /\ store.rv # 0
  BY Numbers DEF AlertInv, CopiesAreVersions
<1>3. ASSUME UNCHANGED runs, CopiesAreExact', ChecksStored', AlertsChange'
      PROVE  PromiseInv'
  BY <1>1, <1>3, QuietStore, QuietRunsTell DEF PromiseInv
<1>4. CASE ReconcileGone
  <2>1. rpc' = "stop" /\ rpc = "idle" /\ mon' = mon /\ locals'.gone /\ UNCHANGED runs
    BY <1>4 DEF ReconcileGone, Dequeue, StopTake, NoLocals
  <2>2. mon = NoCopy
    BY <2>1 DEF PromiseInv, ChecksStored
  <2>3. mon'.rv # store'.rv
    BY <1>1, <1>2, <2>1, <2>2, IdleLocals
  <2> HIDE DEF NoCopy
  <2>4. CopiesAreExact' /\ ChecksStored' /\ AlertsChange'
    BY <1>1, <2>1, <2>2, <2>3, QuietStore DEF CopiesAreExact, ChecksStored, AlertsChange
  <2> QED
    BY <1>3, <2>1, <2>4
<1>5. CASE ReconcileDue
  <2>1. /\ rpc' = "stop" /\ mon' = cached /\ UNCHANGED runs
        /\ locals'.gone = FALSE /\ locals'.started = clock
    BY <1>5 DEF ReconcileDue, StopTake, NoLocals
  <2>2. CopiesAreExact'
    BY <1>1, <2>1, QuietStore DEF CopiesAreExact
  <2>3. clock \in Nat
    BY DEF TypeOK, ClusterTypeOK
  <2> HIDE DEF NoCopy
  <2>4. ChecksStored' /\ AlertsChange'
    BY <1>1, <2>1, <2>3 DEF PromiseInv, StoreSane, ChecksStored, AlertsChange
  <2> QED
    BY <1>3, <2>1, <2>2, <2>4
<1>6. CASE StopDone
  <2>1. CASE locals.gone
    BY <1>1, <1>6, <2>1, FinishKeepsPromiseInv DEF StopDone, ReturnDone
  <2>2. CASE ~locals.gone
    <3>1. rpc = "stop" /\ rpc' \in {"reread", "check"} /\ UNCHANGED <<mon, locals, runs>>
      BY <1>6, <2>2 DEF StopDone
    <3>2. CopiesAreExact' /\ ChecksStored' /\ AlertsChange'
      BY <1>1, <2>2, <3>1 DEF PromiseInv, CopiesAreExact, ChecksStored, AlertsChange
    <3> QED
      BY <1>3, <3>1, <3>2
  <2> QED
    BY <2>1, <2>2
<1>7. ASSUME NEW r \in RunIds, StopClose(r)  PROVE PromiseInv'
  <2>1. \A q \in RunIds : /\ runs'[q].pc = runs[q].pc /\ runs'[q].uid = runs[q].uid
                          /\ runs'[q].status = runs[q].status /\ runs'[q].copy = runs[q].copy
                          /\ runs'[q].marks = runs[q].marks
    <3> DEFINE next == [runs[r] EXCEPT !.stop = TRUE]
    <3>1. runs \in [RunIds -> Run] /\ runs[r] \in Run
      BY DEF TypeOK, RetryTypeOK
    <3>2. next.pc = runs[r].pc /\ next.uid = runs[r].uid /\ next.status = runs[r].status
          /\ next.copy = runs[r].copy /\ next.marks = runs[r].marks
      BY <3>1 DEF Run
    <3>3. runs' = [runs EXCEPT ![r] = next]
      BY <1>7, <3>1 DEF StopClose
    <3> HIDE DEF next
    <3> QED
      BY <3>1, <3>2, <3>3
  <2>2. RetriesTell'
    BY <1>1, <2>1, QuietRunsTell
  <2>3. UNCHANGED <<rpc, mon, locals>>
    BY <1>7 DEF StopClose
  <2>4. CopiesAreExact' /\ ChecksStored' /\ AlertsChange'
    BY <1>1, <2>3 DEF PromiseInv, CopiesAreExact, ChecksStored, AlertsChange
  <2> QED
    BY <1>1, <2>2, <2>4, QuietStore DEF PromiseInv
<1>8. ASSUME NEW r \in RunIds, StopWait(r)  PROVE PromiseInv'
  <2>1. UNCHANGED <<rpc, mon, locals, runs>>
    BY <1>8 DEF StopWait
  <2>2. CopiesAreExact' /\ ChecksStored' /\ AlertsChange'
    BY <1>1, <2>1 DEF PromiseInv, CopiesAreExact, ChecksStored, AlertsChange
  <2> QED
    BY <1>3, <2>1, <2>2
<1> QED
  BY <1>4, <1>5, <1>6, <1>7, <1>8

\* Reconcile's reads and its check.
LEMMA CheckKeepsPromiseInv ==
  ASSUME TypeOK, AlertInv, PromiseInv,
         ReconcileInvalid \/ ReconcileSkip \/ ReconcileFails \/ Reread \/ Check
  PROVE  PromiseInv'
<1> USE DEF clusterVars, observerVars, retryVars
<1>1. UNCHANGED <<store, cached, events, clock, heard, runs>>
  BY DEF ReconcileInvalid, ReconcileSkip, ReconcileFails, ReconcileGetFails, SetupFails, CheckFails,
         Reread, Check
<1>2. Finish => PromiseInv'
  BY <1>1, FinishKeepsPromiseInv
<1>3. CASE ReconcileInvalid \/ ReconcileSkip \/ ReconcileFails
  BY <1>2, <1>3 DEF ReconcileInvalid, ReconcileSkip, ReconcileFails, ReconcileGetFails, SetupFails,
     CheckFails, ReturnDone, ReturnError, ReturnAfter
<1>4. CASE Reread
  <2>1. CASE rpc' = "check" /\ mon' = store /\ UNCHANGED locals
    <3>1. rpc = "reread" /\ store.uid > 0
      BY <1>4 DEF Reread, PromiseInv, StoreSane
    <3>2. CopiesAreExact' /\ ChecksStored' /\ AlertsChange'
      BY <1>1, <2>1, <3>1, QuietStore DEF PromiseInv, CopiesAreExact, ChecksStored, AlertsChange
    <3> QED
      BY <1>1, <3>2, QuietStore, QuietRunsTell DEF PromiseInv
  <2> QED
    BY <1>2, <1>4, <2>1 DEF Reread, ReturnDone, ReturnError, ReturnAfter
<1>5. CASE Check
  <2>1. PICK status \in Statuses : mon' = Checked(mon, status, locals.started)
    BY <1>5 DEF Check
  <2>2. locals.started \in Nat /\ mon \in Monitor
    BY DEF TypeOK, ReconcilerTypeOK
  <2>3. /\ mon'.rv = mon.rv /\ mon'.uid = mon.uid /\ mon'.last = status
        /\ mon'.noti = Notified(mon) /\ mon'.noti # "absent"
    BY <2>1, <2>2, CheckedFields
  <2>4. /\ rpc = "check" /\ rpc' = "update" /\ locals'.notified = Notified(mon)
        /\ locals'.gone = locals.gone /\ locals'.started = locals.started
    BY <1>5 DEF Check, TypeOK, ReconcilerTypeOK
  <2>5. CopiesAreExact'
    BY <1>1, <2>4, QuietStore DEF CopiesAreExact
  <2>6. AlertsChange'
    BY <2>3, <2>4 DEF AlertsChange
  <2>7. mon.rv = store.rv => mon' = Checked(store, status, locals.started)
    BY <2>1, <2>4 DEF PromiseInv, CopiesAreExact
  <2>8. ChecksStored'
    <3>1. mon'.rv = store'.rv => \E st \in Statuses : mon' = Checked(store', st, locals'.started)
      BY <1>1, <2>3, <2>4, <2>7
    <3> HIDE DEF NoCopy
    <3>2. /\ ~locals'.gone /\ mon'.uid > 0 /\ store'.checked <= locals'.started
          /\ locals'.started <= clock'
      BY <1>1, <2>3, <2>4 DEF PromiseInv, ChecksStored
    <3> QED
      BY <2>4, <3>1, <3>2 DEF ChecksStored
  <2> QED
    BY <1>1, <2>5, <2>6, <2>8, QuietStore, QuietRunsTell DEF PromiseInv
<1> QED
  BY <1>3, <1>4, <1>5

\* An accepted update of a check writes a check of the stored object.
LEMMA AcceptedCheck ==
  ASSUME TypeOK, AlertInv, PromiseInv, rpc = "update", Accepts(mon)
  PROVE  /\ mon.since <= mon.checked /\ mon.checked <= clock /\ mon.obs <= mon.gen
         /\ mon.since >= store.since /\ mon.checked >= store.checked /\ mon.obs >= store.obs
         /\ Notified(mon) = Notified(store) /\ mon.last \in Statuses
         /\ mon.uid = store.uid /\ mon.live = store.live /\ store.live
<1>1. store.live /\ mon.rv = store.rv
  BY DEF Accepts
<1>2. PICK status \in Statuses : mon = Checked(store, status, locals.started)
  BY <1>1 DEF PromiseInv, ChecksStored
<1>3. locals.started \in Nat /\ store \in Monitor /\ clock \in Nat
  BY DEF TypeOK, ReconcilerTypeOK, ClusterTypeOK
<1>4. /\ mon.uid = store.uid /\ mon.live = store.live /\ mon.gen = store.gen /\ mon.last = status
      /\ mon.checked = locals.started /\ mon.obs = store.gen
      /\ mon.since \in {locals.started, store.since}
      /\ Notified(mon) = Notified(store)
  BY <1>2, <1>3, CheckedFields
<1>5. store.checked <= locals.started /\ locals.started <= clock
  BY DEF PromiseInv, ChecksStored
<1>6. store.since <= store.checked /\ store.obs <= store.gen
  BY DEF PromiseInv, StoreSane
<1>7. store.since \in Nat /\ store.checked \in Nat /\ store.obs \in Nat /\ store.gen \in Nat
  BY <1>3, MonitorNumbers
<1>8. /\ mon.since <= mon.checked /\ mon.checked <= clock /\ mon.obs <= mon.gen
      /\ mon.since >= store.since /\ mon.checked >= store.checked /\ mon.obs >= store.obs
  BY <1>3, <1>4, <1>5, <1>6, <1>7
<1> QED
  BY <1>1, <1>4, <1>8

\* Reconcile's two status updates.
LEMMA UpdateKeepsPromiseInv ==
  ASSUME TypeOK, AlertInv, PromiseInv, UpdateStatus \/ RecordChange
  PROVE  PromiseInv'
<1> USE DEF retryVars, observerVars, ReturnError, ReturnAfter
<1>1. UNCHANGED <<cached, clock, heard, runs>> /\ rpc \in {"update", "record"}
  BY DEF UpdateStatus, RecordChange
<1>2. \A n \in Notifiers : ~Live(<<"change", n>>)
  <2>1. \A n \in Notifiers : <<"change", n>> \in RunIds
    BY DEF RunIds, Kinds
  <2> QED
    BY <1>1, <2>1 DEF AlertInv, NoOverlap
<1>3. CASE WriteRefused(mon)
  BY <1>1, <1>3, FinishKeepsPromiseInv DEF WriteRefused
<1>4. CASE UpdateStatus /\ WriteLost(mon)
  <2>1. rpc = "update" /\ Accepts(mon) /\ Put(mon) /\ Finish
    BY <1>4 DEF UpdateStatus, WriteLost
  <2> QED
    BY <1>1, <1>2, <2>1, AcceptedCheck, Numbers, PutFinishKeepsPromiseInv
<1>5. CASE /\ rpc = "update" /\ Accepts(mon) /\ Put(mon) /\ mon' = store' /\ rpc' = "alert"
           /\ UNCHANGED locals
  <2>1. mon \in Monitor /\ mon.uid >= store.uid
    BY <1>5, AcceptedCheck, Numbers
  <2>2. /\ store'.since = mon.since /\ store'.checked = mon.checked /\ store'.obs = mon.obs
        /\ store'.gen = mon.gen /\ store'.noti = mon.noti /\ store'.last = mon.last
    BY <1>5, <2>1, Numbers, PutStatus
  <2>3. /\ cached.rv # store'.rv /\ store'.uid > 0
        /\ \A i \in 1..Len(events)' : /\ events'[i].uid > 0
                                      /\ events'[i].rv = store'.rv => events'[i] = store'
    BY <1>5, <2>1, PutKeepsExact DEF PromiseInv
  <2>4. StoreSane'
    BY <1>1, <1>5, <2>2, <2>3, AcceptedCheck DEF PromiseInv, StoreSane
  <2>5. CopiesAreExact'
    BY <1>1, <1>5, <2>3 DEF CopiesAreExact
  <2> HIDE DEF NoCopy
  <2>6. ChecksStored' /\ AlertsChange'
    BY <1>5, <2>2, <2>3 DEF PromiseInv, ChecksStored, AlertsChange
  <2>7. \A r \in RunIds : ~Live(r)'
    BY <1>1, <1>5 DEF AlertInv, NoOverlap, Live
  <2>8. RetriesTell'
    BY <2>7 DEF RetriesTell
  <2> QED
    BY <2>4, <2>5, <2>6, <2>8 DEF PromiseInv
<1>6. CASE rpc = "record" /\ Accepts(mon) /\ Put(Announced(mon)) /\ Finish
  <2>1. store.live /\ mon.uid = store.uid /\ SpecOf(mon) = SpecOf(store)
    BY <1>6, AcceptedIsStored DEF AlertInv
  <2>2. StatusOf(store) = StatusOf(mon)
    BY <1>6, <2>1 DEF AlertInv, AlertMatchesStore
  <2>3. /\ mon.since = store.since /\ mon.checked = store.checked /\ mon.obs = store.obs
        /\ mon.gen = store.gen
    BY <2>1, <2>2 DEF StatusOf, SpecOf
  <2> DEFINE m == Announced(mon)
  <2>4. /\ m \in Monitor /\ m.uid = store.uid /\ m.since = store.since
        /\ m.checked = store.checked /\ m.obs = store.obs /\ m.gen = store.gen
    BY <2>1, <2>3, Numbers, AnnouncedFields, AnnouncedStatus
  <2>5. Put(m)
    BY <1>6
  <2> HIDE DEF m
  <2>6. m.since <= m.checked /\ m.checked <= clock /\ m.obs <= m.gen
    BY <2>4 DEF PromiseInv, StoreSane
  <2> QED
    BY <1>1, <1>2, <1>6, <2>4, <2>5, <2>6, PutFinishKeepsPromiseInv
<1> QED
  BY <1>3, <1>4, <1>5, <1>6 DEF UpdateStatus, RecordChange, Write

\* The runs that queueRetries starts, and which of them is to record the change.
LEMMA QueuedRuns ==
  ASSUME TypeOK, NEW kind \in Kinds, NEW sent, QueueRetries(kind, sent), NEW r \in RunIds
  PROVE  \/ runs'[r] = runs[r] /\ r \notin {kind} \X Retried(sent)
         \/ /\ r[1] = kind /\ r[2] \in Retried(sent) /\ runs'[r].pc = "wait"
            /\ runs'[r].status = mon.last /\ runs'[r].uid = mon.uid
            /\ runs'[r].marks => kind = "change" /\ OnlyFailure(sent)
<1> DEFINE new == {kind} \X Retried(sent)
           fresh == NewRun(kind = "change" /\ OnlyFailure(sent))
<1>1. fresh.pc = "wait" /\ fresh.status = mon.last /\ fresh.uid = mon.uid
      /\ (fresh.marks => kind = "change" /\ OnlyFailure(sent))
  <2>1. (kind = "change" /\ OnlyFailure(sent)) \in BOOLEAN
    OBVIOUS
  <2>2. fresh.marks = (kind = "change" /\ OnlyFailure(sent))
    BY <2>1, Numbers, NewRunType
  <2> QED
    BY <2>1, <2>2, Numbers, NewRunType
<1>2. runs' = [q \in RunIds |-> IF q \in new THEN fresh ELSE runs[q]]
  BY DEF QueueRetries
<1>3. r \in new => r[1] = kind /\ r[2] \in Retried(sent)
  OBVIOUS
<1> HIDE DEF fresh
<1> QED
  BY <1>1, <1>2, <1>3

\* The status alert starts retries that record nothing.
LEMMA StatusAlertKeepsPromiseInv ==
  ASSUME TypeOK, AlertInv, PromiseInv, SendStatusAlert
  PROVE  PromiseInv'
<1>1. PICK sent \in Sends(mon.last) : QueueRetries("status", sent)
  BY DEF SendStatusAlert
<1>2. UNCHANGED <<store, cached, events, clock, heard>> /\ rpc = "alert" /\ AfterAlert
  BY DEF SendStatusAlert
<1>3. mon.last \in Statuses /\ mon.uid > 0 /\ ~locals.gone
  BY <1>2 DEF PromiseInv, AlertsChange, ChecksStored
<1>4. ASSUME NEW r \in RunIds, Live(r)'
      PROVE  RetryTells(r)'
  <2>1. ~Live(r)
    BY <1>2 DEF AlertInv, NoOverlap
  <2>2. /\ r[1] = "status" /\ runs'[r].pc = "wait" /\ runs'[r].status = mon.last
        /\ runs'[r].uid = mon.uid /\ ~runs'[r].marks
    BY <1>1, <1>4, <2>1, QueuedRuns DEF Live, Kinds
  <2> QED
    BY <1>3, <2>2 DEF RetryTells, Marking, Waiting
<1>5. RetriesTell'
  BY <1>4 DEF RetriesTell
<1> HIDE DEF NoCopy
<1>6. CopiesAreExact' /\ ChecksStored' /\ AlertsChange'
  <2>1. CASE locals.notified # mon.last
    <3>1. rpc' = "change" /\ UNCHANGED <<mon, locals>>
      BY <1>2, <2>1 DEF AfterAlert
    <3> QED
      BY <1>2, <2>1, <3>1, QuietStore DEF PromiseInv, CopiesAreExact, ChecksStored, AlertsChange
  <2>2. CASE ~(locals.notified # mon.last)
    <3>1. rpc' = "idle" /\ mon' = NoCopy /\ ~locals'.gone
      BY <1>2, <2>2, IdleLocals DEF AfterAlert, ReturnAfter, Finish
    <3> QED
      BY <1>2, <3>1, QuietStore DEF CopiesAreExact, ChecksStored, AlertsChange
  <2> QED
    BY <2>1, <2>2
<1> QED
  BY <1>2, <1>5, <1>6, QuietStore DEF PromiseInv

\* The change alert tells subscribers of a status that is not announced, and
\* the retry that is to record the change is the only failure.
LEMMA ChangeAlertKeepsPromiseInv ==
  ASSUME TypeOK, AlertInv, PromiseInv, SendChangeAlert
  PROVE  PromiseInv'
<1>1. PICK sent \in Sends("change") :
        /\ heard' = [n \in Notifiers |-> IF n \in Delivered(sent) THEN mon.last ELSE heard[n]]
        /\ QueueRetries("change", sent)
        /\ IF \A n \in Notifiers : sent[n] = "ok"
             THEN rpc' = "record" /\ UNCHANGED <<wakeAt, mon, locals, waiting>>
             ELSE ReturnAfter(clock + CheckInterval)
  BY DEF SendChangeAlert
<1>2. UNCHANGED <<store, cached, events, clock>> /\ rpc = "change"
  BY DEF SendChangeAlert
<1>3. /\ mon.last \in Statuses /\ mon.uid > 0 /\ ~locals.gone /\ mon.noti # "absent"
      /\ locals.notified = mon.noti /\ locals.notified # mon.last
  BY <1>2 DEF PromiseInv, AlertsChange, ChecksStored
<1>4. \A n \in Subscribers : n \in Notifiers /\ (sent[n] = "ok" => heard'[n] = mon.last)
  BY <1>1 DEF Subscribers, Delivered
<1>5. store.live /\ store.uid = mon.uid => Notified(store) # store.last
  <2>1. store.live /\ store.uid = mon.uid => store.noti = mon.noti /\ store.last = mon.last
    BY <1>2 DEF AlertInv, AlertMatchesStore, StatusOf
  <2> QED
    BY <1>3, <2>1 DEF Notified
<1>6. ASSUME NEW r \in RunIds, Live(r)', r[1] # "change"
      PROVE  RetryTells(r)'
  <2>1. runs'[r] = runs[r]
    BY <1>1, <1>6, QueuedRuns DEF Kinds
  <2>2. RetryTells(r) /\ ~runs[r].marks /\ runs[r].pc \notin Marking
    BY <1>6, <2>1 DEF PromiseInv, RetriesTell, Live, AlertInv, OnlyChangesMark, Marking
  <2> QED
    BY <1>6, <2>1, <2>2 DEF RetryTells, Marking
<1>7. ASSUME NEW r \in RunIds, Live(r)', r[1] = "change"
      PROVE  /\ r[2] \in Retried(sent) /\ runs'[r].pc = "wait"
             /\ runs'[r].status = mon.last /\ runs'[r].uid = mon.uid
             /\ runs'[r].marks => OnlyFailure(sent)
  <2>1. r = <<"change", r[2]>> /\ r[2] \in Notifiers
    BY <1>7 DEF RunIds
  <2>2. ~Live(r)
    BY <1>2, <2>1 DEF AlertInv, NoOverlap
  <2> QED
    BY <1>1, <1>7, <2>2, QueuedRuns DEF Live, Kinds
<1>8. ASSUME NEW r \in RunIds, Live(r)', r[1] = "change"
      PROVE  RetryTells(r)'
  <2>1. /\ r[2] \in Retried(sent) /\ runs'[r].pc = "wait"
        /\ runs'[r].status = mon.last /\ runs'[r].uid = mon.uid
        /\ runs'[r].marks => OnlyFailure(sent)
    BY <1>7, <1>8
  <2>2. ASSUME runs'[r].marks, NEW q \in RunIds, Live(q)', q[1] = "change"
        PROVE  q = r
    <3>1. q[2] \in Retried(sent)
      BY <1>7, <2>2
    <3>2. q[2] = r[2]
      BY <2>1, <2>2, <3>1 DEF OnlyFailure
    <3>3. q = <<q[1], q[2]>> /\ r = <<r[1], r[2]>>
      BY DEF RunIds
    <3> QED
      BY <1>8, <2>2, <3>2, <3>3
  <2>3. ASSUME runs'[r].marks, NEW n \in Subscribers, n # r[2]
        PROVE  heard'[n] = mon.last
    <3>1. n \notin Retried(sent) /\ n \notin Rest(sent)
      BY <2>1, <2>3 DEF OnlyFailure
    <3>2. sent[n] = "ok"
      BY <1>4, <3>1 DEF Rest
    <3> QED
      BY <1>4, <3>2
  <2>4. store'.live /\ store'.uid = runs'[r].uid => Notified(store)' # store'.last
    <3>1. Notified(store)' = Notified(store)
      BY <1>2 DEF Notified
    <3> QED
      BY <1>2, <1>5, <2>1, <3>1
  <2>5. runs'[r].uid > 0 /\ runs'[r].status \in Statuses
    BY <1>3, <2>1
  <2> QED
    BY <2>1, <2>2, <2>3, <2>4, <2>5 DEF RetryTells, Marking, Waiting
<1>9. RetriesTell'
  BY <1>6, <1>8 DEF RetriesTell
<1> HIDE DEF NoCopy
<1>10. CopiesAreExact' /\ ChecksStored' /\ AlertsChange'
  <2>1. CASE \A n \in Notifiers : sent[n] = "ok"
    <3>1. rpc' = "record" /\ UNCHANGED <<mon, locals>>
      BY <1>1, <2>1
    <3>2. \A n \in Subscribers : heard'[n] = mon'.last
      BY <1>4, <2>1, <3>1
    <3>3. CopiesAreExact'
      BY <1>2, <3>1, QuietStore DEF CopiesAreExact
    <3>4. ChecksStored'
      BY <1>2, <1>3, <3>1 DEF ChecksStored
    <3>5. AlertsChange'
      BY <1>3, <3>1, <3>2 DEF AlertsChange
    <3> QED
      BY <3>3, <3>4, <3>5
  <2>2. CASE ~(\A n \in Notifiers : sent[n] = "ok")
    <3>1. rpc' = "idle" /\ mon' = NoCopy /\ ~locals'.gone
      BY <1>1, <2>2, IdleLocals DEF ReturnAfter, Finish
    <3> QED
      BY <1>2, <3>1, QuietStore DEF CopiesAreExact, ChecksStored, AlertsChange
  <2> QED
    BY <2>1, <2>2
<1> QED
  BY <1>2, <1>9, <1>10, QuietStore DEF PromiseInv

-----------------------------------------------------------------------------
(* The cluster and the operator's restart.                                 *)

\* What a user's step writes: the object with its status, of the same or the
\* next generation, or gone; or a new object in place of one that is gone.
Edited(m) ==
  /\ store.live /\ m.uid = store.uid /\ StatusOf(m) = StatusOf(store) /\ m.gen >= store.gen
Renewed(m) ==
  /\ ~store.live /\ m.live /\ m.uid = store.uid + 1
  /\ m.last = "" /\ m.noti = "absent" /\ m.since = 0 /\ m.checked = 0 /\ m.obs = 0

LEMMA UserEffect ==
  ASSUME TypeOK, User
  PROVE  /\ UNCHANGED <<cached, clock, queued, wakeAt>>
         /\ \E m \in Monitor : /\ Put(m) /\ (Edited(m) \/ Renewed(m))
                               /\ ~Passes(store, m) => m.valid = store.valid
<1>0. /\ store \in Monitor /\ store.uid \in Nat /\ store.gen \in Nat /\ store.rv \in Nat
      /\ store.live \in BOOLEAN
  BY Numbers DEF Monitor
<1>1. UNCHANGED <<cached, clock, queued, wakeAt>>
  BY DEF User, EditSpec, EditMeta, Delete, Recreate, UserAct
<1>2. CASE EditSpec
  <2>1. PICK b \in BOOLEAN : Put([store EXCEPT !.gen = store.gen + 1, !.valid = b])
    BY <1>2 DEF EditSpec
  <2> DEFINE m == [store EXCEPT !.gen = store.gen + 1, !.valid = b]
  <2>2. \A g \in Nat : [store EXCEPT !.gen = g, !.valid = b] \in Monitor
    BY <1>0 DEF Monitor
  <2>3. store.gen + 1 \in Nat
    BY <1>0
  <2>4. m \in Monitor /\ Put(m) /\ store.live
    BY <1>2, <2>1, <2>2, <2>3 DEF EditSpec
  <2>5. m.uid = store.uid /\ m.obs = store.obs /\ m.last = store.last /\ m.since = store.since
        /\ m.noti = store.noti /\ m.notiSince = store.notiSince /\ m.checked = store.checked
        /\ m.gen = store.gen + 1
    BY <1>0 DEF Monitor
  <2> HIDE DEF m
  <2>6. m.gen >= store.gen /\ m.gen # store.gen
    BY <1>0, <2>5
  <2>7. Edited(m)
    BY <2>4, <2>5, <2>6 DEF Edited, StatusOf
  <2>8. Passes(store, m)
    BY <2>6 DEF Passes
  <2> QED
    BY <1>1, <2>4, <2>7, <2>8
<1>3. CASE EditMeta
  <2>1. Put(store) /\ store.live
    BY <1>3 DEF EditMeta
  <2>2. Edited(store)
    BY <1>0, <2>1 DEF Edited
  <2> QED
    BY <1>0, <1>1, <2>1, <2>2
<1>4. CASE Delete
  <2> DEFINE m == [store EXCEPT !.live = FALSE]
  <2>1. m \in Monitor
    BY <1>0 DEF Monitor
  <2>2. m.uid = store.uid /\ m.obs = store.obs /\ m.last = store.last /\ m.since = store.since
        /\ m.noti = store.noti /\ m.notiSince = store.notiSince /\ m.checked = store.checked
        /\ m.gen = store.gen /\ m.live = FALSE
    BY <1>0 DEF Monitor
  <2>3. Put(m) /\ store.live
    BY <1>4 DEF Delete
  <2> HIDE DEF m
  <2>4. Edited(m)
    BY <1>0, <2>2, <2>3 DEF Edited, StatusOf
  <2>5. Passes(store, m)
    BY <2>2, <2>3 DEF Passes
  <2> QED
    BY <1>1, <2>1, <2>3, <2>4, <2>5
<1>5. CASE Recreate
  <2>1. PICK b \in BOOLEAN : Put(Created(store.uid + 1, store.rv, b))
    BY <1>5 DEF Recreate
  <2> DEFINE m == Created(store.uid + 1, store.rv, b)
  <2>2. m \in Monitor
    BY <1>0, CreatedType
  <2>3. /\ m.uid = store.uid + 1 /\ m.live = TRUE /\ m.last = "" /\ m.noti = "absent"
        /\ m.since = 0 /\ m.checked = 0 /\ m.obs = 0
    BY DEF Created
  <2>4. Put(m) /\ ~store.live
    BY <1>5, <2>1 DEF Recreate
  <2> HIDE DEF m
  <2>5. Renewed(m)
    BY <2>3, <2>4 DEF Renewed
  <2>6. Passes(store, m)
    BY <2>3, <2>4 DEF Passes
  <2> QED
    BY <1>1, <2>2, <2>4, <2>5, <2>6
<1> QED
  BY <1>2, <1>3, <1>4, <1>5 DEF User

\* The cluster's steps keep the invariant.
LEMMA ClusterKeepsPromiseInv ==
  ASSUME TypeOK, AlertInv, PromiseInv, Cluster
  PROVE  PromiseInv'
<1>0. UNCHANGED <<rpc, mon, locals, runs, heard>>
  BY DEF Cluster, reconcilerVars, retryVars, observerVars
<1>1. AlertsChange'
  BY <1>0 DEF PromiseInv, AlertsChange
<1>2. UNCHANGED store => RetriesTell'
  BY <1>0, QuietRunsTell
<1>3. clock \in Nat /\ store.checked \in Nat /\ locals.started \in Nat
  BY Numbers, MonitorNumbers DEF TypeOK, ClusterTypeOK, ReconcilerTypeOK
<1> HIDE DEF NoCopy
<1>4. CASE TimerFires \/ Tick
  <2>1. UNCHANGED <<store, cached, events>> /\ clock' \in {clock, clock + 1}
    BY <1>4 DEF TimerFires, Tick
  <2>2. StoreSane'
    BY <1>3, <2>1 DEF PromiseInv, StoreSane
  <2>3. CopiesAreExact'
    BY <1>0, <2>1 DEF PromiseInv, CopiesAreExact
  <2>4. ChecksStored'
    BY <1>0, <1>3, <2>1 DEF PromiseInv, ChecksStored
  <2> QED
    BY <1>1, <1>2, <2>1, <2>2, <2>3, <2>4 DEF PromiseInv
<1>5. CASE Deliver
  <2>1. /\ UNCHANGED <<store, clock>> /\ cached' = Head(events) /\ events' = Tail(events)
        /\ events # << >>
    BY <1>5 DEF Deliver
  <2>2. cached' = events[1] /\ 1 \in 1..Len(events)
    BY <2>1, Numbers
  <2>3. \A i \in 1..Len(events') : i + 1 \in 1..Len(events) /\ events'[i] = events[i + 1]
    BY <2>1, Numbers
  <2>4. StoreSane'
    BY <2>1, <2>2, <2>3 DEF PromiseInv, StoreSane
  <2>5. CopiesAreExact'
    BY <1>0, <2>1, <2>2, <2>3 DEF PromiseInv, CopiesAreExact
  <2>6. ChecksStored'
    BY <1>0, <2>1 DEF PromiseInv, ChecksStored
  <2> QED
    BY <1>1, <1>2, <2>1, <2>4, <2>5, <2>6 DEF PromiseInv
<1>6. CASE User
  <2>1. UNCHANGED <<cached, clock>>
    BY <1>6, UserEffect
  <2>2. PICK m \in Monitor : Put(m) /\ (Edited(m) \/ Renewed(m))
    BY <1>6, UserEffect
  <2>3. m.uid >= store.uid
    <3>1. Edited(m) => m.uid = store.uid
      BY DEF Edited
    <3>2. Renewed(m) => m.uid = store.uid + 1
      BY DEF Renewed
    <3> QED
      BY <2>2, <3>1, <3>2, Numbers
  <2>4. /\ mon.rv # store'.rv /\ cached.rv # store'.rv /\ store'.uid > 0
        /\ \A i \in 1..Len(events)' : /\ events'[i].uid > 0
                                      /\ events'[i].rv = store'.rv => events'[i] = store'
        /\ store'.rv = store.rv + 1
    BY <2>2, <2>3, PutKeepsExact DEF PromiseInv
  <2>5. /\ store'.since = m.since /\ store'.checked = m.checked /\ store'.obs = m.obs
        /\ store'.gen = m.gen /\ store'.last = m.last /\ store'.uid = m.uid
        /\ store'.live = m.live /\ Notified(store)' = Notified(m)
    BY <2>2, Numbers, PutStatus
  <2>6. /\ m.gen \in Nat /\ store.gen \in Nat /\ store.obs \in Nat /\ m.checked \in Nat
    BY Numbers, MonitorNumbers
  <2>7. Edited(m) => /\ m.since = store.since /\ m.checked = store.checked /\ m.obs = store.obs
                     /\ m.last = store.last /\ Notified(m) = Notified(store)
                     /\ m.gen >= store.gen /\ m.uid = store.uid /\ store.live
    BY DEF Edited, StatusOf, Notified
  <2>8. /\ m.since <= m.checked /\ m.checked <= clock /\ m.obs <= m.gen /\ m.checked <= store.checked
    <3>1. CASE Edited(m)
      BY <1>3, <2>6, <2>7, <3>1 DEF PromiseInv, StoreSane
    <3>2. CASE Renewed(m)
      <4>1. m.since = 0 /\ m.checked = 0 /\ m.obs = 0
        BY <3>2 DEF Renewed
      <4> QED
        BY <1>3, <2>6, <4>1
    <3> QED
      BY <2>2, <3>1, <3>2
  <2>9. StoreSane'
    BY <2>1, <2>4, <2>5, <2>8 DEF PromiseInv, StoreSane
  <2>10. CopiesAreExact'
    BY <1>0, <2>1, <2>4 DEF CopiesAreExact
  <2>11. ChecksStored'
    <3>1. \A n \in Nat : store.checked <= n => store'.checked <= n
      BY <1>3, <2>5, <2>6, <2>8
    <3> QED
      BY <1>0, <1>3, <2>1, <2>4, <3>1 DEF PromiseInv, ChecksStored
  <2>12. ASSUME NEW r \in RunIds, Live(r)'
         PROVE  RetryTells(r)'
    <3>1. Live(r) /\ RetryTells(r)
      BY <1>0, <2>12 DEF PromiseInv, RetriesTell, Live
    <3>2. runs[r].copy \in Nat /\ runs[r].uid <= store.uid /\ runs[r].uid \in Nat
      BY Numbers DEF AlertInv, CopiesAreVersions, Run
    <3>3. runs'[r].pc = "write" => runs'[r].copy <= store'.rv /\ runs'[r].copy # store'.rv
      BY <1>0, <2>4, <3>1, <3>2, Numbers DEF RetryTells
    <3>4. store'.live /\ store'.uid = runs'[r].uid => Edited(m)
      <4>1. Renewed(m) => m.uid = store.uid + 1
        BY DEF Renewed
      <4> QED
        BY <1>0, <2>2, <2>5, <3>2, <4>1, Numbers
    <3>5. r[1] = "change" /\ runs'[r].pc \in Waiting /\ store'.live /\ store'.uid = runs'[r].uid
             => Notified(store)' # store'.last
      BY <1>0, <2>5, <2>7, <3>1, <3>4 DEF RetryTells
    <3>6. \A q \in RunIds : Live(q)' = Live(q)
      BY <1>0 DEF Live
    <3> QED
      BY <1>0, <3>1, <3>3, <3>5, <3>6 DEF RetryTells
  <2> QED
    BY <1>1, <2>9, <2>10, <2>11, <2>12 DEF PromiseInv, RetriesTell
<1> QED
  BY <1>4, <1>5, <1>6 DEF Cluster

\* A restart keeps the object and forgets everything else.
LEMMA RestartKeepsPromiseInv ==
  ASSUME TypeOK, AlertInv, PromiseInv, Restart
  PROVE  PromiseInv'
<1>1. /\ store' = store /\ clock' = clock /\ cached' = store /\ events' = << >>
      /\ rpc' = "idle" /\ mon' = NoCopy /\ ~locals'.gone
  BY IdleLocals DEF Restart
<1>2. \A r \in RunIds : ~Live(r)'
  BY DEF Restart, Live, Off
<1>3. 1..Len(events') = {}
  BY <1>1
<1> HIDE DEF NoCopy
<1>4. StoreSane' /\ CopiesAreExact'
  BY <1>1, <1>3 DEF PromiseInv, StoreSane, CopiesAreExact
<1>5. ChecksStored' /\ AlertsChange'
  BY <1>1 DEF ChecksStored, AlertsChange
<1> QED
  BY <1>2, <1>4, <1>5 DEF PromiseInv, RetriesTell

\* The stored object at the start.
LEMMA FirstObject ==
  ASSUME Init
  PROVE  /\ store.uid = 1 /\ store.live = TRUE /\ store.since <= store.checked
         /\ store.checked <= 1 /\ store.obs = 0 /\ store.gen = 1 /\ store.noti = "absent"
         /\ store.last \in Statuses \cup {""} /\ Notified(store) = store.last
<1>1. \/ \E v \in BOOLEAN : store = Created(1, 1, v)
      \/ \E s \in Statuses : store = Legacy(s)
  BY DEF Init, ClusterInit
<1>2. ASSUME NEW v \in BOOLEAN, store = Created(1, 1, v)
      PROVE  /\ store.uid = 1 /\ store.live = TRUE /\ store.since = 0 /\ store.checked = 0
             /\ store.obs = 0 /\ store.gen = 1 /\ store.noti = "absent" /\ store.last = ""
  BY <1>2 DEF Created
<1>3. ASSUME NEW s \in Statuses, store = Legacy(s)
      PROVE  /\ store.uid = 1 /\ store.live = TRUE /\ store.since = 1 /\ store.checked = 1
             /\ store.obs = 0 /\ store.gen = 1 /\ store.noti = "absent" /\ store.last = s
  BY <1>3 DEF Legacy, Created
<1>4. /\ store.uid = 1 /\ store.live = TRUE /\ store.obs = 0 /\ store.gen = 1
      /\ store.noti = "absent" /\ store.last \in Statuses \cup {""}
      /\ (store.since = 0 /\ store.checked = 0) \/ (store.since = 1 /\ store.checked = 1)
  BY <1>1, <1>2, <1>3
<1>5. store.since <= store.checked /\ store.checked <= 1
  <2>1. CASE store.since = 0 /\ store.checked = 0
    BY <2>1
  <2>2. CASE store.since = 1 /\ store.checked = 1
    BY <2>2
  <2> QED
    BY <1>4, <2>1, <2>2
<1>6. Notified(store) = store.last
  BY <1>4 DEF Notified
<1> QED
  BY <1>4, <1>5, <1>6

\* The invariant holds at the start.
LEMMA PromiseInvInit == Init => PromiseInv
<1> SUFFICES ASSUME Init PROVE PromiseInv
  OBVIOUS
<1>1. /\ cached = store /\ events = << >> /\ clock = 1
      /\ rpc = "idle" /\ mon = NoCopy /\ locals = NoLocals
  BY Zenon DEF Init, ClusterInit
<1>2. ~locals.gone
  BY <1>1, IdleLocals
<1>3. \A r \in RunIds : ~Live(r)
  BY DEF Init, Live, Off
<1>4. 1..Len(events) = {}
  BY <1>1
<1> HIDE DEF NoCopy
<1>5. StoreSane
  <2>1. store.uid = 1 /\ store.obs = 0 /\ store.gen = 1 /\ store.since <= store.checked
        /\ store.checked <= 1
    BY FirstObject
  <2> QED
    BY <1>1, <1>4, <2>1 DEF StoreSane
<1>6. CopiesAreExact /\ ChecksStored /\ AlertsChange
  BY <1>1, <1>2, <1>4 DEF CopiesAreExact, ChecksStored, AlertsChange
<1> QED
  BY <1>3, <1>5, <1>6 DEF PromiseInv, RetriesTell

\* Every step keeps the invariant.
LEMMA PromiseInvStep == TypeOK /\ AlertInv /\ PromiseInv /\ [Next]_vars => PromiseInv'
<1> SUFFICES ASSUME TypeOK, AlertInv, PromiseInv, [Next]_vars PROVE PromiseInv'
  OBVIOUS
<1>1. CASE Reconcile
  BY <1>1, StopKeepsPromiseInv, CheckKeepsPromiseInv, UpdateKeepsPromiseInv,
     StatusAlertKeepsPromiseInv, ChangeAlertKeepsPromiseInv DEF Reconcile
<1>2. CASE ReconcileFails
  BY <1>2, CheckKeepsPromiseInv
<1>3. CASE Restart
  BY <1>3, RestartKeepsPromiseInv
<1>4. CASE Cluster
  BY <1>4, ClusterKeepsPromiseInv
<1>5. CASE \E r \in RunIds : Retry(r)
  BY <1>5, RetryKeepsPromiseInv
<1>6. CASE UNCHANGED vars
  <2>1. UNCHANGED <<store, cached, events, clock, rpc, mon, locals, runs, heard>>
    BY <1>6 DEF vars, clusterVars, reconcilerVars, retryVars, observerVars
  <2> HIDE DEF NoCopy
  <2>2. CopiesAreExact' /\ ChecksStored' /\ AlertsChange'
    BY <2>1 DEF PromiseInv, CopiesAreExact, ChecksStored, AlertsChange
  <2> QED
    BY <2>1, <2>2, QuietStore, QuietRunsTell DEF PromiseInv
<1> QED
  BY <1>1, <1>2, <1>3, <1>4, <1>5, <1>6 DEF Next

\* Everything known of a reachable state.
FullInv == TypeOK /\ AlertInv /\ PromiseInv

\* The invariant of the whole controller: every copy that the API server would
\* still accept is the stored object, so that an accepted Status().Update is a
\* check of what is stored, and LastNotifiedStatus follows what was told.
THEOREM PromiseInvariant == Spec => []FullInv
<1>1. Init => FullInv
  BY TypeInit, AlertInvInit, PromiseInvInit DEF FullInv
<1>2. FullInv /\ [Next]_vars => FullInv'
  BY TypeStep, AlertInvStep, PromiseInvStep DEF FullInv
<1> QED
  BY <1>1, <1>2, PTL DEF Spec

-----------------------------------------------------------------------------
(* The two action properties.                                              *)

(***************************************************************************)
(* All that a step can do to the stored object and to what the notifiers   *)
(* were told.                                                              *)
(***************************************************************************)
Footprint ==
  \/ UNCHANGED <<store, heard>>
  \/ UNCHANGED heard /\ rpc = "update" /\ Accepts(mon) /\ Put(mon)
  \/ UNCHANGED heard /\ rpc = "record" /\ Accepts(mon) /\ Put(Announced(mon))
  \/ UNCHANGED heard /\ \E r \in RunIds :
       runs[r].pc = "write" /\ store.rv = runs[r].copy /\ store.live /\ Put(Announced(store))
  \/ UNCHANGED heard /\ \E m \in Monitor : Put(m) /\ (Edited(m) \/ Renewed(m))
  \/ UNCHANGED store /\ rpc = "change" /\ \E some \in SUBSET Notifiers :
       heard' = [n \in Notifiers |-> IF n \in some THEN mon.last ELSE heard[n]]
  \/ UNCHANGED store /\ \E r \in RunIds :
       /\ runs[r].pc = "send" /\ r[1] = "change"
       /\ heard' = [heard EXCEPT ![r[2]] = runs[r].status]

LEMMA StepsLeaveFootprints ==
  ASSUME TypeOK, [Next]_vars
  PROVE  Footprint
<1> USE DEF clusterVars, reconcilerVars, retryVars, observerVars
<1>1. CASE UNCHANGED vars
  BY <1>1 DEF vars, Footprint
<1>2. CASE \E r \in RunIds : Retry(r)
  <2>1. PICK r \in RunIds : Retry(r)
    BY <1>2
  <2>2. RetryTelling(r)
    BY <2>1, RetryHasTelling
  <2> QED
    BY <2>2 DEF RetryTelling, Footprint
<1>3. CASE Restart
  BY <1>3 DEF Restart, Footprint
<1>4. CASE Cluster
  <2>1. UNCHANGED heard
    BY <1>4 DEF Cluster
  <2>2. CASE User
    BY <2>1, <2>2, UserEffect DEF Footprint
  <2>3. CASE TimerFires \/ Deliver \/ Tick
    BY <2>1, <2>3 DEF TimerFires, Deliver, Tick, Footprint
  <2> QED
    BY <1>4, <2>2, <2>3 DEF Cluster
<1>5. CASE ReconcileFails
  BY <1>5 DEF ReconcileFails, ReconcileGetFails, SetupFails, CheckFails, Footprint
<1>6. CASE \/ ReconcileGone \/ ReconcileInvalid \/ ReconcileSkip \/ ReconcileDue
           \/ (\E r \in RunIds : StopClose(r) \/ StopWait(r))
           \/ StopDone \/ Reread \/ Check \/ SendStatusAlert
  BY <1>6 DEF ReconcileGone, ReconcileInvalid, ReconcileSkip, ReconcileDue, StopClose, StopWait,
     StopDone, Reread, Check, SendStatusAlert, Footprint
<1>7. CASE UpdateStatus
  BY <1>7 DEF UpdateStatus, Write, WriteLost, WriteRefused, Footprint
<1>8. CASE RecordChange
  BY <1>8 DEF RecordChange, WriteRefused, Footprint
<1>9. CASE SendChangeAlert
  <2>1. PICK sent \in Sends("change") :
          heard' = [n \in Notifiers |-> IF n \in Delivered(sent) THEN mon.last ELSE heard[n]]
    BY <1>9 DEF SendChangeAlert
  <2>2. Delivered(sent) \in SUBSET Notifiers
    BY DEF Delivered
  <2>3. UNCHANGED store /\ rpc = "change"
    BY <1>9 DEF SendChangeAlert
  <2> QED
    BY <2>1, <2>2, <2>3 DEF Footprint
<1> QED
  BY <1>1, <1>2, <1>3, <1>4, <1>5, <1>6, <1>7, <1>8, <1>9 DEF Next, Reconcile

\* A monitor's status only moves forward: no check, retry, edit or late update
\* takes its times or its generation back (the two Status().Update calls of
\* Reconcile and the one of markAnnounced).
THEOREM StatusOnlyAdvances == Spec => StatusAdvances
<1> DEFINE Forward == store'.uid = store.uid =>
                        /\ store'.checked >= store.checked /\ store'.since >= store.since
                        /\ store'.obs >= store.obs /\ store'.obs <= store'.gen
<1>1. FullInv /\ [Next]_vars => [Forward]_vars
  <2> SUFFICES ASSUME FullInv, [Next]_vars, store'.uid = store.uid
               PROVE  /\ store'.checked >= store.checked /\ store'.since >= store.since
                      /\ store'.obs >= store.obs /\ store'.obs <= store'.gen
    OBVIOUS
  <2>1. Footprint /\ TypeOK /\ AlertInv /\ PromiseInv
    BY StepsLeaveFootprints DEF FullInv
  <2>2. /\ store \in Monitor /\ mon \in Monitor /\ store.rv \in Nat /\ store.uid \in Nat
        /\ store.checked \in Nat /\ store.since \in Nat /\ store.obs \in Nat /\ store.gen \in Nat
        /\ store.obs <= store.gen
    BY <2>1, Numbers, MonitorNumbers DEF PromiseInv, StoreSane
  <2>3. ASSUME NEW m \in Monitor, Put(m), m.checked >= store.checked, m.since >= store.since,
               m.obs >= store.obs, m.obs <= m.gen
        PROVE  /\ store'.checked >= store.checked /\ store'.since >= store.since
               /\ store'.obs >= store.obs /\ store'.obs <= store'.gen
    BY <2>2, <2>3, PutStatus
  <2>4. CASE UNCHANGED store
    BY <2>2, <2>4
  <2>5. CASE rpc = "update" /\ Accepts(mon) /\ Put(mon)
    BY <2>1, <2>2, <2>3, <2>5, AcceptedCheck
  <2>6. CASE rpc = "record" /\ Accepts(mon) /\ Put(Announced(mon))
    <3>1. mon.uid = store.uid /\ SpecOf(mon) = SpecOf(store) /\ StatusOf(store) = StatusOf(mon)
      BY <2>1, <2>6, AcceptedIsStored DEF AlertInv, AlertMatchesStore
    <3>2. /\ mon.checked = store.checked /\ mon.since = store.since /\ mon.obs = store.obs
          /\ mon.gen = store.gen
      BY <3>1 DEF SpecOf, StatusOf
    <3>3. /\ Announced(mon) \in Monitor /\ Announced(mon).checked = store.checked
          /\ Announced(mon).since = store.since /\ Announced(mon).obs = store.obs
          /\ Announced(mon).gen = store.gen
      BY <2>2, <3>2, AnnouncedType, AnnouncedStatus
    <3>4. /\ Announced(mon).checked >= store.checked /\ Announced(mon).since >= store.since
          /\ Announced(mon).obs >= store.obs /\ Announced(mon).obs <= Announced(mon).gen
      BY <2>2, <3>3
    <3> QED
      BY <2>3, <2>6, <3>3, <3>4
  <2>7. CASE Put(Announced(store))
    <3>1. /\ Announced(store) \in Monitor /\ Announced(store).checked = store.checked
          /\ Announced(store).since = store.since /\ Announced(store).obs = store.obs
          /\ Announced(store).gen = store.gen
      BY <2>2, AnnouncedType, AnnouncedStatus
    <3>2. /\ Announced(store).checked >= store.checked /\ Announced(store).since >= store.since
          /\ Announced(store).obs >= store.obs /\ Announced(store).obs <= Announced(store).gen
      BY <2>2, <3>1
    <3> QED
      BY <2>3, <2>7, <3>1, <3>2
  <2>8. CASE \E m \in Monitor : Put(m) /\ (Edited(m) \/ Renewed(m))
    <3>1. PICK m \in Monitor : Put(m) /\ (Edited(m) \/ Renewed(m))
      BY <2>8
    <3>2. m.uid = store.uid
      BY <2>2, <3>1, PutStatus
    <3>3. ~Renewed(m)
      <4>1. Renewed(m) => m.uid = store.uid + 1
        BY DEF Renewed
      <4> QED
        BY <2>2, <3>2, <4>1
    <3>4. /\ m.checked = store.checked /\ m.since = store.since /\ m.obs = store.obs
          /\ m.gen >= store.gen
      BY <3>1, <3>3 DEF Edited, StatusOf
    <3>5. m.gen \in Nat
      BY MonitorNumbers
    <3>6. /\ m.checked >= store.checked /\ m.since >= store.since
          /\ m.obs >= store.obs /\ m.obs <= m.gen
      BY <2>2, <3>4, <3>5
    <3> QED
      BY <2>3, <3>1, <3>6
  <2> QED
    BY <2>1, <2>4, <2>5, <2>6, <2>7, <2>8 DEF Footprint
<1> QED
  BY <1>1, PromiseInvariant, PTL DEF Spec, StatusAdvances

-----------------------------------------------------------------------------
(* The refinement.                                                         *)

\* What the receivers of the abstract specification were told.
Told == [n \in Subscribers |-> heard[n]]

\* A check that is written is an Observe.
LEMMA UpdateObserves ==
  ASSUME FullInv, UNCHANGED heard, rpc = "update", Accepts(mon), Put(mon)
  PROVE  Promise!Observe
<1>1. /\ mon.last \in Statuses /\ mon.uid = store.uid /\ mon.live = store.live /\ store.live
      /\ Notified(mon) = Notified(store)
  BY AcceptedCheck DEF FullInv
<1>2. /\ store'.last = mon.last /\ store'.uid = mon.uid /\ store'.live = mon.live
      /\ Notified(store)' = Notified(mon)
  BY Numbers, PutStatus DEF FullInv
<1> QED
  BY <1>1, <1>2 DEF Promise!Observe

\* A recorded change was told to every subscriber.
LEMMA RecordsAreTold ==
  ASSUME FullInv, UNCHANGED heard,
         \/ rpc = "record" /\ Accepts(mon) /\ Put(Announced(mon))
         \/ \E r \in RunIds : /\ runs[r].pc = "write" /\ store.rv = runs[r].copy
                              /\ store.live /\ Put(Announced(store))
  PROVE  Promise!Record
<1>0. TypeOK /\ AlertInv /\ PromiseInv /\ store \in Monitor /\ mon \in Monitor /\ store.rv \in Nat
  BY Numbers DEF FullInv
<1>1. PICK m \in Monitor : /\ Put(Announced(m)) /\ m.last = store.last /\ m.uid = store.uid
                           /\ m.live = store.live /\ store.live
                           /\ \A n \in Subscribers : heard[n] = store.last
  <2>1. CASE rpc = "record" /\ Accepts(mon) /\ Put(Announced(mon))
    <3>1. store.live /\ mon.uid = store.uid /\ SpecOf(mon) = SpecOf(store)
      BY <1>0, <2>1, AcceptedIsStored DEF AlertInv
    <3>2. StatusOf(store) = StatusOf(mon)
      BY <1>0, <2>1, <3>1 DEF AlertInv, AlertMatchesStore
    <3>3. mon.last = store.last /\ mon.live = store.live
      BY <3>1, <3>2 DEF SpecOf, StatusOf
    <3>4. \A n \in Subscribers : heard[n] = mon.last
      BY <1>0, <2>1 DEF PromiseInv, AlertsChange
    <3> QED
      BY <1>0, <2>1, <3>1, <3>3, <3>4
  <2>2. CASE \E r \in RunIds : /\ runs[r].pc = "write" /\ store.rv = runs[r].copy
                               /\ store.live /\ Put(Announced(store))
    <3>1. PICK r \in RunIds : /\ runs[r].pc = "write" /\ store.rv = runs[r].copy
                             /\ store.live /\ Put(Announced(store))
      BY <2>2
    <3>2. RetryTells(r)
      BY <1>0, <3>1 DEF PromiseInv, RetriesTell, Live
    <3>3. store.last = runs[r].status /\ \A n \in Subscribers : heard[n] = runs[r].status
      BY <3>1, <3>2 DEF RetryTells, Marking, Waiting
    <3> QED
      BY <1>0, <3>1, <3>3
  <2> QED
    BY <2>1, <2>2
<1>2. /\ Announced(m) \in Monitor /\ Announced(m).last = m.last /\ Announced(m).uid = m.uid
      /\ Announced(m).live = m.live /\ Notified(Announced(m)) = m.last
  BY AnnouncedFields, AnnouncedStatus
<1>3. /\ store'.last = store.last /\ store'.uid = store.uid /\ store'.live = store.live
      /\ Notified(store)' = store.last
  BY <1>0, <1>1, <1>2, PutStatus
<1>4. Subscribers' = Subscribers
  BY DEF Subscribers
<1> QED
  BY <1>1, <1>3, <1>4 DEF Promise!Record

\* Some notifiers are told st about the object uid: either that is the stored
\* object, its status, and not announced yet, or the object is gone.
LEMMA TellsOrStrays ==
  ASSUME FullInv, UNCHANGED store, NEW some \in SUBSET Notifiers, NEW st \in Statuses,
         NEW uid \in Nat, uid > 0, uid <= store.uid,
         store.live /\ store.uid = uid => store.last = st /\ Notified(store) # store.last,
         heard' = [n \in Notifiers |-> IF n \in some THEN st ELSE heard[n]]
  PROVE  Promise!Tell \/ Promise!Stray
<1>1. heard \in [Notifiers -> Statuses \cup {""}] /\ Subscribers \subseteq Notifiers
      /\ store.uid \in Nat
  BY Numbers DEF FullInv, TypeOK, ObserverTypeOK, Subscribers
<1>2. Subscribers' = Subscribers /\ Notified(store)' = Notified(store)
  BY DEF Subscribers, Notified
<1>3. Told' = [n \in Subscribers |-> IF n \in some THEN st ELSE Told[n]]
  BY <1>1, <1>2 DEF Told
<1>4. CASE store.live /\ store.uid = uid
  <2>1. store.last = st /\ store.last \in Statuses /\ Notified(store) # store.last
    BY <1>4
  <2>2. some \cap Subscribers \in SUBSET Subscribers
    OBVIOUS
  <2>3. Told' = [n \in Subscribers |-> IF n \in some \cap Subscribers THEN store.last ELSE Told[n]]
    BY <1>3, <2>1
  <2> QED
    BY <1>2, <1>4, <2>1, <2>2, <2>3 DEF Promise!Tell, Told
<1>5. CASE ~(store.live /\ store.uid = uid)
  <2>1. ~store.live \/ ~(store.uid = 1)
    <3>1. \A k \in Nat : k > 0 /\ k <= 1 => k = 1
      OBVIOUS
    <3>2. store.uid = 1 => store.uid = uid
      BY <3>1
    <3> QED
      BY <1>5, <3>2
  <2>2. Told' \in [Subscribers -> Statuses \cup {""}]
    BY <1>1, <1>3 DEF Told
  <2>3. \A n \in Subscribers : Told'[n] = "" => Told[n] = ""
    BY <1>3 DEF Statuses
  <2> QED
    BY <1>2, <2>1, <2>2, <2>3 DEF Promise!Stray, Told
<1> QED
  BY <1>4, <1>5

\* Every step of the controller is a step of the promise, or none.
LEMMA StepKeepsPromise == FullInv /\ [Next]_vars => [Promise!Next]_(Promise!vars)
<1> SUFFICES ASSUME FullInv, [Next]_vars, ~UNCHANGED Promise!vars
             PROVE  Promise!Next
  OBVIOUS
<1>0. /\ Footprint /\ TypeOK /\ AlertInv /\ PromiseInv /\ store \in Monitor /\ store.rv \in Nat
      /\ store.uid \in Nat /\ store.live \in BOOLEAN
  BY StepsLeaveFootprints, Numbers DEF FullInv, Monitor
<1>00. Subscribers' = Subscribers
  BY DEF Subscribers
<1> USE DEF Promise!Next
<1>1. CASE UNCHANGED <<store, heard>>
  <2>1. Notified(store)' = Notified(store) /\ Told' = Told
    BY <1>00, <1>1 DEF Notified, Told
  <2> QED
    BY <1>1, <2>1 DEF Promise!vars, Told
<1>2. CASE UNCHANGED heard /\ rpc = "update" /\ Accepts(mon) /\ Put(mon)
  BY <1>2, UpdateObserves
<1>3. CASE /\ UNCHANGED heard
           /\ \/ rpc = "record" /\ Accepts(mon) /\ Put(Announced(mon))
              \/ \E r \in RunIds : /\ runs[r].pc = "write" /\ store.rv = runs[r].copy
                                   /\ store.live /\ Put(Announced(store))
  BY <1>3, RecordsAreTold
<1>4. CASE UNCHANGED heard /\ \E m \in Monitor : Put(m) /\ (Edited(m) \/ Renewed(m))
  <2>1. PICK m \in Monitor : Put(m) /\ (Edited(m) \/ Renewed(m))
    BY <1>4
  <2>2. /\ store'.last = m.last /\ store'.uid = m.uid /\ store'.live = m.live
        /\ Notified(store)' = Notified(m) /\ Told' = Told
    BY <1>0, <1>00, <1>4, <2>1, PutStatus DEF Told
  <2>3. CASE Edited(m)
    <3>1. /\ store.live /\ m.uid = store.uid /\ m.last = store.last
          /\ Notified(m) = Notified(store) /\ m.live \in BOOLEAN
      BY <2>3 DEF Edited, StatusOf, Notified, Monitor
    <3>2. CASE m.live
      <4>1. store'.live = store.live
        BY <1>0, <2>2, <3>1, <3>2
      <4> QED
        BY <2>2, <3>1, <4>1 DEF Promise!vars, Told
    <3>3. CASE ~m.live
      <4>1. store'.live = FALSE
        BY <2>2, <3>1, <3>3
      <4> QED
        BY <2>2, <3>1, <4>1 DEF Promise!Delete, Told
    <3> QED
      BY <3>2, <3>3
  <2>4. CASE Renewed(m)
    <3>1. ~store.live /\ m.live /\ m.uid = store.uid + 1 /\ m.last = "" /\ Notified(m) = ""
      BY <2>4 DEF Renewed, Notified
    <3>2. store.uid > 0
      BY <1>0 DEF PromiseInv, StoreSane
    <3>3. ~(store'.uid = 1)
      <4>1. store'.uid = store.uid + 1 /\ store.uid \in Nat
        BY <1>0, <2>2, <3>1
      <4> QED
        BY <3>2, <4>1
    <3>4. store'.live = TRUE
      BY <2>2, <3>1 DEF Monitor
    <3> QED
      BY <2>2, <3>1, <3>3, <3>4 DEF Promise!Recreate, Told
  <2> QED
    BY <2>1, <2>3, <2>4
<1>5. CASE UNCHANGED store /\ rpc = "change" /\ \E some \in SUBSET Notifiers :
             heard' = [n \in Notifiers |-> IF n \in some THEN mon.last ELSE heard[n]]
  <2>1. /\ mon.last \in Statuses /\ mon.noti # "absent" /\ mon.noti # mon.last /\ mon.uid > 0
        /\ mon.uid \in Nat /\ mon.uid <= store.uid
    BY <1>0, <1>5, Numbers DEF PromiseInv, AlertsChange, ChecksStored, AlertInv, CopiesAreVersions,
       IsCopy
  <2>2. store.live /\ store.uid = mon.uid => store.last = mon.last /\ Notified(store) # store.last
    <3>1. store.live /\ store.uid = mon.uid => store.last = mon.last /\ store.noti = mon.noti
      BY <1>0, <1>5 DEF AlertInv, AlertMatchesStore, StatusOf
    <3> QED
      BY <2>1, <3>1 DEF Notified
  <2> QED
    BY <1>5, <2>1, <2>2, TellsOrStrays
<1>6. CASE UNCHANGED store /\ \E r \in RunIds :
             /\ runs[r].pc = "send" /\ r[1] = "change"
             /\ heard' = [heard EXCEPT ![r[2]] = runs[r].status]
  <2>1. PICK r \in RunIds : /\ runs[r].pc = "send" /\ r[1] = "change"
                           /\ heard' = [heard EXCEPT ![r[2]] = runs[r].status]
    BY <1>6
  <2>2. RetryTells(r)
    BY <1>0, <2>1 DEF PromiseInv, RetriesTell, Live
  <2>3. /\ runs[r].status \in Statuses /\ runs[r].uid > 0 /\ runs[r].uid \in Nat
        /\ runs[r].uid <= store.uid
    BY <1>0, <2>2, Numbers DEF RetryTells, AlertInv, CopiesAreVersions
  <2>4. store.live /\ store.uid = runs[r].uid =>
          store.last = runs[r].status /\ Notified(store) # store.last
    BY <1>0, <2>1, <2>2 DEF RetryTells, Waiting, AlertInv, RetryTellsCurrent
  <2>5. {r[2]} \in SUBSET Notifiers
    BY DEF RunIds
  <2>6. heard' = [n \in Notifiers |-> IF n \in {r[2]} THEN runs[r].status ELSE heard[n]]
    BY <1>0, <2>1, <2>5 DEF TypeOK, ObserverTypeOK
  <2> QED
    BY <1>6, <2>3, <2>4, <2>5, <2>6, TellsOrStrays
<1> QED
  BY <1>0, <1>1, <1>2, <1>3, <1>4, <1>5, <1>6 DEF Footprint

\* The controller implements Announcements: subscribers are told only the
\* stored status and only before it is announced, and LastNotifiedStatus moves
\* only once every subscriber has been told (Reconcile, retryAlert and
\* markAnnounced together, through every fault, edit and restart).
THEOREM ImplementsAnnouncements == Spec => AnnouncesAsPromised
<1>1. Init => Promise!Init
  <2> SUFFICES ASSUME Init PROVE Promise!Init
    OBVIOUS
  <2>1. /\ store.uid = 1 /\ store.live = TRUE /\ store.last \in Statuses \cup {""}
        /\ Notified(store) = store.last
    BY FirstObject
  <2>2. Told = [n \in Subscribers |-> ""]
    BY DEF Init, Told, Subscribers
  <2> QED
    BY <2>1, <2>2 DEF Promise!Init, Told
<1> QED
  BY <1>1, StepKeepsPromise, PromiseInvariant, PTL DEF Spec, AnnouncesAsPromised, Promise!Spec
-----------------------------------------------------------------------------
(***************************************************************************)
(* No monitor that can be checked is forgotten: NeverForgotten with what   *)
(* the watch owes the cache is inductive.                                  *)
(***************************************************************************)

\* The watch leads from the cache to the store, one version after the other, and
\* a version that the predicate holds back is as valid as the one before.
Before(i) == IF i = 1 THEN cached ELSE events[i - 1]
WatchFollows ==
  /\ events = << >> => cached = store
  /\ events # << >> => events[Len(events)] = store
  /\ \A i \in 1..Len(events) :
       ~Passes(Before(i), events[i]) => Before(i).valid = events[i].valid

FollowInv == clock > 0 /\ WatchFollows /\ NeverForgotten

\* A write of a version that is passed on or as valid as the last is one more
\* step from the cache to the store.
LEMMA PutFollows ==
  ASSUME TypeOK, WatchFollows, NEW m \in Monitor, Put(m), UNCHANGED cached,
         ~Passes(store, m) => m.valid = store.valid
  PROVE  WatchFollows'
<1>1. /\ events' = Append(events, store') /\ store'.live = m.live /\ store'.gen = m.gen
      /\ store'.valid = m.valid
  BY Numbers, PutFields, PutStatus
<1>2. events \in Seq(Monitor) /\ Len(events) \in Nat
  BY Numbers
<1>3. Len(events') = Len(events) + 1 /\ events'[Len(events')] = store' /\ events' # << >>
  BY <1>1, <1>2
<1>4. ASSUME NEW i \in 1..Len(events'), ~Passes(Before(i)', events'[i])
      PROVE  Before(i)'.valid = events'[i].valid
  <2>1. CASE i = Len(events) + 1
    <3>1. Before(i)' = store
      <4>1. CASE events = << >>
        BY <1>2, <2>1, <4>1 DEF Before, WatchFollows
      <4>2. CASE events # << >>
        <5>1. Len(events) > 0
          BY <1>2, <4>2
        <5>2. Before(i)' = events'[i - 1] /\ i - 1 = Len(events)
          BY <1>2, <2>1, <5>1 DEF Before
        <5>3. events'[Len(events)] = events[Len(events)]
          BY <1>1, <1>2, <5>1
        <5> QED
          BY <4>2, <5>2, <5>3 DEF WatchFollows
      <4> QED
        BY <4>1, <4>2
    <3>2. events'[i] = store'
      BY <1>3, <2>1
    <3> QED
      BY <1>1, <1>4, <3>1, <3>2 DEF Passes
  <2>2. CASE i # Len(events) + 1
    <3>1. i \in 1..Len(events) /\ events'[i] = events[i]
      BY <1>1, <1>2, <1>3, <2>2
    <3>2. Before(i)' = Before(i)
      <4>1. i # 1 => i - 1 \in 1..Len(events)
        BY <3>1
      <4> QED
        BY <1>1, <1>2, <4>1 DEF Before
    <3> QED
      BY <1>4, <3>1, <3>2 DEF WatchFollows
  <2> QED
    BY <2>1, <2>2
<1> QED
  BY <1>3, <1>4 DEF WatchFollows

\* Nothing that keeps the key awake is taken away.
LEMMA StaysAwake ==
  ASSUME TypeOK, NeverForgotten, UNCHANGED <<cached, queued, wakeAt>>,
         rpc # "idle" /\ ~locals.gone => rpc' # "idle" /\ ~locals'.gone,
         events' = events \/ \E x : events' = Append(events, x)
  PROVE  NeverForgotten'
<1>1. events \in Seq(Monitor)
  BY Numbers
<1>2. \A i \in 1..Len(events) : i \in 1..Len(events') /\ events'[i] = events[i]
  BY <1>1
<1> QED
  BY <1>2 DEF NeverForgotten

\* The key comes back at a time that there is.
LEMMA ComesBack ==
  ASSUME wakeAt \in Nat, NEW t \in Nat, t > 0, AddAfter(t)
  PROVE  wakeAt' # Never
BY DEF AddAfter, Never

\* Deliver: a version that is held back leaves the cache as valid as it was and
\* every later version as far from it.
LEMMA DeliverFollows ==
  ASSUME TypeOK, FollowInv, Deliver, UNCHANGED <<rpc, locals>>
  PROVE  FollowInv'
<1>1. /\ events # << >> /\ cached' = Head(events) /\ events' = Tail(events)
      /\ queued' = (queued \/ Passes(cached, Head(events)))
      /\ UNCHANGED <<store, wakeAt, clock>>
  BY DEF Deliver
<1>2. events \in Seq(Monitor) /\ Len(events) \in Nat
  BY Numbers
<1>3. cached' = events[1] /\ 1 \in 1..Len(events) /\ Len(events') = Len(events) - 1
  BY <1>1, <1>2
<1>4. \A i \in 1..Len(events') : i + 1 \in 1..Len(events) /\ events'[i] = events[i + 1]
  BY <1>1, <1>2
<1>5. WatchFollows'
  <2>1. events' = << >> => cached' = store'
    <3>1. events' = << >> => Len(events) = 1
      BY <1>2, <1>3
    <3> QED
      BY <1>1, <1>3, <3>1 DEF FollowInv, WatchFollows
  <2>2. events' # << >> => events'[Len(events')] = store'
    <3>1. events' # << >> => Len(events') \in 1..Len(events')
      BY <1>1, <1>2
    <3>2. events' # << >> => events'[Len(events')] = events[Len(events)]
      BY <1>2, <1>3, <1>4, <3>1
    <3> QED
      BY <1>1, <3>2 DEF FollowInv, WatchFollows
  <2>3. ASSUME NEW i \in 1..Len(events'), ~Passes(Before(i)', events'[i])
        PROVE  Before(i)'.valid = events'[i].valid
    <3>1. i + 1 \in 1..Len(events) /\ events'[i] = events[i + 1] /\ i + 1 # 1 /\ (i + 1) - 1 = i
      BY <1>4
    <3>2. Before(i)' = events[i]
      <4>1. i # 1 => i - 1 \in 1..Len(events') /\ (i - 1) + 1 = i
        BY <1>2, <1>3
      <4> QED
        BY <1>3, <1>4, <4>1 DEF Before
    <3>3. Before(i + 1) = events[i]
      BY <3>1 DEF Before
    <3> QED
      BY <2>3, <3>1, <3>2, <3>3 DEF FollowInv, WatchFollows
  <2> QED
    BY <2>1, <2>2, <2>3 DEF WatchFollows
<1>6. NeverForgotten'
  <2> SUFFICES ASSUME cached'.live, cached'.valid
               PROVE  \/ queued' \/ wakeAt' # Never \/ (rpc' # "idle" /\ ~locals'.gone)
                      \/ \E i \in 1..Len(events') : Passes(cached', events'[i])
    BY DEF NeverForgotten
  <2>1. CASE Passes(cached, events[1])
    <3>1. Head(events) = events[1]
      BY <1>1, <1>3
    <3> QED
      BY <1>1, <2>1, <3>1
  <2>2. CASE ~Passes(cached, events[1])
    <3>1. cached'.live = cached.live /\ cached'.gen = cached.gen
      BY <1>3, <2>2 DEF Passes
    <3>2. cached'.valid = cached.valid
      BY <1>3, <2>2 DEF FollowInv, WatchFollows, Before
    <3>3. \/ queued \/ wakeAt # Never \/ (rpc # "idle" /\ ~locals.gone)
          \/ \E i \in 1..Len(events) : Passes(cached, events[i])
      BY <3>1, <3>2 DEF FollowInv, NeverForgotten
    <3>4. ASSUME NEW i \in 1..Len(events), Passes(cached, events[i])
          PROVE  \E k \in 1..Len(events') : Passes(cached', events'[k])
      <4>1. i # 1
        BY <2>2, <3>4
      <4>2. i - 1 \in 1..Len(events') /\ (i - 1) + 1 = i
        BY <1>2, <1>3, <4>1
      <4>3. events'[i - 1] = events[i]
        BY <1>4, <4>2
      <4>4. Passes(cached', events'[i - 1])
        BY <3>1, <3>4, <4>3 DEF Passes
      <4> QED
        BY <4>2, <4>4
    <3> QED
      BY <1>1, <3>3, <3>4
  <2> QED
    BY <2>1, <2>2
<1> QED
  BY <1>1, <1>5, <1>6 DEF FollowInv

\* A goroutine's step, and a user's: at most one more version on its way.
LEMMA WritesFollow ==
  ASSUME TypeOK, FollowInv, UNCHANGED <<cached, queued, wakeAt, clock>>,
         rpc # "idle" /\ ~locals.gone => rpc' # "idle" /\ ~locals'.gone,
         \/ UNCHANGED <<store, events>>
         \/ \E m \in Monitor : Put(m) /\ (~Passes(store, m) => m.valid = store.valid)
  PROVE  FollowInv'
<1>1. CASE UNCHANGED <<store, events>>
  <2>1. WatchFollows'
    BY <1>1 DEF FollowInv, WatchFollows, Before
  <2>2. NeverForgotten'
    BY <1>1, StaysAwake DEF FollowInv
  <2> QED
    BY <2>1, <2>2 DEF FollowInv
<1>2. CASE \E m \in Monitor : Put(m) /\ (~Passes(store, m) => m.valid = store.valid)
  <2>1. PICK m \in Monitor : Put(m) /\ (~Passes(store, m) => m.valid = store.valid)
    BY <1>2
  <2>2. WatchFollows'
    BY <2>1, PutFollows DEF FollowInv
  <2>3. \E x : events' = Append(events, x)
    BY <2>1 DEF Put
  <2>4. NeverForgotten'
    BY <2>3, StaysAwake DEF FollowInv
  <2> QED
    BY <2>2, <2>4 DEF FollowInv
<1> QED
  BY <1>1, <1>2

\* Returning with a time to come back, with or without a write.
LEMMA ReturnFollows ==
  ASSUME TypeOK, FollowInv, UNCHANGED <<cached, clock>>, NEW t \in Nat, t > 0, AddAfter(t),
         \/ UNCHANGED <<store, events>>
         \/ \E m \in Monitor : Put(m) /\ (~Passes(store, m) => m.valid = store.valid)
  PROVE  FollowInv'
<1>1. wakeAt' # Never
  BY ComesBack DEF TypeOK, ClusterTypeOK
<1>2. NeverForgotten'
  BY <1>1 DEF NeverForgotten
<1>3. WatchFollows'
  <2>1. CASE UNCHANGED <<store, events>>
    BY <2>1 DEF FollowInv, WatchFollows, Before
  <2>2. CASE \E m \in Monitor : Put(m) /\ (~Passes(store, m) => m.valid = store.valid)
    BY <2>2, PutFollows DEF FollowInv
  <2> QED
    BY <2>1, <2>2
<1> QED
  BY <1>2, <1>3 DEF FollowInv

\* An accepted update is of the stored spec, so the predicate holds it back and
\* it is as valid.
LEMMA AcceptedFollows ==
  ASSUME TypeOK, AlertInv, Accepts(mon)
  PROVE  /\ mon \in Monitor /\ Announced(mon) \in Monitor
         /\ mon.valid = store.valid /\ Announced(mon).valid = store.valid
<1>1. SpecOf(mon) = SpecOf(store) /\ mon \in Monitor
  BY AcceptedIsStored, Numbers DEF AlertInv
<1>2. Announced(mon) \in Monitor /\ SpecOf(Announced(mon)) = SpecOf(mon)
  BY <1>1, AnnouncedFields
<1> QED
  BY <1>1, <1>2 DEF SpecOf

\* Reconcile's steps that do not return.
LEMMA GoingOnFollows ==
  ASSUME TypeOK, AlertInv, FollowInv,
         \/ ReconcileDue \/ Check \/ \E r \in RunIds : StopClose(r) \/ StopWait(r)
  PROVE  FollowInv'
<1> USE DEF clusterVars, reconcilerVars, observerVars, retryVars
<1>1. UNCHANGED <<store, cached, events, clock, wakeAt>>
  BY DEF ReconcileDue, Check, StopClose, StopWait
<1>2. CASE ReconcileDue
  <2>1. rpc' = "stop" /\ ~locals'.gone
    BY <1>2 DEF ReconcileDue, NoLocals
  <2>2. NeverForgotten'
    BY <2>1 DEF NeverForgotten
  <2>3. WatchFollows'
    BY <1>1 DEF FollowInv, WatchFollows, Before
  <2> QED
    BY <1>1, <2>2, <2>3 DEF FollowInv
<1>3. CASE Check
  <2>1. rpc' = "update" /\ locals'.gone = locals.gone /\ UNCHANGED queued
    BY <1>3 DEF Check, TypeOK, ReconcilerTypeOK
  <2> QED
    BY <1>1, <2>1, WritesFollow
<1>4. CASE \E r \in RunIds : StopClose(r) \/ StopWait(r)
  <2>1. UNCHANGED <<rpc, locals, queued>>
    BY <1>4 DEF StopClose, StopWait
  <2> QED
    BY <1>1, <2>1, WritesFollow
<1> QED
  BY <1>2, <1>3, <1>4

\* Reconcile's returns.  Those without a time are for a monitor that is gone, or
\* not valid, or whose deletion is on its way to the cache.
LEMMA ReturnsFollow ==
  ASSUME TypeOK, AlertInv, FollowInv,
         \/ ReconcileGone \/ ReconcileInvalid \/ ReconcileSkip \/ ReconcileFails
         \/ StopDone \/ Reread
  PROVE  FollowInv'
<1> USE DEF retryVars, observerVars
<1>1. UNCHANGED <<store, cached, events, clock>>
  BY DEF ReconcileGone, ReconcileInvalid, ReconcileSkip, ReconcileFails, ReconcileGetFails,
         SetupFails, CheckFails, StopDone, Reread
<1>2. WatchFollows'
  BY <1>1 DEF FollowInv, WatchFollows, Before
<1>3. clock \in Nat /\ clock > 0 /\ CheckInterval \in Nat /\ SetupRetry \in Nat
      /\ CheckInterval > 0 /\ SetupRetry > 0 /\ cached.checked \in Nat
  <2>1. /\ CheckInterval \in Nat /\ CheckInterval > 0
        /\ SetupRetry \in Nat /\ SetupRetry > 0
    BY ControllerAssumption
  <2>2. clock > 0
    BY DEF FollowInv
  <2>3. clock \in Nat
    BY DEF TypeOK, ClusterTypeOK
  <2>4. cached.checked \in Nat
    BY Numbers, MonitorNumbers
  <2> QED
    BY <2>1, <2>2, <2>3, <2>4
<1>4. ReturnAfter(clock) \/ ReturnAfter(clock + SetupRetry)
        \/ ReturnAfter(cached.checked + CheckInterval) => FollowInv'
  <2>1. /\ clock + SetupRetry \in Nat /\ clock + SetupRetry > 0
        /\ cached.checked + CheckInterval \in Nat /\ cached.checked + CheckInterval > 0
    BY <1>3
  <2> QED
    BY <1>1, <1>3, <2>1, ReturnFollows DEF ReturnAfter
<1>5. CASE ReconcileGone \/ ReconcileInvalid
  <2>1. ~cached'.live \/ ~cached'.valid
    BY <1>1, <1>5 DEF ReconcileGone, ReconcileInvalid
  <2>2. NeverForgotten'
    BY <2>1 DEF NeverForgotten
  <2> QED
    BY <1>1, <1>2, <2>2 DEF FollowInv
<1>6. CASE ReconcileSkip \/ ReconcileFails
  BY <1>4, <1>6 DEF ReconcileSkip, ReconcileFails, ReconcileGetFails, SetupFails, CheckFails,
     ReturnError
<1>7. CASE StopDone
  <2>1. UNCHANGED <<queued, wakeAt>>
    BY <1>7 DEF StopDone, ReturnDone
  <2>2. rpc # "idle" /\ ~locals.gone => rpc' # "idle" /\ ~locals'.gone
    BY <1>7 DEF StopDone
  <2> QED
    BY <1>1, <2>1, <2>2, WritesFollow
<1>8. CASE Reread
  <2>1. CASE rpc' = "check" /\ UNCHANGED <<wakeAt, locals>>
    <3>1. UNCHANGED queued
      BY <1>8 DEF Reread
    <3> QED
      BY <1>1, <2>1, <3>1, WritesFollow
  <2>2. CASE ~store.live
    <3>1. ASSUME cached.live  PROVE \E i \in 1..Len(events) : Passes(cached, events[i])
      <4>1. events # << >>
        BY <2>2, <3>1 DEF FollowInv, WatchFollows
      <4>2. Len(events) \in 1..Len(events)
        BY <4>1, Numbers
      <4>3. events[Len(events)] = store
        BY <4>1 DEF FollowInv, WatchFollows
      <4>4. Passes(cached, events[Len(events)])
        BY <2>2, <3>1, <4>3 DEF Passes
      <4> QED
        BY <4>2, <4>4
    <3>2. NeverForgotten'
      BY <1>1, <3>1 DEF NeverForgotten
    <3> QED
      BY <1>1, <1>2, <3>2 DEF FollowInv
  <2> QED
    BY <1>4, <1>8, <2>1, <2>2 DEF Reread, ReturnError
<1> QED
  BY <1>5, <1>6, <1>7, <1>8

\* Reconcile's updates and alerts.
LEMMA UpdatesFollow ==
  ASSUME TypeOK, AlertInv, FollowInv,
         UpdateStatus \/ RecordChange \/ SendStatusAlert \/ SendChangeAlert
  PROVE  FollowInv'
<1> USE DEF retryVars, observerVars
<1>1. UNCHANGED <<cached, clock, queued>>
  BY DEF UpdateStatus, RecordChange, SendStatusAlert, SendChangeAlert
<1>2. clock \in Nat /\ clock > 0 /\ clock + CheckInterval \in Nat /\ clock + CheckInterval > 0
  <2>1. clock \in Nat /\ clock > 0 /\ CheckInterval \in Nat
    BY ControllerAssumption DEF TypeOK, ClusterTypeOK, FollowInv
  <2> QED
    BY <2>1
<1>3. ASSUME ReturnAfter(clock) \/ ReturnAfter(clock + CheckInterval),
             \/ UNCHANGED <<store, events>>
             \/ Accepts(mon) /\ (Put(mon) \/ Put(Announced(mon)))
      PROVE  FollowInv'
  <2>1. \/ UNCHANGED <<store, events>>
        \/ \E m \in Monitor : Put(m) /\ (~Passes(store, m) => m.valid = store.valid)
    BY <1>3, AcceptedFollows
  <2> QED
    BY <1>1, <1>2, <1>3, <2>1, ReturnFollows DEF ReturnAfter
<1>4. CASE UpdateStatus
  <2>1. CASE Accepts(mon) /\ Write(mon) /\ rpc' = "alert" /\ UNCHANGED locals
    <3>1. /\ UNCHANGED wakeAt
          /\ \E m \in Monitor : Put(m) /\ (~Passes(store, m) => m.valid = store.valid)
      BY <2>1, AcceptedFollows DEF Write
    <3> QED
      BY <1>1, <2>1, <3>1, WritesFollow
  <2> QED
    BY <1>3, <1>4, <2>1 DEF UpdateStatus, WriteLost, WriteRefused, ReturnError
<1>5. CASE RecordChange
  BY <1>3, <1>5 DEF RecordChange, WriteRefused, ReturnError
<1>6. CASE SendStatusAlert \/ SendChangeAlert
  <2>1. UNCHANGED <<store, events>>
    BY <1>6 DEF SendStatusAlert, SendChangeAlert
  <2>2. \/ rpc' # "idle" /\ UNCHANGED <<wakeAt, locals>>
        \/ ReturnAfter(clock + CheckInterval)
    BY <1>6 DEF SendStatusAlert, SendChangeAlert, AfterAlert
  <2> QED
    BY <1>1, <1>3, <2>1, <2>2, WritesFollow
<1> QED
  BY <1>4, <1>5, <1>6

\* The steps of the goroutines and of the cluster, and the restart.
LEMMA OthersFollow ==
  ASSUME TypeOK, FollowInv, Cluster \/ Restart \/ \E r \in RunIds : Retry(r)
  PROVE  FollowInv'
<1>1. CASE \E r \in RunIds : Retry(r)
  <2>1. PICK r \in RunIds : Retry(r)
    BY <1>1
  <2>2. /\ UNCHANGED <<cached, clock, rpc, locals>>
        /\ UNCHANGED <<store, events>> \/ Put(Announced(store))
    BY <2>1, RetryHasEffect, RetryHasTelling DEF RetryEffect, RetryTelling
  <2>3. UNCHANGED <<queued, wakeAt>>
    BY <2>1 DEF Retry, RetryStopped, RetryTimer, RetrySends, RetryAgain, RetryGivesUp, MarkRead,
       MarkWrite, NoteWrite, RetryExit, clusterVars
  <2>4. Announced(store) \in Monitor /\ Announced(store).valid = store.valid
    <3>1. Announced(store) \in Monitor /\ SpecOf(Announced(store)) = SpecOf(store)
      BY Numbers, AnnouncedFields
    <3> QED
      BY <3>1 DEF SpecOf
  <2> QED
    BY <2>2, <2>3, <2>4, WritesFollow
<1>2. CASE Restart
  <2>1. cached' = store' /\ events' = << >> /\ queued' = store'.live /\ clock' = clock
    BY <1>2 DEF Restart
  <2>2. WatchFollows'
    <3>1. 1..Len(events') = {}
      BY <2>1
    <3> QED
      BY <2>1, <3>1 DEF WatchFollows
  <2>3. NeverForgotten'
    BY <2>1 DEF NeverForgotten
  <2> QED
    BY <2>1, <2>2, <2>3 DEF FollowInv
<1>3. CASE Cluster
  <2>1. UNCHANGED <<rpc, locals>>
    BY <1>3 DEF Cluster, reconcilerVars
  <2>2. CASE User
    BY <2>1, <2>2, UserEffect, WritesFollow
  <2>3. CASE Deliver
    BY <2>1, <2>3, DeliverFollows
  <2>4. CASE TimerFires
    <3>1. queued' = TRUE /\ UNCHANGED <<store, cached, events, clock>>
      BY <2>4 DEF TimerFires
    <3> QED
      BY <3>1 DEF FollowInv, WatchFollows, Before, NeverForgotten
  <2>5. CASE Tick
    <3>1. clock' = clock + 1 /\ UNCHANGED <<store, cached, events, queued, wakeAt>>
      BY <2>5 DEF Tick
    <3>2. clock \in Nat
      BY DEF TypeOK, ClusterTypeOK
    <3>3. WatchFollows' /\ NeverForgotten'
      BY <2>1, <3>1 DEF FollowInv, WatchFollows, Before, NeverForgotten
    <3> QED
      BY <3>1, <3>2, <3>3 DEF FollowInv
  <2> QED
    BY <1>3, <2>2, <2>3, <2>4, <2>5 DEF Cluster
<1> QED
  BY <1>1, <1>2, <1>3

\* Every step keeps the watch and the queue.
LEMMA FollowStep == TypeOK /\ AlertInv /\ FollowInv /\ [Next]_vars => FollowInv'
<1> SUFFICES ASSUME TypeOK, AlertInv, FollowInv, [Next]_vars PROVE FollowInv'
  OBVIOUS
<1>1. CASE Reconcile
  BY <1>1, GoingOnFollows, ReturnsFollow, UpdatesFollow DEF Reconcile
<1>2. CASE ReconcileFails
  BY <1>2, ReturnsFollow
<1>3. CASE Restart \/ Cluster \/ \E r \in RunIds : Retry(r)
  BY <1>3, OthersFollow
<1>4. CASE UNCHANGED vars
  <2>1. UNCHANGED <<store, cached, events, queued, wakeAt, clock, rpc, locals>>
    BY <1>4 DEF vars, clusterVars, reconcilerVars
  <2> QED
    BY <2>1, WritesFollow
<1> QED
  BY <1>1, <1>2, <1>3, <1>4 DEF Next

\* A monitor that can be checked is queued, about to be queued, being reconciled
\* by a run that requeues it, or has an event under way that queues it: every
\* return of Reconcile without a time is covered by the watch.
THEOREM NoneForgotten == Spec => []NeverForgotten
<1>1. Init => TypeOK /\ AlertInv /\ FollowInv
  <2> SUFFICES ASSUME Init PROVE FollowInv
    BY TypeInit, AlertInvInit
  <2>1. cached = store /\ events = << >> /\ queued = TRUE /\ clock = 1
    BY DEF Init, ClusterInit
  <2>2. 1..Len(events) = {}
    BY <2>1
  <2> QED
    BY <2>1, <2>2 DEF FollowInv, WatchFollows, NeverForgotten
<1>2. (TypeOK /\ AlertInv /\ FollowInv) /\ [Next]_vars => (TypeOK /\ AlertInv /\ FollowInv)'
  BY TypeStep, AlertInvStep, FollowStep
<1>3. FollowInv => NeverForgotten
  BY DEF FollowInv
<1> QED
  BY <1>1, <1>2, <1>3, PTL DEF Spec
=============================================================================

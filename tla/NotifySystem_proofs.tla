------------------------ MODULE NotifySystem_proofs -------------------------
(***************************************************************************)
(* Machine-checked proofs about NotifySystem, for every number of          *)
(* notifications, relays and workers, every bound and every failure: its   *)
(* types, deliveries and outbox.                                           *)
(***************************************************************************)
EXTENDS NotifySystem, TLAPS

(***************************************************************************)
(* References: what the type invariant needs to be inductive.  Every id a  *)
(* process or a message carries names a row that exists.                   *)
(***************************************************************************)
EventsHaveRows ==
    \A e \in EventID :
        outbox[e].status # Absent => outbox[e].notification_id \in Notification

MessagesHaveRows ==
    \A m \in MessageID : Parses(m) => stream[m].notification_id \in Notification

RelaysHoldEvents ==
    \A r \in Relay :
        /\ \A e \in claimed[r] : outbox[e].status # Absent
        /\ relayPc[r] # "loop" => relayEvent[r] \in EventID

WorkersHoldTasks ==
    \A w \in Worker :
        /\ workerPc[w] # "loop" => task[w].msg \in MessageID
        /\ workerPc[w] \in {"mark", "deliver", "record"} =>
                task[w].id \in Notification

TypeInv ==
    /\ TypeOK
    /\ EventsHaveRows
    /\ MessagesHaveRows
    /\ RelaysHoldEvents
    /\ WorkersHoldTasks

-----------------------------------------------------------------------------
(***************************************************************************)
(* What the record updates of the model return                             *)
(***************************************************************************)
LEMMA MovedRow ==
    ASSUME NEW row \in NotificationRow, NEW status \in NotificationStatus,
           NEW count \in Nat, NEW next \in EventID \cup {NoEvent}
    PROVE  /\ Moved(row, status, count, next) \in NotificationRow
           /\ Moved(row, status, count, next).status = status
           /\ Moved(row, status, count, next).attempt_count = count
           /\ Moved(row, status, count, next).max_attempts = row.max_attempts
  BY DEF Moved, NotificationRow

LEMMA RelockedRow ==
    ASSUME NEW row \in OutboxRow, NEW locker \in LockerID \cup {"none"},
           NEW status \in {"pending", "publishing", "published"}
    PROVE  /\ Relocked(row, status, locker) \in OutboxRow
           /\ Relocked(row, status, locker).status = status
           /\ Relocked(row, status, locker).notification_id = row.notification_id
  BY DEF Relocked, OutboxRow

LEMMA InitTypeInv == Init => TypeInv
  <1> SUFFICES ASSUME Init PROVE TypeInv
    OBVIOUS
  <1> USE DEF Init
  <1>1. StoreTypeOK
    BY DEF StoreInit, StoreTypeOK, NotificationRow, OutboxRow, EventID, NoEvent,
           NotificationStatus
  <1>2. StreamTypeOK
    BY DEF StreamInit, StreamTypeOK, Message, EventID, NoEvent
  <1>3. RelayTypeOK
    BY DEF RelayInit, RelayTypeOK, NoEvent
  <1>4. WorkerTypeOK
    BY DEF WorkerInit, WorkerTypeOK, Task, NoTask
  <1>5. faults \in 0..MaxFaults /\ retries \in 0..MaxManualRetries
    BY FaultAssumption, RetriesAssumption
  <1>6. EventsHaveRows
    BY DEF EventsHaveRows, StoreInit
  <1>7. MessagesHaveRows
    BY DEF MessagesHaveRows, Parses, StreamInit
  <1>8. RelaysHoldEvents
    BY DEF RelaysHoldEvents, RelayInit
  <1>9. WorkersHoldTasks
    BY DEF WorkersHoldTasks, WorkerInit
  <1> QED
    BY <1>1, <1>2, <1>3, <1>4, <1>5, <1>6, <1>7, <1>8, <1>9 DEF TypeInv, TypeOK

-----------------------------------------------------------------------------
(***************************************************************************)
(* The API's transactions                                                  *)
(***************************************************************************)
LEMMA CreateTypeInv ==
    ASSUME TypeInv, NEW n \in Notification, Create(n)
    PROVE  TypeInv'
  <1> USE DEF TypeInv, TypeOK, Create, CreateNotification
  <1>1. PICK max \in MaxAttempts : CreateNotification(n, max)
    OBVIOUS
  <1>2. PICK e \in EventID : outbox' = WithEvent(e, n, TRUE)
    BY <1>1
  <1>3. max \in Nat
    BY StoreAssumption
  <1>4. StoreTypeOK'
    BY <1>1, <1>2, <1>3
       DEF StoreTypeOK, WithEvent, NotificationRow, OutboxRow, NotificationStatus,
           NoEvent
  <1>5. EventsHaveRows'
    BY <1>2 DEF EventsHaveRows, WithEvent, StoreTypeOK
  <1>6. RelaysHoldEvents'
    BY <1>2 DEF RelaysHoldEvents, WithEvent, StoreTypeOK, relayVars, RelayTypeOK, Absent
  <1>7. /\ StreamTypeOK' /\ RelayTypeOK' /\ WorkerTypeOK'
        /\ MessagesHaveRows' /\ WorkersHoldTasks'
        /\ (faults \in 0..MaxFaults /\ retries \in 0..MaxManualRetries)'
    BY DEF streamVars, relayVars, workerVars, historyVars, StreamTypeOK, RelayTypeOK,
           WorkerTypeOK, MessagesHaveRows, WorkersHoldTasks, Parses
  <1> QED
    BY <1>4, <1>5, <1>6, <1>7

LEMMA RetryTypeInv ==
    ASSUME TypeInv, NEW n \in Notification, Retry(n)
    PROVE  TypeInv'
  <1> USE DEF TypeInv, TypeOK, Retry, RetryFailedNotification
  <1>1. PICK e \in EventID : outbox' = WithEvent(e, n, TRUE)
    OBVIOUS
  <1>2. StoreTypeOK'
    <2>1. Moved(notifications[n], "pending", 0, NoEvent) \in NotificationRow
      BY MovedRow DEF StoreTypeOK, NotificationStatus
    <2> QED
      BY <1>1, <2>1 DEF StoreTypeOK, WithEvent, OutboxRow
  <1>3. EventsHaveRows'
    BY <1>1 DEF EventsHaveRows, WithEvent, StoreTypeOK
  <1>4. RelaysHoldEvents'
    BY <1>1 DEF RelaysHoldEvents, WithEvent, StoreTypeOK, relayVars, RelayTypeOK, Absent
  <1>5. /\ StreamTypeOK' /\ RelayTypeOK' /\ WorkerTypeOK'
        /\ MessagesHaveRows' /\ WorkersHoldTasks'
    BY DEF streamVars, relayVars, workerVars, historyVars, StreamTypeOK, RelayTypeOK,
           WorkerTypeOK, MessagesHaveRows, WorkersHoldTasks, Parses
  <1>6. (faults \in 0..MaxFaults /\ retries \in 0..MaxManualRetries)'
    BY RetriesAssumption
  <1> QED
    BY <1>2, <1>3, <1>4, <1>5, <1>6

-----------------------------------------------------------------------------
(***************************************************************************)
(* The relays.  Their steps leave the workers' part of the invariant       *)
(* alone, and the budget of failures bounds faults.                        *)
(***************************************************************************)
LEMMA FaultTyped ==
    ASSUME faults \in 0..MaxFaults, NEW kind, Fault(kind) \/ NoFault
    PROVE  faults' \in 0..MaxFaults
  BY FaultAssumption DEF Fault, NoFault

LEMMA WorkerPartUnchanged ==
    ASSUME TypeInv, UNCHANGED <<workerVars, retries>>
    PROVE  WorkerTypeOK' /\ WorkersHoldTasks' /\ retries' \in 0..MaxManualRetries
  BY DEF TypeInv, TypeOK, workerVars, historyVars, WorkerTypeOK, WorkersHoldTasks

LEMMA ClaimDueTypeInv ==
    ASSUME TypeInv, NEW r \in Relay, ClaimDue(r), UNCHANGED <<workerVars, retries>>
    PROVE  TypeInv'
  <1> USE DEF TypeInv, TypeOK, ClaimDue
  <1>1. PICK page \in ClaimPages \ {{}} :
          /\ outbox' = [e \in EventID |->
                IF e \in page THEN Relocked(outbox[e], "publishing", Locker[r])
                             ELSE outbox[e]]
          /\ \/ claimed' = [claimed EXCEPT ![r] = page] /\ NoFault
             \/ Fault("relay_db_error") /\ UNCHANGED claimed
    OBVIOUS
  <1>2. page \subseteq EventID /\ \A e \in page : outbox[e].status # Absent
    BY DEF ClaimPages, Claimable, Absent
  <1>a. \A e \in EventID :
          /\ outbox'[e] \in OutboxRow
          /\ outbox'[e].notification_id = outbox[e].notification_id
          /\ outbox[e].status # Absent => outbox'[e].status # Absent
          /\ outbox[e].status = Absent => outbox'[e].status = Absent
    BY SMTT(30), <1>1, <1>2, RelockedRow, RelayAssumption DEF StoreTypeOK, Absent
  <1>3. StoreTypeOK'
    BY <1>1, <1>a DEF StoreTypeOK
  <1>4. EventsHaveRows'
    BY <1>a DEF EventsHaveRows
  <1>5. RelayTypeOK'
    BY <1>1, <1>2 DEF RelayTypeOK
  <1>6. RelaysHoldEvents'
    <2>1. CASE UNCHANGED claimed
      BY <1>a, <2>1 DEF RelaysHoldEvents, RelayTypeOK
    <2>2. CASE claimed' = [claimed EXCEPT ![r] = page]
      BY <1>a, <1>2, <2>2 DEF RelaysHoldEvents, RelayTypeOK
    <2> QED
      BY <1>1, <2>1, <2>2
  <1>7. StreamTypeOK' /\ MessagesHaveRows'
    BY DEF StreamTypeOK, MessagesHaveRows, Parses
  <1>8. faults' \in 0..MaxFaults
    BY <1>1, FaultTyped
  <1> QED
    BY <1>3, <1>4, <1>5, <1>6, <1>7, <1>8, WorkerPartUnchanged

LEMMA PublishTypeInv ==
    ASSUME TypeInv, NEW r \in Relay, Publish(r), UNCHANGED <<workerVars, retries>>
    PROVE  TypeInv'
  <1> USE DEF TypeInv, TypeOK, Publish
  <1>1. PICK e \in claimed[r] :
          /\ relayEvent' = [relayEvent EXCEPT ![r] = e]
          /\ claimed' = [claimed EXCEPT ![r] = @ \ {e}]
          /\ PublishEvent(e) \/ UNCHANGED stream
          /\ \/ relayPc' = [relayPc EXCEPT ![r] = "published"] /\ NoFault
             \/ relayPc' = [relayPc EXCEPT ![r] = "failed"] /\ Fault("redis_error")
    BY Zenon
  <1>2. e \in EventID /\ outbox[e].notification_id \in Notification
    BY DEF RelaysHoldEvents, EventsHaveRows, RelayTypeOK
  <1>3. StoreTypeOK' /\ EventsHaveRows'
    BY DEF StoreTypeOK, EventsHaveRows, storeVars
  <1>4. StreamTypeOK' /\ MessagesHaveRows'
    <2>1. CASE UNCHANGED stream
      BY <2>1 DEF StreamTypeOK, MessagesHaveRows, Parses
    <2>2. CASE PublishEvent(e)
      <3>1. PICK m \in MessageID : stream' = [stream EXCEPT ![m] =
                  [ outbox_event_id |-> e, notification_id |-> outbox[e].notification_id,
                    state |-> "new", idle |-> FALSE ]]
        BY <2>2 DEF PublishEvent, XAdd
      <3> QED
        BY <1>2, <3>1 DEF StreamTypeOK, MessagesHaveRows, Parses, Message
    <2> QED
      BY <1>1, <2>1, <2>2
  <1>5. RelayTypeOK'
    BY <1>1, <1>2 DEF RelayTypeOK
  <1>6. RelaysHoldEvents'
    BY <1>1, <1>2 DEF RelaysHoldEvents, RelayTypeOK, storeVars
  <1>7. faults' \in 0..MaxFaults
    BY <1>1, FaultTyped
  <1> QED
    BY <1>3, <1>4, <1>5, <1>6, <1>7, WorkerPartUnchanged

LEMMA FinishClaimTypeInv ==
    ASSUME TypeInv, NEW r \in Relay, NEW status \in {"pending", "published"},
           relayPc[r] # "loop", FinishClaim(r, status),
           UNCHANGED <<streamVars, notifications, attempts, workerVars, retries>>
    PROVE  TypeInv'
  <1> USE DEF TypeInv, TypeOK
  <1>1. relayEvent[r] \in EventID
    BY DEF RelaysHoldEvents
  <1>2. outbox' = Released(relayEvent[r], status) \/ UNCHANGED outbox
    BY DEF FinishClaim
  <1>3. Continue(r) \/ Return(r)
    BY DEF FinishClaim
  <1>4. StoreTypeOK'
    <2>1. Relocked(outbox[relayEvent[r]], status, "none") \in OutboxRow
      BY <1>1, RelockedRow DEF StoreTypeOK
    <2> QED
      BY <1>1, <1>2, <2>1 DEF StoreTypeOK, Released
  <1>5. EventsHaveRows' /\ \A e \in EventID : outbox[e].status # Absent => outbox'[e].status # Absent
    <2>1. CASE UNCHANGED outbox
      BY <2>1 DEF EventsHaveRows
    <2>2. CASE outbox' = Released(relayEvent[r], status) /\ OwnsClaim(r, relayEvent[r])
      BY <1>1, <2>2, RelockedRow DEF EventsHaveRows, StoreTypeOK, Released, OwnsClaim, Absent
    <2> QED
      BY <2>1, <2>2 DEF FinishClaim
  <1>6. RelayTypeOK'
    BY <1>3 DEF RelayTypeOK, Continue, Return, NoEvent
  <1>7. RelaysHoldEvents'
    BY <1>3, <1>5 DEF RelaysHoldEvents, RelayTypeOK, Continue, Return
  <1>8. StreamTypeOK' /\ MessagesHaveRows'
    BY DEF StreamTypeOK, MessagesHaveRows, Parses, streamVars
  <1>9. faults' \in 0..MaxFaults
    BY FaultTyped DEF FinishClaim
  <1> QED
    BY <1>4, <1>5, <1>6, <1>7, <1>8, <1>9, WorkerPartUnchanged

LEMMA RelayStepTypeInv ==
    ASSUME TypeInv, NEW r \in Relay, RelayAction(r)
    PROVE  TypeInv'
  <1>1. CASE ClaimDue(r)
    BY <1>1, ClaimDueTypeInv DEF RelayAction
  <1>2. CASE Publish(r)
    BY <1>2, PublishTypeInv DEF RelayAction
  <1>3. CASE MarkPublished(r)
    BY <1>3, FinishClaimTypeInv DEF RelayAction, MarkPublished
  <1>4. CASE MarkFailed(r)
    BY <1>4, FinishClaimTypeInv DEF RelayAction, MarkFailed
  <1> QED
    BY <1>1, <1>2, <1>3, <1>4 DEF RelayAction, RelayStep

LEMMA RelayFailureTypeInv ==
    ASSUME TypeInv, NEW r \in Relay, RelayFailure(r)
    PROVE  TypeInv'
  <1> USE DEF TypeInv, TypeOK, RelayFailure, RelayCrash
  <1>1. StoreTypeOK' /\ EventsHaveRows'
    BY DEF StoreTypeOK, EventsHaveRows, storeVars
  <1>2. StreamTypeOK' /\ MessagesHaveRows'
    BY DEF StreamTypeOK, MessagesHaveRows, Parses, streamVars
  <1>3. RelayTypeOK' /\ RelaysHoldEvents'
    BY DEF RelayTypeOK, RelaysHoldEvents, Return, NoEvent, storeVars
  <1>4. faults' \in 0..MaxFaults
    BY FaultTyped
  <1> QED
    BY <1>1, <1>2, <1>3, <1>4, WorkerPartUnchanged

LEMMA EventClockTypeInv ==
    ASSUME TypeInv, NEW e \in EventID, EventClock(e)
    PROVE  TypeInv'
  <1> USE DEF TypeInv, TypeOK
  <1>1. /\ \/ outbox' = [outbox EXCEPT ![e].due = TRUE]
           \/ outbox' = [outbox EXCEPT ![e].lock_expired = TRUE]
        /\ UNCHANGED <<notifications, attempts, streamVars, relayVars, faults>>
        /\ UNCHANGED <<workerVars, retries>>
    BY DEF EventClock, EventDue, LockExpires
  <1>r. outbox \in [EventID -> OutboxRow]
    BY DEF StoreTypeOK
  <1>o. outbox' \in [EventID -> OutboxRow]
    <2>1. CASE outbox' = [outbox EXCEPT ![e].due = TRUE]
      BY <1>r, <2>1 DEF OutboxRow
    <2>2. CASE outbox' = [outbox EXCEPT ![e].lock_expired = TRUE]
      BY <1>r, <2>2 DEF OutboxRow
    <2> QED
      BY <1>1, <2>1, <2>2
  <1>2. StoreTypeOK'
    BY <1>1, <1>o DEF StoreTypeOK
  <1>3. \A f \in EventID : /\ outbox'[f].status = outbox[f].status
                           /\ outbox'[f].notification_id = outbox[f].notification_id
    <2>1. CASE outbox' = [outbox EXCEPT ![e].due = TRUE]
      BY <1>r, <2>1 DEF OutboxRow
    <2>2. CASE outbox' = [outbox EXCEPT ![e].lock_expired = TRUE]
      BY <1>r, <2>2 DEF OutboxRow
    <2> QED
      BY <1>1, <2>1, <2>2
  <1>4. EventsHaveRows'
    BY <1>3 DEF EventsHaveRows
  <1>5. RelayTypeOK' /\ RelaysHoldEvents'
    BY <1>1, <1>3 DEF RelayTypeOK, RelaysHoldEvents, relayVars
  <1>6. StreamTypeOK' /\ MessagesHaveRows'
    BY <1>1 DEF StreamTypeOK, MessagesHaveRows, Parses, streamVars
  <1> QED
    BY <1>1, <1>2, <1>4, <1>5, <1>6, WorkerPartUnchanged

-----------------------------------------------------------------------------
(***************************************************************************)
(* The workers.  A step that leaves the store alone, or only updates rows  *)
(* and inserts events, keeps the relays' part of the invariant.            *)
(***************************************************************************)
LEMMA StorePartUnchanged ==
    ASSUME TypeInv, UNCHANGED <<storeVars, relayVars, retries>>
    PROVE  /\ StoreTypeOK' /\ EventsHaveRows' /\ RelayTypeOK' /\ RelaysHoldEvents'
           /\ retries' \in 0..MaxManualRetries
  BY DEF TypeInv, TypeOK, storeVars, relayVars, StoreTypeOK, EventsHaveRows,
         RelayTypeOK, RelaysHoldEvents

LEMMA StreamPartUnchanged ==
    ASSUME TypeInv, UNCHANGED <<streamVars>>
    PROVE  StreamTypeOK' /\ MessagesHaveRows'
  BY DEF TypeInv, TypeOK, streamVars, StreamTypeOK, MessagesHaveRows, Parses

LEMMA DeliveredTypeInv ==
    ASSUME TypeInv, NEW page \in SUBSET MessageID, stream' = Delivered(page),
           UNCHANGED lost
    PROVE  StreamTypeOK' /\ MessagesHaveRows'
  <1>1. \A m \in MessageID :
          /\ stream'[m] \in Message
          /\ stream'[m].outbox_event_id = stream[m].outbox_event_id
          /\ stream'[m].notification_id = stream[m].notification_id
    BY DEF TypeInv, TypeOK, Delivered, StreamTypeOK, Message
  <1> QED
    BY <1>1 DEF TypeInv, TypeOK, Delivered, StreamTypeOK, MessagesHaveRows, Parses

\* Dropping the entry in hand.
LEMMA DropTyped ==
    ASSUME TypeInv, NEW w \in Worker, Drop(w)
    PROVE  /\ workerPc' \in [Worker -> {"loop", "mark", "deliver", "record", "ack"}]
           /\ task' \in [Worker -> Task]
           /\ result' \in [Worker -> AttemptResult \cup {NoResult}]
           /\ WorkersHoldTasks'
  <1> USE DEF TypeInv, TypeOK, WorkerTypeOK, Drop, Goto
  <1>1. NoTask \in Task
    BY DEF NoTask, Task
  <1> QED
    BY <1>1 DEF WorkersHoldTasks

LEMMA ReadPagesTypeInv ==
    ASSUME TypeInv, NEW w \in Worker,
           ClaimPage(w) \/ ReadPage(w) \/ PollError(w), UNCHANGED <<relayVars, retries>>
    PROVE  TypeInv'
  <1> USE DEF TypeInv, TypeOK
  <1>1. /\ IdleEntries(cursor[w]) \in SUBSET MessageID
        /\ NewEntries \in SUBSET MessageID
    BY DEF IdleEntries, NewEntries, FirstEntries
  <1>2. StreamTypeOK' /\ MessagesHaveRows'
    <2>1. \/ stream' = Delivered(IdleEntries(cursor[w]))
          \/ stream' = Delivered(NewEntries)
          \/ UNCHANGED stream
      BY DEF ClaimPage, ReadPage, PollError
    <2>2. UNCHANGED lost
      BY DEF ClaimPage, ReadPage, PollError
    <2> QED
      BY <1>1, <2>1, <2>2, DeliveredTypeInv, StreamPartUnchanged DEF streamVars
  <1>3. WorkerTypeOK'
    <2>1. CASE ClaimPage(w)
      BY <1>1, <2>1 DEF ClaimPage, WorkerTypeOK, historyVars
    <2>2. CASE ReadPage(w)
      BY <1>1, <2>2 DEF ReadPage, WorkerTypeOK, historyVars
    <2>3. CASE PollError(w)
      BY <1>1, <2>3 DEF PollError, WorkerTypeOK, historyVars
    <2> QED
      BY <2>1, <2>2, <2>3
  <1>4. WorkersHoldTasks'
    BY DEF ClaimPage, ReadPage, PollError, WorkersHoldTasks
  <1>5. faults' \in 0..MaxFaults
    BY FaultTyped DEF ClaimPage, ReadPage, PollError
  <1>6. UNCHANGED storeVars
    BY DEF ClaimPage, ReadPage, PollError
  <1> QED
    BY <1>2, <1>3, <1>4, <1>5, <1>6, StorePartUnchanged

LEMMA LoadTypeInv ==
    ASSUME TypeInv, NEW w \in Worker,
           LoadForDelivery(w) \/ LoadError(w), UNCHANGED <<relayVars, retries>>
    PROVE  TypeInv'
  <1> USE DEF TypeInv, TypeOK
  <1>1. CASE LoadForDelivery(w)
    <2>1. PICK m \in MessageID :
            /\ batch' = [batch EXCEPT ![w] = @ \ {m}]
            /\ \/ /\ ~Parses(m)
                  /\ task' = [task EXCEPT ![w] = [NoTask EXCEPT !.msg = m]]
                  /\ Goto(w, "ack")
               \/ /\ Parses(m)
                  /\ task' = [task EXCEPT ![w] = Loaded(m)]
                  /\ Goto(w, "ack") \/ Goto(w, "mark")
      BY <1>1, Zenon DEF LoadForDelivery
    <2>2. [NoTask EXCEPT !.msg = m] \in Task /\ [NoTask EXCEPT !.msg = m].msg = m
      BY DEF NoTask, Task
    <2>3. Parses(m) => /\ Loaded(m) \in Task
                       /\ Loaded(m).msg = m
                       /\ Loaded(m).id \in Notification
      <3> HAVE Parses(m)
      <3>1. stream[m].notification_id \in Notification
        BY DEF MessagesHaveRows
      <3>2. notifications[stream[m].notification_id] \in NotificationRow
        BY <3>1 DEF StoreTypeOK
      <3> QED
        BY <3>1, <3>2 DEF Loaded, Task, NotificationRow
    <2>4. WorkerTypeOK'
      BY <1>1, <2>1, <2>2, <2>3 DEF LoadForDelivery, WorkerTypeOK, Goto, historyVars
    <2>5. WorkersHoldTasks'
      BY <2>1, <2>2, <2>3 DEF WorkersHoldTasks, WorkerTypeOK, Goto
    <2> QED
      BY <1>1, <2>4, <2>5, StorePartUnchanged, StreamPartUnchanged
         DEF LoadForDelivery, NoFault
  <1>2. CASE LoadError(w)
    <2>1. WorkerTypeOK' /\ WorkersHoldTasks'
      BY <1>2 DEF LoadError, WorkerTypeOK, WorkersHoldTasks, historyVars
    <2>2. faults' \in 0..MaxFaults
      BY <1>2, FaultTyped DEF LoadError
    <2> QED
      BY <1>2, <2>1, <2>2, StorePartUnchanged, StreamPartUnchanged DEF LoadError
  <1> QED
    BY <1>1, <1>2

\* What both transactions of Process leave of a worker.
LEMMA AfterTransactionTyped ==
    ASSUME TypeInv, NEW w \in Worker, workerPc[w] \in {"mark", "record"},
           NEW pc \in {"deliver", "ack"}, NEW conflict \in BOOLEAN,
           AfterCommit(w, pc) \/ AfterRollback(w, conflict),
           UNCHANGED <<phase, cursor, batch, historyVars>>
    PROVE  WorkerTypeOK' /\ WorkersHoldTasks' /\ faults' \in 0..MaxFaults
  <1> USE DEF TypeInv, TypeOK
  <1>1. faults' \in 0..MaxFaults
    BY FaultTyped DEF AfterCommit, AfterRollback
  <1>2. CASE Drop(w)
    BY <1>1, <1>2, DropTyped DEF WorkerTypeOK, historyVars
  <1>3. CASE Goto(w, pc) /\ UNCHANGED <<task, result>>
    BY <1>1, <1>3 DEF WorkerTypeOK, WorkersHoldTasks, Goto, historyVars
  <1> QED
    BY <1>2, <1>3 DEF AfterCommit, AfterRollback

LEMMA StartDeliveryTypeInv ==
    ASSUME TypeInv, NEW w \in Worker, StartDelivery(w), UNCHANGED <<relayVars, retries>>
    PROVE  TypeInv'
  <1> USE DEF TypeInv, TypeOK
  <1> DEFINE n == task[w].id
  <1>1. n \in Notification /\ workerPc[w] = "mark"
    BY DEF StartDelivery, WorkersHoldTasks
  <1>2. WorkerTypeOK' /\ WorkersHoldTasks' /\ faults' \in 0..MaxFaults
    BY <1>1, AfterTransactionTyped DEF StartDelivery, CanStartDelivery
  <1>3. StreamTypeOK' /\ MessagesHaveRows'
    BY StreamPartUnchanged DEF StartDelivery
  <1>4. CASE MarkDelivering(n)
    <2>1. Moved(notifications[n], "delivering", notifications[n].attempt_count, NoEvent)
            \in NotificationRow
      BY <1>1, MovedRow DEF StoreTypeOK, NotificationStatus, NotificationRow
    <2>2. StoreTypeOK'
      BY <1>1, <1>4, <2>1 DEF MarkDelivering, StoreTypeOK
    <2>3. EventsHaveRows' /\ RelayTypeOK' /\ RelaysHoldEvents'
      BY <1>4 DEF MarkDelivering, EventsHaveRows, RelayTypeOK, RelaysHoldEvents, relayVars
    <2> QED
      BY <1>2, <1>3, <2>2, <2>3
  <1>5. CASE UNCHANGED storeVars
    BY <1>2, <1>3, <1>5, StorePartUnchanged
  <1> QED
    BY <1>4, <1>5 DEF StartDelivery, AfterRollback

LEMMA DeliverTypeInv ==
    ASSUME TypeInv, NEW w \in Worker, Deliver(w), UNCHANGED <<relayVars, retries>>
    PROVE  TypeInv'
  <1> USE DEF TypeInv, TypeOK, Deliver
  <1>1. task[w].id \in Notification
    BY DEF WorkersHoldTasks
  <1>2. WorkerTypeOK'
    BY <1>1 DEF WorkerTypeOK, Goto
  <1>3. WorkersHoldTasks'
    BY <1>1 DEF WorkersHoldTasks, WorkerTypeOK, Goto
  <1> QED
    BY <1>2, <1>3, StorePartUnchanged, StreamPartUnchanged DEF NoFault

\* The committed half of recording a result.
LEMMA RecordTypeInv ==
    ASSUME TypeInv, UNCHANGED relayVars,
           NEW n \in Notification, NEW number \in Nat, NEW retry \in BOOLEAN,
           RecordSuccess(n, number) \/ RecordFailure(n, number, retry)
    PROVE  StoreTypeOK' /\ EventsHaveRows' /\ RelayTypeOK' /\ RelaysHoldEvents'
  <1> USE DEF TypeInv, TypeOK
  <1>1. \A s \in {"succeeded", "retrying", "failed"} :
            WithAttempt(n, number, s) \in [Notification -> Seq(AttemptRow)]
    BY DEF WithAttempt, StoreTypeOK, AttemptRow
  <1>2. \A s \in {"succeeded", "retrying", "failed"}, e \in EventID \cup {NoEvent} :
            Moved(notifications[n], s, number, e) \in NotificationRow
    BY MovedRow DEF StoreTypeOK, NotificationStatus, Terminal
  <1>3. CASE RecordSuccess(n, number) \/ RecordTerminalFailure(n, number)
    <2>1. StoreTypeOK'
      BY ZenonT(60), <1>1, <1>2, <1>3 DEF RecordSuccess, RecordTerminalFailure, StoreTypeOK
    <2>2. EventsHaveRows' /\ RelayTypeOK' /\ RelaysHoldEvents'
      BY <1>3 DEF RecordSuccess, RecordTerminalFailure, EventsHaveRows, RelayTypeOK,
                  RelaysHoldEvents, relayVars
    <2> QED
      BY <2>1, <2>2
  <1>4. CASE RecordRetryableFailure(n, number)
    <2>1. PICK e \in EventID :
            /\ outbox' = WithEvent(e, n, FALSE)
            /\ notifications' = [notifications EXCEPT
                    ![n] = Moved(@, "retrying", number, e)]
      BY <1>4 DEF RecordRetryableFailure
    <2>2. StoreTypeOK'
      BY <1>1, <1>2, <1>4, <2>1
         DEF RecordRetryableFailure, StoreTypeOK, WithEvent, OutboxRow
    <2>3. EventsHaveRows'
      BY <2>1 DEF EventsHaveRows, WithEvent, StoreTypeOK
    <2>4. RelayTypeOK' /\ RelaysHoldEvents'
      BY <2>1 DEF RelaysHoldEvents, WithEvent, StoreTypeOK, relayVars, RelayTypeOK, Absent
    <2> QED
      BY <2>2, <2>3, <2>4
  <1> QED
    BY <1>3, <1>4 DEF RecordFailure

LEMMA RecordResultTypeInv ==
    ASSUME TypeInv, NEW w \in Worker, RecordResult(w), UNCHANGED <<relayVars, retries>>
    PROVE  TypeInv'
  <1> USE DEF TypeInv, TypeOK
  <1> DEFINE n == task[w].id
             number == task[w].Attempt + 1
  <1>1. n \in Notification /\ number \in Nat /\ workerPc[w] = "record"
    BY DEF RecordResult, WorkersHoldTasks, WorkerTypeOK, Task
  <1>2. WorkerTypeOK' /\ WorkersHoldTasks' /\ faults' \in 0..MaxFaults
    BY <1>1, AfterTransactionTyped DEF RecordResult, InFlightAttempt
  <1>3. StreamTypeOK' /\ MessagesHaveRows'
    BY StreamPartUnchanged DEF RecordResult
  <1>4. CASE \/ RecordSuccess(n, number)
             \/ RecordFailure(n, number, WillRetry(w))
    <2>1. WillRetry(w) \in BOOLEAN
      BY DEF WillRetry
    <2> QED
      BY <1>1, <1>2, <1>3, <1>4, <2>1, RecordTypeInv
  <1>5. CASE UNCHANGED storeVars
    BY <1>2, <1>3, <1>5, StorePartUnchanged
  <1> QED
    BY <1>4, <1>5 DEF RecordResult, AfterRollback

LEMMA AckTypeInv ==
    ASSUME TypeInv, NEW w \in Worker, Ack(w), UNCHANGED <<relayVars, retries>>
    PROVE  TypeInv'
  <1> USE DEF TypeInv, TypeOK, Ack
  <1>1. task[w].msg \in MessageID
    BY DEF WorkersHoldTasks
  <1>2. StreamTypeOK' /\ MessagesHaveRows'
    <2>1. CASE UNCHANGED stream
      BY <2>1, StreamPartUnchanged DEF streamVars
    <2>2. CASE stream' = Acked(task[w].msg)
      <3>1. \A m \in MessageID :
              /\ stream'[m] \in Message
              /\ stream'[m].outbox_event_id = stream[m].outbox_event_id
              /\ stream'[m].notification_id = stream[m].notification_id
        BY <1>1, <2>2 DEF Acked, StreamTypeOK, Message
      <3> QED
        BY <2>2, <3>1 DEF Acked, StreamTypeOK, MessagesHaveRows, Parses
    <2> QED
      BY <2>1, <2>2
  <1>3. WorkerTypeOK' /\ WorkersHoldTasks'
    BY DropTyped DEF WorkerTypeOK, historyVars
  <1>4. faults' \in 0..MaxFaults
    BY FaultTyped
  <1> QED
    BY <1>2, <1>3, <1>4, StorePartUnchanged

LEMMA WorkerCrashTypeInv ==
    ASSUME TypeInv, NEW w \in Worker, WorkerCrash(w), UNCHANGED <<relayVars, retries>>
    PROVE  TypeInv'
  <1> USE DEF TypeInv, TypeOK, WorkerCrash
  <1>1. WorkerTypeOK' /\ WorkersHoldTasks'
    BY DropTyped DEF WorkerTypeOK, historyVars
  <1>2. faults' \in 0..MaxFaults
    BY FaultTyped
  <1> QED
    BY <1>1, <1>2, StorePartUnchanged, StreamPartUnchanged

LEMMA WorkerStepTypeInv ==
    ASSUME TypeInv, NEW w \in Worker, WorkerAction(w) \/ WorkerFailure(w)
    PROVE  TypeInv'
  BY ReadPagesTypeInv, LoadTypeInv, StartDeliveryTypeInv, DeliverTypeInv,
     RecordResultTypeInv, AckTypeInv, WorkerCrashTypeInv
     DEF WorkerAction, WorkerStep, WorkerFailure

-----------------------------------------------------------------------------
(***************************************************************************)
(* Redis and its clock                                                     *)
(***************************************************************************)
LEMMA MessageClockTypeInv ==
    ASSUME TypeInv, NEW m \in MessageID, MessageClock(m)
    PROVE  TypeInv'
  <1> USE DEF TypeInv, TypeOK, MessageClock, MessageIdle
  <1>1. StreamTypeOK' /\ MessagesHaveRows'
    BY DEF StreamTypeOK, Message, MessagesHaveRows, Parses
  <1> QED
    BY <1>1, StorePartUnchanged, WorkerPartUnchanged

LEMMA RedisFailureTypeInv ==
    ASSUME TypeInv, RedisFailure
    PROVE  TypeInv'
  <1> USE DEF TypeInv, TypeOK, RedisFailure
  <1>1. faults' \in 0..MaxFaults
    BY FaultTyped DEF ForeignMessage, RedisForgets
  <1>2. StreamTypeOK' /\ MessagesHaveRows'
    <2>1. CASE ForeignMessage
      <3>1. PICK m \in MessageID : stream' = [stream EXCEPT ![m] =
                  [ outbox_event_id |-> NoEvent, notification_id |-> "none",
                    state |-> "new", idle |-> FALSE ]]
        BY <2>1 DEF ForeignMessage, XAdd
      <3> QED
        BY <2>1, <3>1 DEF ForeignMessage, StreamTypeOK, MessagesHaveRows, Parses, Message
    <2>2. CASE \E m \in MessageID : RedisForgets(m)
      <3>1. PICK m \in MessageID : RedisForgets(m)
        BY <2>2
      <3>2. /\ lost' \in BOOLEAN
            /\ \/ stream' = [stream EXCEPT ![m].state = "lost", ![m].idle = FALSE]
               \/ stream' = [stream EXCEPT ![m].state = "new", ![m].idle = FALSE]
               \/ stream' = [stream EXCEPT ![m].state = "pending"]
        BY <3>1 DEF RedisForgets, StreamTypeOK
      <3>3. \A x \in MessageID :
              /\ stream'[x] \in Message
              /\ stream'[x].outbox_event_id = stream[x].outbox_event_id
              /\ stream'[x].notification_id = stream[x].notification_id
        BY <3>2 DEF StreamTypeOK, Message
      <3> QED
        BY <3>2, <3>3 DEF StreamTypeOK, MessagesHaveRows, Parses
    <2> QED
      BY <2>1, <2>2
  <1> QED
    BY <1>1, <1>2, StorePartUnchanged, WorkerPartUnchanged

-----------------------------------------------------------------------------
LEMMA NextTypeInv == TypeInv /\ [Next]_vars => TypeInv'
  <1> SUFFICES ASSUME TypeInv, [Next]_vars PROVE TypeInv'
    OBVIOUS
  <1>1. CASE UNCHANGED vars
    BY <1>1, StorePartUnchanged, WorkerPartUnchanged, StreamPartUnchanged
       DEF vars, TypeInv, TypeOK
  <1>2. CASE Next
    BY <1>2, CreateTypeInv, RetryTypeInv, RelayStepTypeInv, RelayFailureTypeInv,
       WorkerStepTypeInv, EventClockTypeInv, MessageClockTypeInv, RedisFailureTypeInv
       DEF Next
  <1> QED
    BY <1>1, <1>2

LEMMA TypeInvHolds == Spec => []TypeInv
  BY InitTypeInv, NextTypeInv, PTL DEF Spec

\* Type correctness of the whole service: every table, the stream and every
\* process variable keep their types in every execution.
THEOREM TypeCorrect == Spec => []TypeOK
  <1>1. TypeInv => TypeOK
    BY DEF TypeInv
  <1> QED
    BY <1>1, TypeInvHolds, PTL

-----------------------------------------------------------------------------
(***************************************************************************)
(* Proofs about deliveries: mutual exclusion, the audit trail and what     *)
(* follows from a vendor's 2xx.                                            *)
(***************************************************************************)

(***************************************************************************)
(* The part of the state these properties are about, and the ways a step   *)
(* can change it.                                                          *)
(***************************************************************************)
deliveryVars == <<notifications, attempts, workerPc, task, result, historyVars>>

\* The entry in hand is dropped and no row changes.
Abandon(w) == Drop(w) /\ UNCHANGED <<notifications, attempts, historyVars>>

\* MarkDelivering commits; its caller goes on, or sees an error.
Started(w) ==
    /\ workerPc[w] = "mark"
    /\ MarkDelivering(task[w].id)
    /\ UNCHANGED historyVars
    /\ \/ Goto(w, "deliver") /\ UNCHANGED <<task, result>>
       \/ Drop(w)

\* A result is recorded; its caller goes on, or sees an error.
Recorded(w) ==
    LET n      == task[w].id
        number == task[w].Attempt + 1
    IN  /\ workerPc[w] = "record"
        /\ \/ DeliverySucceeded(w) /\ RecordSuccess(n, number)
           \/ ~DeliverySucceeded(w) /\ RecordFailure(n, number, WillRetry(w))
        /\ UNCHANGED historyVars
        /\ \/ Goto(w, "ack") /\ UNCHANGED <<task, result>>
           \/ Drop(w)

LEMMA StepEffect ==
    ASSUME [Next]_vars
    PROVE  \/ UNCHANGED deliveryVars
           \/ \E n \in Notification : Create(n) \/ Retry(n)
           \/ \E w \in Worker : \/ Abandon(w)
                                \/ LoadForDelivery(w)
                                \/ Started(w)
                                \/ Deliver(w)
                                \/ Recorded(w)
  <1> USE DEF deliveryVars, vars, storeVars, streamVars, relayVars, workerVars, historyVars
  <1>1. CASE UNCHANGED vars
    BY <1>1
  <1>2. CASE \E n \in Notification : Create(n) \/ Retry(n)
    BY <1>2
  <1>3. CASE \E r \in Relay : RelayAction(r) \/ RelayFailure(r)
    <2>1. PICK r \in Relay : RelayAction(r) \/ RelayFailure(r)
      BY <1>3
    <2>2. UNCHANGED <<notifications, attempts, workerVars>>
      BY <2>1 DEF RelayAction, RelayFailure, RelayStep, RelayCrash, ClaimDue, Publish,
                  MarkPublished, MarkFailed
    <2> QED
      BY <2>2
  <1>4. CASE \E w \in Worker : WorkerAction(w) \/ WorkerFailure(w)
    <2>1. PICK w \in Worker : WorkerAction(w) \/ WorkerFailure(w)
      BY <1>4
    <2>2. CASE ClaimPage(w) \/ ReadPage(w) \/ PollError(w) \/ LoadError(w)
      BY <2>2 DEF ClaimPage, ReadPage, PollError, LoadError
    <2>3. CASE Ack(w) \/ WorkerCrash(w)
      BY <2>3 DEF Ack, WorkerCrash, Abandon
    <2>4. CASE StartDelivery(w)
      <3>1. \/ Started(w)
            \/ Abandon(w)
        BY <2>4 DEF StartDelivery, AfterCommit, AfterRollback, Started, Abandon
      <3> QED
        BY <3>1
    <2>5. CASE RecordResult(w)
      <3>1. \/ Recorded(w)
            \/ Abandon(w)
        BY <2>5 DEF RecordResult, AfterCommit, AfterRollback, Recorded, Abandon
      <3> QED
        BY <3>1
    <2> QED
      BY <2>1, <2>2, <2>3, <2>4, <2>5 DEF WorkerAction, WorkerFailure, WorkerStep
  <1>5. CASE \E e \in EventID : EventClock(e)
    BY <1>5 DEF EventClock, EventDue, LockExpires
  <1>6. CASE \E m \in MessageID : MessageClock(m)
    BY <1>6 DEF MessageClock, MessageIdle
  <1>7. CASE RedisFailure
    BY <1>7 DEF RedisFailure
  <1> QED
    BY <1>1, <1>2, <1>3, <1>4, <1>5, <1>6, <1>7 DEF Next

-----------------------------------------------------------------------------
(***************************************************************************)
(* Mutual exclusion and acceptance.  That a 2xx ends a notification is not *)
(* inductive by itself: it needs to know that the one worker that may be   *)
(* recording an accepted notification is recording that very 2xx.          *)
(***************************************************************************)
AcceptedInv ==
    \A n \in accepted :
        /\ notifications[n].status \in {"delivering", "succeeded"}
        /\ \A w \in Worker : InDelivery(w, n) =>
                workerPc[w] = "record" /\ DeliverySucceeded(w)

DeliveryInv == SingleDelivery /\ AcceptedInv

\* The rows after the transactions that change one.
LEMMA CreateRow ==
    ASSUME TypeInv, NEW n \in Notification, Create(n)
    PROVE  /\ notifications[n].status = Absent
           /\ notifications'[n].status = "pending"
           /\ notifications'[n].attempt_count = 0
           /\ notifications'[n].max_attempts \in MaxAttempts
           /\ \A o \in Notification \ {n} : notifications'[o] = notifications[o]
           /\ UNCHANGED <<attempts, workerPc, task, result, historyVars>>
  BY DEF TypeInv, TypeOK, StoreTypeOK, Create, CreateNotification, workerVars

LEMMA RetryRow ==
    ASSUME TypeInv, NEW n \in Notification, Retry(n)
    PROVE  /\ notifications[n].status = "failed"
           /\ notifications'[n].status = "pending"
           /\ notifications'[n].attempt_count = 0
           /\ notifications'[n].max_attempts = notifications[n].max_attempts
           /\ \A o \in Notification \ {n} : notifications'[o] = notifications[o]
           /\ UNCHANGED <<attempts, workerPc, task, result, historyVars>>
  BY MovedRow DEF TypeInv, TypeOK, StoreTypeOK, Retry, RetryFailedNotification, CanRetry,
       NotificationStatus, workerVars

LEMMA StartedRow ==
    ASSUME TypeInv, NEW w \in Worker, Started(w), NEW n, n = task[w].id
    PROVE  /\ n \in Notification
           /\ notifications[n].status \in {"pending", "retrying"}
           /\ notifications'[n].status = "delivering"
           /\ notifications'[n].attempt_count = notifications[n].attempt_count
           /\ notifications'[n].max_attempts = notifications[n].max_attempts
           /\ \A o \in Notification \ {n} : notifications'[o] = notifications[o]
           /\ UNCHANGED attempts
  <1>1. n \in Notification
    BY DEF TypeInv, WorkersHoldTasks, Started
  <1>2. notifications[n] \in NotificationRow
    BY <1>1 DEF TypeInv, TypeOK, StoreTypeOK
  <1>3. notifications[n].attempt_count \in Nat /\ NoEvent \in EventID \cup {NoEvent}
    BY <1>2 DEF NotificationRow
  <1>4. /\ CanStartDelivery(n)
        /\ notifications' = [notifications EXCEPT
                ![n] = Moved(@, "delivering", @.attempt_count, NoEvent)]
        /\ UNCHANGED attempts
    BY DEF Started, MarkDelivering
  <1>5. /\ notifications'[n] =
                Moved(notifications[n], "delivering", notifications[n].attempt_count, NoEvent)
        /\ \A o \in Notification \ {n} : notifications'[o] = notifications[o]
    BY <1>1, <1>4 DEF TypeInv, TypeOK, StoreTypeOK
  <1>6. "delivering" \in NotificationStatus
    BY DEF NotificationStatus
  <1> QED
    BY <1>1, <1>2, <1>3, <1>4, <1>5, <1>6, MovedRow DEF CanStartDelivery

\* Recording moves exactly the in-flight attempt's row and adds one audit row.
LEMMA RecordedRow ==
    ASSUME TypeInv, NEW w \in Worker, Recorded(w), NEW n, n = task[w].id
    PROVE  /\ n \in Notification
           /\ notifications[n].status = "delivering"
           /\ notifications[n].attempt_count = task[w].Attempt
           /\ notifications'[n].attempt_count = task[w].Attempt + 1
           /\ notifications'[n].max_attempts = notifications[n].max_attempts
           /\ notifications'[n].status \in {"succeeded", "failed", "retrying"}
           /\ notifications'[n].status = "succeeded" <=> DeliverySucceeded(w)
           /\ notifications'[n].status = "retrying" => WillRetry(w)
           /\ attempts' = WithAttempt(n, task[w].Attempt + 1, notifications'[n].status)
           /\ \A o \in Notification \ {n} : notifications'[o] = notifications[o]
  <1> DEFINE number == task[w].Attempt + 1
  <1>1. n \in Notification /\ task[w].Attempt \in Nat
    BY DEF TypeInv, TypeOK, WorkersHoldTasks, WorkerTypeOK, Task, Recorded
  <1>2. InFlightAttempt(n, number)
    BY DEF Recorded, RecordSuccess, RecordFailure, RecordRetryableFailure,
           RecordTerminalFailure
  <1>3. notifications[n] \in NotificationRow
    BY <1>1 DEF TypeInv, TypeOK, StoreTypeOK
  <1>4. notifications[n].attempt_count = task[w].Attempt
    BY <1>1, <1>2, <1>3 DEF InFlightAttempt, NotificationRow
  <1>5. \E s \in {"succeeded", "failed", "retrying"}, e \in EventID \cup {NoEvent} :
          /\ notifications' = [notifications EXCEPT ![n] = Moved(@, s, number, e)]
          /\ attempts' = WithAttempt(n, number, s)
          /\ s = "succeeded" <=> DeliverySucceeded(w)
          /\ s = "retrying" => WillRetry(w)
    <2>1. CASE DeliverySucceeded(w) /\ RecordSuccess(n, number)
      BY <2>1 DEF RecordSuccess
    <2>2. CASE ~DeliverySucceeded(w) /\ RecordTerminalFailure(n, number)
      BY <2>2 DEF RecordTerminalFailure
    <2>3. CASE ~DeliverySucceeded(w) /\ WillRetry(w) /\ RecordRetryableFailure(n, number)
      BY <2>3 DEF RecordRetryableFailure
    <2> QED
      BY <2>1, <2>2, <2>3 DEF Recorded, RecordFailure
  <1>6. PICK s \in {"succeeded", "failed", "retrying"}, e \in EventID \cup {NoEvent} :
          /\ notifications' = [notifications EXCEPT ![n] = Moved(@, s, number, e)]
          /\ attempts' = WithAttempt(n, number, s)
          /\ s = "succeeded" <=> DeliverySucceeded(w)
          /\ s = "retrying" => WillRetry(w)
    BY <1>5
  <1>7. /\ notifications'[n] = Moved(notifications[n], s, number, e)
        /\ \A o \in Notification \ {n} : notifications'[o] = notifications[o]
    BY <1>1, <1>6 DEF TypeInv, TypeOK, StoreTypeOK
  <1>8. s \in NotificationStatus /\ number \in Nat
    BY <1>1 DEF NotificationStatus, Terminal
  <1>9. /\ notifications'[n].status = s
        /\ notifications'[n].attempt_count = number
        /\ notifications'[n].max_attempts = notifications[n].max_attempts
    BY <1>3, <1>7, <1>8, MovedRow
  <1> QED
    BY <1>1, <1>2, <1>4, <1>6, <1>7, <1>9 DEF InFlightAttempt

\* A worker that drops its entry is in no delivery; the others stay as they are.
LEMMA DropEffect ==
    ASSUME TypeInv, NEW w \in Worker, Drop(w)
    PROVE  /\ workerPc'[w] = "loop"
           /\ \A v \in Worker \ {w} : /\ workerPc'[v] = workerPc[v]
                                      /\ task'[v] = task[v]
                                      /\ result'[v] = result[v]
  BY DEF TypeInv, TypeOK, WorkerTypeOK, Drop, Goto

\* So is one whose next call is decided by its entry.
LEMMA GotoEffect ==
    ASSUME TypeInv, NEW w \in Worker, NEW pc, Goto(w, pc)
    PROVE  /\ workerPc'[w] = pc
           /\ \A v \in Worker \ {w} : workerPc'[v] = workerPc[v]
  BY DEF TypeInv, TypeOK, WorkerTypeOK, Goto

LEMMA LoadEffect ==
    ASSUME TypeInv, NEW w \in Worker, LoadForDelivery(w)
    PROVE  /\ workerPc'[w] \in {"mark", "ack"}
           /\ \A v \in Worker \ {w} : /\ workerPc'[v] = workerPc[v]
                                      /\ task'[v] = task[v]
           /\ UNCHANGED <<notifications, attempts, result, historyVars>>
           /\ workerPc'[w] = "mark" =>
                \E m \in MessageID :
                    /\ Parses(m)
                    /\ task'[w] = Loaded(m)
                    /\ notifications[stream[m].notification_id].status \notin Terminal
  <1>1. PICK m \in MessageID :
          \/ /\ task' = [task EXCEPT ![w] = [NoTask EXCEPT !.msg = m]]
             /\ Goto(w, "ack")
          \/ /\ Parses(m)
             /\ task' = [task EXCEPT ![w] = Loaded(m)]
             /\ IF notifications[stream[m].notification_id].status \in Terminal
                THEN Goto(w, "ack")
                ELSE Goto(w, "mark")
    BY Zenon DEF LoadForDelivery
  <1>2. UNCHANGED <<notifications, attempts, result, historyVars>>
    BY DEF LoadForDelivery, storeVars
  <1> QED
    BY <1>1, <1>2, GotoEffect DEF TypeInv, TypeOK, WorkerTypeOK

LEMMA InitDeliveryInv == Init => DeliveryInv
  BY DEF Init, WorkerInit, DeliveryInv, SingleDelivery, AcceptedInv, InDelivery

LEMMA NextDeliveryInv ==
    ASSUME TypeInv, DeliveryInv, [Next]_vars
    PROVE  DeliveryInv'
  <1> USE DEF DeliveryInv, SingleDelivery, AcceptedInv, InDelivery
  <1>1. CASE UNCHANGED deliveryVars
    BY <1>1 DEF deliveryVars, historyVars, DeliverySucceeded
  <1>2. ASSUME NEW n \in Notification, Create(n) \/ Retry(n)
        PROVE  DeliveryInv'
    <2>1. /\ notifications[n].status \notin {"delivering", "succeeded"}
          /\ \A o \in Notification \ {n} : notifications'[o] = notifications[o]
          /\ UNCHANGED <<workerPc, task, result, accepted>>
      BY <1>2, CreateRow, RetryRow DEF Absent, historyVars
    <2>2. n \notin accepted /\ \A w \in Worker : ~InDelivery(w, n)
      BY <2>1
    <2> QED
      BY <2>1, <2>2 DEF DeliverySucceeded, TypeInv, TypeOK, WorkerTypeOK
  <1>3. ASSUME NEW w \in Worker, Abandon(w)
        PROVE  DeliveryInv'
    BY <1>3, DropEffect DEF Abandon, historyVars, DeliverySucceeded
  <1>4. ASSUME NEW w \in Worker, LoadForDelivery(w)
        PROVE  DeliveryInv'
    BY <1>4, LoadEffect DEF historyVars, DeliverySucceeded
  <1>5. ASSUME NEW w \in Worker, Started(w)
        PROVE  DeliveryInv'
    <2> DEFINE n == task[w].id
    <2>1. n \notin accepted /\ \A v \in Worker : ~InDelivery(v, n)
      BY <1>5, StartedRow
    <2>2. CASE Drop(w)
      BY <1>5, <2>1, <2>2, StartedRow, DropEffect
         DEF Started, historyVars, DeliverySucceeded, TypeInv, TypeOK, WorkerTypeOK
    <2>3. CASE Goto(w, "deliver") /\ UNCHANGED <<task, result>>
      BY <1>5, <2>1, <2>3, StartedRow, GotoEffect
         DEF Started, historyVars, DeliverySucceeded, TypeInv, TypeOK, WorkerTypeOK
    <2> QED
      BY <1>5, <2>2, <2>3 DEF Started
  <1>6. ASSUME NEW w \in Worker, Deliver(w)
        PROVE  DeliveryInv'
    <2> DEFINE n == task[w].id
    <2>1. /\ n \in Notification /\ n \notin accepted
          /\ notifications[n].status = "delivering"
          /\ \A v \in Worker : InDelivery(v, n) => v = w
      BY <1>6 DEF Deliver, TypeInv, WorkersHoldTasks
    <2>2. PICK res \in AttemptResult :
            /\ result' = [result EXCEPT ![w] = res]
            /\ accepted' = IF ~res.Err /\ Is2xx(res.StatusCode)
                           THEN accepted \cup {n} ELSE accepted
      BY <1>6 DEF Deliver
    <2>3. Goto(w, "record") /\ UNCHANGED <<notifications, task>>
      BY <1>6 DEF Deliver, storeVars
    <2>4. SingleDelivery'
      BY <2>1, <2>3, GotoEffect
    <2>5. \A v \in Worker \ {w} : DeliverySucceeded(v)' = DeliverySucceeded(v)
      BY <2>2 DEF DeliverySucceeded, TypeInv, TypeOK, WorkerTypeOK
    <2>6. n \in accepted' => DeliverySucceeded(w)'
      BY <2>1, <2>2 DEF DeliverySucceeded, TypeInv, TypeOK, WorkerTypeOK
    <2>7. AcceptedInv'
      BY <2>1, <2>2, <2>3, <2>5, <2>6, GotoEffect
    <2> QED
      BY <2>4, <2>7
  <1>7. ASSUME NEW w \in Worker, Recorded(w)
        PROVE  DeliveryInv'
    <2> DEFINE n == task[w].id
    <2>1. /\ n \in Notification
          /\ \A v \in Worker : InDelivery(v, n) => v = w
          /\ n \in accepted => notifications'[n].status = "succeeded"
          /\ \A o \in Notification \ {n} : notifications'[o] = notifications[o]
      BY <1>7, RecordedRow DEF Recorded
    <2>2. /\ workerPc'[w] \in {"loop", "ack"}
          /\ \A v \in Worker \ {w} : /\ workerPc'[v] = workerPc[v]
                                     /\ task'[v] = task[v]
                                     /\ result'[v] = result[v]
      BY <1>7, DropEffect, GotoEffect DEF Recorded
    <2> QED
      BY <1>7, <2>1, <2>2
         DEF Recorded, historyVars, DeliverySucceeded, TypeInv, TypeOK, WorkerTypeOK
  <1> QED
    BY <1>1, <1>2, <1>3, <1>4, <1>5, <1>6, <1>7, StepEffect

LEMMA DeliveryInvHolds == Spec => []DeliveryInv
  BY InitDeliveryInv, NextDeliveryInv, TypeInvHolds, PTL DEF Spec

\* Mutual exclusion of HTTP calls per notification, for any number of
\* workers, any duplication of messages and any failures.
THEOREM SingleDeliveryHolds == Spec => []SingleDelivery
  <1>1. DeliveryInv => SingleDelivery
    BY DEF DeliveryInv
  <1> QED
    BY <1>1, DeliveryInvHolds, PTL

\* A notification a vendor has accepted is never sent again.
THEOREM AcceptedNeverResentHolds == Spec => []AcceptedNeverResent
  <1>1. TypeInv /\ DeliveryInv => AcceptedNeverResent
    BY DEF DeliveryInv, AcceptedInv, AcceptedNeverResent, InDelivery
  <1> QED
    BY <1>1, DeliveryInvHolds, TypeInvHolds, PTL

-----------------------------------------------------------------------------
(***************************************************************************)
(* The audit trail.  CallsAudited needs the count of every stage of a      *)
(* delivery: as many calls as rows before the request, one more after it.  *)
(***************************************************************************)
CallStages ==
    \A w \in Worker :
        /\ workerPc[w] = "deliver" => calls[task[w].id] = Len(attempts[task[w].id])
        /\ workerPc[w] = "record" => calls[task[w].id] = Len(attempts[task[w].id]) + 1

CallsInv == CallsAudited /\ CallStages

\* What an appended audit row does to a notification's trail.
LEMMA AppendedTrail ==
    ASSUME TypeInv, NEW n \in Notification, NEW number \in Nat,
           NEW s \in {"succeeded", "retrying", "failed"},
           attempts' = WithAttempt(n, number, s)
    PROVE  /\ Len(attempts'[n]) = Len(attempts[n]) + 1
           /\ \A i \in 1..Len(attempts[n]) : attempts'[n][i] = attempts[n][i]
           /\ attempts'[n][Len(attempts[n]) + 1].attempt_number = number
           /\ attempts'[n][Len(attempts[n]) + 1].status = s
           /\ \A o \in Notification \ {n} : attempts'[o] = attempts[o]
  <1> DEFINE row == [attempt_number |-> number, status |-> s]
  <1>1. attempts[n] \in Seq(AttemptRow) /\ row \in AttemptRow
    BY DEF TypeInv, TypeOK, StoreTypeOK, AttemptRow
  <1>2. attempts'[n] = Append(attempts[n], row)
    BY DEF TypeInv, TypeOK, StoreTypeOK, WithAttempt
  <1>3. \A o \in Notification \ {n} : attempts'[o] = attempts[o]
    BY DEF TypeInv, TypeOK, StoreTypeOK, WithAttempt
  <1> QED
    BY <1>1, <1>2, <1>3

LEMMA InitCallsInv == Init => CallsInv
  <1> SUFFICES ASSUME Init PROVE CallsInv
    OBVIOUS
  <1>0. Len(<<>>) = 0
    OBVIOUS
  <1>1. \A n \in Notification : calls[n] = 0 /\ Len(attempts[n]) = 0
    BY <1>0 DEF Init, StoreInit, WorkerInit
  <1>2. CallsAudited
    BY <1>1 DEF CallsAudited
  <1>3. CallStages
    BY DEF Init, WorkerInit, CallStages
  <1> QED
    BY <1>2, <1>3 DEF CallsInv

LEMMA NextCallsInv ==
    ASSUME TypeInv, DeliveryInv, CallsInv, [Next]_vars
    PROVE  CallsInv'
  <1> USE DEF CallsInv, CallsAudited, CallStages
  <1>t. /\ \A n \in Notification : Len(attempts[n]) \in Nat /\ calls[n] \in Nat
        /\ \A w \in Worker : workerPc[w] \in {"deliver", "record"} => task[w].id \in Notification
    BY DEF TypeInv, TypeOK, StoreTypeOK, WorkerTypeOK, WorkersHoldTasks
  <1>1. CASE UNCHANGED deliveryVars
    BY <1>1 DEF deliveryVars, historyVars
  <1>2. ASSUME NEW n \in Notification, Create(n) \/ Retry(n)
        PROVE  CallsInv'
    <2>1. /\ notifications[n].status # "delivering"
          /\ \A o \in Notification \ {n} : notifications'[o] = notifications[o]
          /\ UNCHANGED <<attempts, workerPc, task, calls>>
      BY <1>2, CreateRow, RetryRow DEF Absent, historyVars
    <2> QED
      BY <2>1
  <1>3. ASSUME NEW w \in Worker, Abandon(w)
        PROVE  CallsInv'
    BY <1>3, DropEffect DEF Abandon, historyVars
  <1>4. ASSUME NEW w \in Worker, LoadForDelivery(w)
        PROVE  CallsInv'
    BY <1>4, LoadEffect DEF historyVars
  <1>5. ASSUME NEW w \in Worker, Started(w)
        PROVE  CallsInv'
    <2> DEFINE n == task[w].id
    <2>1. /\ n \in Notification /\ calls[n] = Len(attempts[n])
          /\ \A o \in Notification \ {n} : notifications'[o] = notifications[o]
          /\ UNCHANGED <<attempts, calls>>
      BY <1>5, StartedRow DEF Started, historyVars
    <2>2. CASE Drop(w)
      BY <2>1, <2>2, DropEffect
    <2>3. CASE Goto(w, "deliver") /\ UNCHANGED <<task, result>>
      BY <2>1, <2>3, GotoEffect
    <2> QED
      BY <1>5, <2>2, <2>3 DEF Started
  <1>6. ASSUME NEW w \in Worker, Deliver(w)
        PROVE  CallsInv'
    <2> DEFINE n == task[w].id
    <2>1. /\ workerPc[w] = "deliver"
          /\ Goto(w, "record") /\ UNCHANGED <<notifications, attempts, task>>
          /\ calls' = [calls EXCEPT ![n] = @ + 1]
      BY <1>6 DEF Deliver, storeVars
    <2>2. /\ n \in Notification
          /\ notifications[n].status = "delivering"
          /\ \A v \in Worker : InDelivery(v, n) => v = w
      BY <2>1, <1>t DEF DeliveryInv, SingleDelivery, InDelivery
    <2>3. calls'[n] = Len(attempts'[n]) + 1 /\ \A o \in Notification \ {n} : calls'[o] = calls[o]
      BY <2>1, <2>2 DEF TypeInv, TypeOK, WorkerTypeOK
    <2>4. CallsAudited'
      BY <2>1, <2>2, <2>3
    <2>5. CallStages'
      BY <1>t, <2>1, <2>2, <2>3, GotoEffect DEF InDelivery
    <2> QED
      BY <2>4, <2>5
  <1>7. ASSUME NEW w \in Worker, Recorded(w)
        PROVE  CallsInv'
    <2> DEFINE n == task[w].id
    <2>1. /\ n \in Notification
          /\ \A v \in Worker : InDelivery(v, n) => v = w
          /\ \A o \in Notification \ {n} : notifications'[o] = notifications[o]
          /\ notifications'[n].status \in {"succeeded", "failed", "retrying"}
          /\ attempts' = WithAttempt(n, task[w].Attempt + 1, notifications'[n].status)
          /\ calls[n] = Len(attempts[n]) + 1
      BY <1>7, RecordedRow DEF Recorded, DeliveryInv, SingleDelivery, InDelivery
    <2>2. task[w].Attempt + 1 \in Nat
      BY DEF TypeInv, TypeOK, WorkerTypeOK, Task
    <2>3. /\ Len(attempts'[n]) = Len(attempts[n]) + 1
          /\ \A o \in Notification \ {n} : attempts'[o] = attempts[o]
      BY <2>1, <2>2, AppendedTrail
    <2>4. /\ workerPc'[w] \in {"loop", "ack"}
          /\ \A v \in Worker \ {w} : /\ workerPc'[v] = workerPc[v]
                                     /\ task'[v] = task[v]
          /\ UNCHANGED calls
      BY <1>7, DropEffect, GotoEffect DEF Recorded, historyVars
    <2>5. CallsAudited'
      BY <2>1, <2>3, <2>4
    <2>6. CallStages'
      <3> SUFFICES ASSUME NEW v \in Worker, workerPc'[v] \in {"deliver", "record"}
                   PROVE  /\ workerPc'[v] = "deliver" =>
                                calls'[task'[v].id] = Len(attempts'[task'[v].id])
                          /\ workerPc'[v] = "record" =>
                                calls'[task'[v].id] = Len(attempts'[task'[v].id]) + 1
        OBVIOUS
      <3>1. v # w /\ workerPc'[v] = workerPc[v] /\ task'[v] = task[v]
        BY <2>4
      <3>2. task[v].id \in Notification \ {n}
        BY <1>t, <2>1, <3>1 DEF InDelivery
      <3> QED
        BY <2>3, <2>4, <3>1, <3>2
    <2> QED
      BY <2>5, <2>6
  <1> QED
    BY <1>1, <1>2, <1>3, <1>4, <1>5, <1>6, <1>7, StepEffect

LEMMA CallsInvHolds == Spec => []CallsInv
  BY InitCallsInv, NextCallsInv, TypeInvHolds, DeliveryInvHolds, PTL DEF Spec

\* The audit trail misses at most one HTTP call of a notification, and only
\* while its row is in status "delivering".
THEOREM CallsAuditedHolds == Spec => []CallsAudited
  <1>1. CallsInv => CallsAudited
    BY DEF CallsInv
  <1> QED
    BY <1>1, CallsInvHolds, PTL

LEMMA InitAuditTrail == Init => AuditTrail
  <1> SUFFICES ASSUME Init, NEW n \in Notification PROVE TrailMatches(n)
    BY DEF AuditTrail
  <1>1. Len(<<>>) = 0
    OBVIOUS
  <1>2. notifications[n].attempt_count = 0 /\ Len(attempts[n]) = 0
    BY <1>1 DEF Init, StoreInit
  <1> QED
    BY <1>2 DEF TrailMatches

\* A row whose counter is 0 asks nothing of the trail.
LEMMA FreshTrail ==
    ASSUME TypeInv, NEW n \in Notification, UNCHANGED attempts,
           notifications'[n].attempt_count = 0
    PROVE  TrailMatches(n)'
  <1>1. Len(attempts'[n]) \in Nat
    BY DEF TypeInv, TypeOK, StoreTypeOK
  <1> QED
    BY <1>1 DEF TrailMatches

LEMMA NextAuditTrail ==
    ASSUME TypeInv, AuditTrail, [Next]_vars
    PROVE  AuditTrail'
  <1> SUFFICES ASSUME NEW n \in Notification PROVE TrailMatches(n)'
    BY DEF AuditTrail
  <1>0. TrailMatches(n)
    BY DEF AuditTrail
  <1>s. ASSUME notifications'[n] = notifications[n], attempts'[n] = attempts[n]
        PROVE  TrailMatches(n)'
    BY <1>0, <1>s DEF TrailMatches
  <1>1. CASE UNCHANGED <<notifications, attempts>>
    BY <1>1, <1>s
  <1>2. ASSUME NEW o \in Notification, Create(o) \/ Retry(o)
        PROVE  TrailMatches(n)'
    <2>1. CASE n # o
      BY <1>2, <1>s, <2>1, CreateRow, RetryRow
    <2>2. CASE n = o
      <3>1. notifications'[n].attempt_count = 0 /\ UNCHANGED attempts
        BY <1>2, <2>2, RetryRow, CreateRow
      <3> QED
        BY <3>1, FreshTrail
    <2> QED
      BY <2>1, <2>2
  <1>3. ASSUME NEW w \in Worker, Started(w)
        PROVE  TrailMatches(n)'
    <2>1. CASE n # task[w].id
      BY <1>3, <1>s, <2>1, StartedRow
    <2>2. CASE n = task[w].id
      <3>1. /\ notifications[n].status \notin Terminal
            /\ notifications'[n].status \notin Terminal
            /\ notifications'[n].attempt_count = notifications[n].attempt_count
            /\ UNCHANGED attempts
        BY <1>3, <2>2, StartedRow DEF Terminal
      <3> QED
        BY <1>0, <3>1 DEF TrailMatches
    <2> QED
      BY <2>1, <2>2
  <1>4. ASSUME NEW w \in Worker, Recorded(w)
        PROVE  TrailMatches(n)'
    <2> DEFINE count == notifications[n].attempt_count
               len   == Len(attempts[n])
               s     == notifications'[n].status
    <2>0. task[w].Attempt + 1 \in Nat /\ task[w].id \in Notification
      BY <1>4, RecordedRow DEF TypeInv, TypeOK, WorkerTypeOK, Task
    <2>1. CASE n # task[w].id
      BY <1>4, <1>s, <2>0, <2>1, RecordedRow, AppendedTrail
    <2>2. CASE n = task[w].id
      <3>1. /\ notifications[n].status = "delivering"
            /\ notifications'[n].attempt_count = count + 1
            /\ s \in {"succeeded", "failed", "retrying"}
            /\ attempts' = WithAttempt(n, count + 1, s)
            /\ count \in Nat /\ len \in Nat
        BY <1>4, <2>0, <2>2, RecordedRow
           DEF TypeInv, TypeOK, StoreTypeOK, WorkerTypeOK, Task
      <3>2. /\ Len(attempts'[n]) = len + 1
            /\ \A i \in 1..len : attempts'[n][i] = attempts[n][i]
            /\ attempts'[n][len + 1].attempt_number = count + 1
            /\ attempts'[n][len + 1].status = s
        <4>1. count + 1 \in Nat
          BY <3>1
        <4> QED
          BY <3>1, <4>1, AppendedTrail
      <3>3. /\ count <= len
            /\ \A i \in 1..count : attempts[n][len - count + i].attempt_number = i
            /\ \A i \in 1..count : attempts[n][len - count + i].status = "retrying"
        <4>1. /\ len - count >= 0
              /\ \A i \in 1..count : attempts[n][len - count + i].attempt_number = i
              /\ \A i \in 1..(count - 1) : attempts[n][len - count + i].status = "retrying"
              /\ count > 0 => attempts[n][len].status = "retrying"
          BY <1>0, <3>1 DEF TrailMatches, Terminal
        <4>2. count > 0 => len - count + count = len
          BY <3>1
        <4>3. ASSUME NEW i \in 1..count
              PROVE  attempts[n][len - count + i].status = "retrying"
          <5>1. CASE i = count
            BY <3>1, <4>1, <4>2, <5>1
          <5>2. CASE i \in 1..(count - 1)
            BY <4>1, <5>2
          <5> QED
            BY <3>1, <5>1, <5>2
        <4> QED
          BY <3>1, <4>1, <4>3
      <3>4. \A i \in 1..count : /\ len - count + i \in 1..len
                                /\ (len + 1) - (count + 1) + i = len - count + i
        <4>1. count \in Nat /\ len \in Nat /\ count <= len
          BY <3>1, <3>3
        <4> HIDE DEF count, len
        <4> QED
          BY <4>1
      <3>5. \A i \in 1..count :
              /\ attempts'[n][(len + 1) - (count + 1) + i].attempt_number = i
              /\ attempts'[n][(len + 1) - (count + 1) + i].status = "retrying"
        BY <3>2, <3>3, <3>4
      <3>6. (len + 1) - (count + 1) + (count + 1) = len + 1
        BY <3>1
      <3>7. \A i \in 1..(count + 1) :
              attempts'[n][(len + 1) - (count + 1) + i].attempt_number = i
        <4> TAKE i \in 1..(count + 1)
        <4>1. CASE i = count + 1
          BY <3>2, <3>6, <4>1
        <4>2. CASE i \in 1..count
          BY <3>5, <4>2
        <4> QED
          BY <3>1, <4>1, <4>2
      <3>8. s = IF s \in Terminal THEN s ELSE "retrying"
        BY <3>1 DEF Terminal
      <3>9. /\ (len + 1) - (count + 1) >= 0
            /\ (count + 1) - 1 = count
        BY <3>1, <3>3
      <3> QED
        BY ZenonT(60), <3>1, <3>2, <3>5, <3>7, <3>8, <3>9 DEF TrailMatches
    <2> QED
      BY <2>1, <2>2
  <1> QED
    BY <1>1, <1>2, <1>3, <1>4, StepEffect, LoadEffect
       DEF deliveryVars, Abandon, Deliver, storeVars

\* The audit trail of every notification ends with its current attempts, in
\* order and without gap, and agrees with the row.
THEOREM AuditTrailHolds == Spec => []AuditTrail
  BY InitAuditTrail, NextAuditTrail, TypeInvHolds, PTL DEF Spec

-----------------------------------------------------------------------------
(***************************************************************************)
(* Proofs about the outbox: every notification has a latest event, and no  *)
(* outcome is overwritten without a new one.                               *)
(***************************************************************************)

(***************************************************************************)
(* The ways a step can change the outbox: it inserts one event, or it      *)
(* inserts none and leaves every event with its notification.              *)
(***************************************************************************)
SameEvents ==
    \A e \in EventID :
        /\ outbox'[e].notification_id = outbox[e].notification_id
        /\ outbox'[e].status = Absent <=> outbox[e].status = Absent

InsertsEvent(e, n) ==
    /\ NextEvent(e)
    /\ outbox'[e].notification_id = n
    /\ outbox'[e].status = "pending"
    /\ \A f \in EventID \ {e} : outbox'[f] = outbox[f]

\* Inserting is what WithEvent does.
LEMMA WithEventInserts ==
    ASSUME TypeInv, NEW e \in EventID, NEW n \in Notification, NEW due \in BOOLEAN,
           NextEvent(e), outbox' = WithEvent(e, n, due)
    PROVE  InsertsEvent(e, n)
  BY DEF TypeInv, TypeOK, StoreTypeOK, InsertsEvent, WithEvent

\* Recording either inserts the event of the next attempt or ends the
\* notification and leaves the outbox alone.
LEMMA RecordedOutbox ==
    ASSUME TypeInv, NEW w \in Worker, Recorded(w), NEW n, n = task[w].id
    PROVE  \/ /\ UNCHANGED outbox
              /\ notifications'[n].status \in Terminal
           \/ \E e \in EventID : InsertsEvent(e, n)
  <1> DEFINE number == task[w].Attempt + 1
  <1>0. n \in Notification
    BY RecordedRow
  <1>1. CASE RecordSuccess(n, number) \/ RecordTerminalFailure(n, number)
    <2>1. \E s \in Terminal :
            notifications' = [notifications EXCEPT ![n] = Moved(@, s, number, NoEvent)]
      BY <1>1 DEF RecordSuccess, RecordTerminalFailure, Terminal
    <2>2. PICK s \in Terminal :
            notifications' = [notifications EXCEPT ![n] = Moved(@, s, number, NoEvent)]
      BY <2>1
    <2>3. notifications[n] \in NotificationRow /\ number \in Nat /\ s \in NotificationStatus
      BY <1>0 DEF TypeInv, TypeOK, StoreTypeOK, WorkerTypeOK, Task, NotificationStatus
    <2>4. notifications'[n] = Moved(notifications[n], s, number, NoEvent)
      BY <1>0, <2>2 DEF TypeInv, TypeOK, StoreTypeOK
    <2>5. notifications'[n].status = s
      BY <2>3, <2>4, MovedRow
    <2> QED
      BY <1>1, <2>5 DEF RecordSuccess, RecordTerminalFailure
  <1>2. CASE RecordRetryableFailure(n, number)
    <2>1. PICK e \in EventID : NextEvent(e) /\ outbox' = WithEvent(e, n, FALSE)
      BY <1>2 DEF RecordRetryableFailure
    <2> QED
      BY <1>0, <2>1, WithEventInserts
  <1> QED
    BY <1>1, <1>2 DEF Recorded, RecordFailure

LEMMA ApiInserts ==
    ASSUME TypeInv, NEW n \in Notification, Create(n) \/ Retry(n)
    PROVE  \E e \in EventID : InsertsEvent(e, n)
  <1>1. PICK e \in EventID : NextEvent(e) /\ outbox' = WithEvent(e, n, TRUE)
    BY DEF Create, CreateNotification, Retry, RetryFailedNotification
  <1> QED
    BY <1>1, WithEventInserts

\* Time only moves an event's two clocks.
LEMMA ClockKeepsEvents ==
    ASSUME TypeInv, NEW e \in EventID, EventClock(e)
    PROVE  SameEvents /\ \A f \in EventID : outbox'[f].status = outbox[f].status
  <1>1. \/ outbox' = [outbox EXCEPT ![e].due = TRUE]
        \/ outbox' = [outbox EXCEPT ![e].lock_expired = TRUE]
    BY DEF EventClock, EventDue, LockExpires
  <1>2. \A f \in EventID : /\ outbox'[f].status = outbox[f].status
                           /\ outbox'[f].notification_id = outbox[f].notification_id
    <2>1. outbox \in [EventID -> OutboxRow]
      BY DEF TypeInv, TypeOK, StoreTypeOK
    <2>2. CASE outbox' = [outbox EXCEPT ![e].due = TRUE]
      BY <2>1, <2>2 DEF OutboxRow
    <2>3. CASE outbox' = [outbox EXCEPT ![e].lock_expired = TRUE]
      BY <2>1, <2>3 DEF OutboxRow
    <2> QED
      BY <1>1, <2>2, <2>3
  <1> QED
    BY <1>2 DEF SameEvents

\* The other steps insert nothing.
LEMMA OutboxEffect ==
    ASSUME TypeInv, [Next]_vars
    PROVE  \/ SameEvents
           \/ \E n \in Notification : Create(n) \/ Retry(n)
           \/ \E w \in Worker : Recorded(w)
  <1> USE DEF vars, storeVars, streamVars, relayVars, workerVars
  <1>0. UNCHANGED outbox => SameEvents
    BY DEF SameEvents
  <1>1. CASE UNCHANGED vars
    BY <1>0, <1>1
  <1>2. CASE \E n \in Notification : Create(n) \/ Retry(n)
    BY <1>2
  <1>3. ASSUME NEW r \in Relay, RelayAction(r) \/ RelayFailure(r)
        PROVE  SameEvents
    <2>1. CASE ClaimDue(r)
      <3>1. PICK page \in ClaimPages \ {{}} :
              outbox' = [e \in EventID |->
                IF e \in page THEN Relocked(outbox[e], "publishing", Locker[r])
                             ELSE outbox[e]]
        BY <2>1 DEF ClaimDue
      <3>2. page \subseteq EventID /\ \A e \in page : outbox[e].status # Absent
        BY DEF ClaimPages, Claimable, Absent
      <3> QED
        BY <3>1, <3>2, RelockedRow, RelayAssumption
           DEF SameEvents, TypeInv, TypeOK, StoreTypeOK, Absent
    <2>2. CASE MarkPublished(r) \/ MarkFailed(r)
      <3>1. relayEvent[r] \in EventID
        BY <2>2 DEF MarkPublished, MarkFailed, TypeInv, RelaysHoldEvents
      <3>2. PICK status \in {"pending", "published"} :
              \/ OwnsClaim(r, relayEvent[r]) /\ outbox' = Released(relayEvent[r], status)
              \/ UNCHANGED outbox
        BY <2>2 DEF MarkPublished, MarkFailed, FinishClaim
      <3> QED
        BY <1>0, <3>1, <3>2, RelockedRow
           DEF SameEvents, TypeInv, TypeOK, StoreTypeOK, OwnsClaim, Released, Absent
    <2>3. CASE Publish(r) \/ RelayCrash(r)
      BY <1>0, <2>3 DEF Publish, RelayCrash
    <2> QED
      BY <1>3, <2>1, <2>2, <2>3 DEF RelayAction, RelayFailure, RelayStep
  <1>4. ASSUME NEW w \in Worker, WorkerAction(w) \/ WorkerFailure(w)
        PROVE  SameEvents \/ Recorded(w)
    <2>1. CASE StartDelivery(w)
      BY <1>0, <2>1 DEF StartDelivery, MarkDelivering, AfterRollback
    <2>2. CASE RecordResult(w)
      BY <1>0, <2>2 DEF RecordResult, AfterCommit, AfterRollback, Recorded
    <2>3. CASE ~(StartDelivery(w) \/ RecordResult(w))
      BY <1>0, <1>4, <2>3
         DEF WorkerAction, WorkerStep, WorkerFailure, ClaimPage, ReadPage, LoadForDelivery,
             Deliver, Ack, PollError, LoadError, WorkerCrash
    <2> QED
      BY <2>1, <2>2, <2>3
  <1>5. ASSUME NEW e \in EventID, EventClock(e)
        PROVE  SameEvents
    BY <1>5, ClockKeepsEvents
  <1>6. CASE \E m \in MessageID : MessageClock(m)
    BY <1>0, <1>6 DEF MessageClock, MessageIdle
  <1>7. CASE RedisFailure
    BY <1>0, <1>7 DEF RedisFailure
  <1> QED
    BY <1>1, <1>2, <1>3, <1>4, <1>5, <1>6, <1>7 DEF Next

-----------------------------------------------------------------------------
(***************************************************************************)
(* Events are inserted in order, belong to existing notifications, and     *)
(* every existing notification has a latest one.                           *)
(***************************************************************************)
EventOrder ==
    \A e, f \in EventID :
        e < f /\ outbox[f].status # Absent => outbox[e].status # Absent

AbsentEvents ==
    \A e \in EventID : outbox[e].status = Absent => outbox[e].notification_id = "none"

EventOwners ==
    \A e \in EventID :
        outbox[e].status # Absent => notifications[outbox[e].notification_id].status # Absent

HasLatest ==
    \A n \in Notification :
        notifications[n].status # Absent => \E e \in EventID : LatestEvent(n, e)

EventInv == EventOrder /\ AbsentEvents /\ EventOwners /\ HasLatest

\* A row that exists never ceases to.
LEMMA RowsStay ==
    ASSUME TypeInv, [Next]_vars, NEW n \in Notification, notifications[n].status # Absent
    PROVE  notifications'[n].status # Absent
  BY StepEffect, CreateRow, RetryRow, StartedRow, RecordedRow, LoadEffect
     DEF deliveryVars, Abandon, Deliver, storeVars, Absent

\* An inserted event is the latest of its notification.
LEMMA InsertedIsLatest ==
    ASSUME TypeInv, EventInv, NEW e \in EventID, NEW n \in Notification, InsertsEvent(e, n)
    PROVE  /\ LatestEvent(n, e)'
           /\ ~LatestEvent(n, e)
           /\ EventOrder' /\ AbsentEvents'
           /\ \A f \in EventID : outbox[f].status # Absent => f < e
           /\ \A o \in Notification \ {n}, f \in EventID :
                    LatestEvent(o, f) => LatestEvent(o, f)'
  <1> USE DEF EventInv, InsertsEvent, NextEvent
  <1>1. outbox[e].notification_id = "none" /\ "none" \notin Notification
    BY StoreAssumption DEF AbsentEvents
  <1>2. \A f \in EventID : outbox[f].status # Absent => f < e
    <2> TAKE f \in EventID
    <2>1. e \in Int /\ f \in Int
      BY DEF EventID
    <2>2. (f # e /\ ~(e < f)) \/ outbox[f].status = Absent
      BY <2>1 DEF EventOrder
    <2> QED
      BY <2>1, <2>2
  <1>3. \A f \in EventID : outbox[f].notification_id \in Notification => f < e
    BY <1>1, <1>2 DEF AbsentEvents
  <1>4. LatestEvent(n, e)'
    <2>1. \A f \in EventID : f # e => outbox'[f] = outbox[f]
      OBVIOUS
    <2>2. \A f \in EventID : outbox'[f].notification_id = n => f <= e
      BY <1>3, <2>1 DEF EventID
    <2> QED
      BY <2>2 DEF LatestEvent
  <1>5. ~LatestEvent(n, e)
    BY <1>1 DEF LatestEvent
  <1>6. EventOrder'
    <2> SUFFICES ASSUME NEW g \in EventID, NEW f \in EventID, g < f,
                        outbox'[f].status # Absent
                 PROVE  outbox'[g].status # Absent
      BY DEF EventOrder
    <2>1. CASE g = e
      BY <2>1 DEF Absent
    <2>2. CASE g # e /\ f # e
      BY <2>2 DEF EventOrder
    <2>3. CASE g # e /\ f = e
      <3>1. g \in 1..(e - 1)
        BY <2>3 DEF EventID
      <3> QED
        BY <2>3, <3>1
    <2> QED
      BY <2>1, <2>2, <2>3
  <1>7. AbsentEvents'
    BY DEF AbsentEvents, Absent
  <1>8. \A o \in Notification \ {n}, f \in EventID : LatestEvent(o, f) => LatestEvent(o, f)'
    BY <1>1 DEF LatestEvent
  <1> QED
    BY <1>2, <1>4, <1>5, <1>6, <1>7, <1>8

LEMMA SameLatest ==
    ASSUME SameEvents, NEW n \in Notification, NEW e \in EventID
    PROVE  LatestEvent(n, e)' <=> LatestEvent(n, e)
  BY DEF SameEvents, LatestEvent

LEMMA InitEventInv == Init => EventInv
  BY DEF Init, StoreInit, EventInv, EventOrder, AbsentEvents, EventOwners, HasLatest

LEMMA NextEventInv ==
    ASSUME TypeInv, EventInv, [Next]_vars
    PROVE  EventInv'
  <1>1. CASE SameEvents
    <2>1. EventOrder' /\ AbsentEvents'
      BY <1>1 DEF SameEvents, EventInv, EventOrder, AbsentEvents
    <2>2. EventOwners'
      BY <1>1, RowsStay DEF SameEvents, EventInv, EventOwners, TypeInv, EventsHaveRows
    <2>3. CASE \A n \in Notification :
                 notifications'[n].status # Absent => notifications[n].status # Absent
      BY <1>1, <2>1, <2>2, <2>3, SameLatest DEF EventInv, HasLatest
    <2>4. CASE \E n \in Notification : Create(n)
      <3>1. PICK n \in Notification : Create(n)
        BY <2>4
      <3>2. PICK e \in EventID : InsertsEvent(e, n)
        BY <3>1, ApiInserts
      <3>3. FALSE
        BY <1>1, <3>2 DEF SameEvents, InsertsEvent, NextEvent, Absent
      <3> QED
        BY <3>3
    <2>5. \/ \E n \in Notification : Create(n)
          \/ \A n \in Notification :
                 notifications'[n].status # Absent => notifications[n].status # Absent
      BY StepEffect, RetryRow, StartedRow, RecordedRow, LoadEffect
         DEF deliveryVars, Abandon, Deliver, storeVars, Absent
    <2> QED
      BY <2>3, <2>4, <2>5
  <1>2. ASSUME NEW n \in Notification, NEW e \in EventID, InsertsEvent(e, n),
               notifications'[n].status # Absent,
               \A o \in Notification \ {n} : notifications'[o] = notifications[o]
        PROVE  EventInv'
    <2>1. EventOrder' /\ AbsentEvents'
      BY <1>2, InsertedIsLatest
    <2>2. EventOwners'
      <3> SUFFICES ASSUME NEW f \in EventID, outbox'[f].status # Absent
                   PROVE  notifications'[outbox'[f].notification_id].status # Absent
        BY DEF EventOwners
      <3>1. CASE f = e
        BY <1>2, <3>1 DEF InsertsEvent
      <3>2. CASE f # e
        <4>1. /\ outbox'[f] = outbox[f]
              /\ outbox[f].notification_id \in Notification
              /\ notifications[outbox[f].notification_id].status # Absent
          BY <1>2, <3>2 DEF InsertsEvent, EventInv, EventOwners, TypeInv, EventsHaveRows
        <4> QED
          BY <1>2, <4>1
      <3> QED
        BY <3>1, <3>2
    <2>3. HasLatest'
      BY <1>2, InsertedIsLatest DEF EventInv, HasLatest
    <2> QED
      BY <2>1, <2>2, <2>3 DEF EventInv
  <1>3. ASSUME NEW n \in Notification, Create(n) \/ Retry(n)
        PROVE  EventInv'
    BY <1>2, <1>3, ApiInserts, CreateRow, RetryRow DEF Absent
  <1>4. ASSUME NEW w \in Worker, Recorded(w)
        PROVE  EventInv'
    <2>1. CASE UNCHANGED outbox
      BY <1>1, <2>1 DEF SameEvents
    <2>2. CASE \E e \in EventID : InsertsEvent(e, task[w].id)
      BY <1>2, <1>4, <2>2, RecordedRow DEF Absent
    <2> QED
      BY <1>4, <2>1, <2>2, RecordedOutbox
  <1> QED
    BY <1>1, <1>3, <1>4, OutboxEffect

LEMMA EventInvHolds == Spec => []EventInv
  BY InitEventInv, NextEventInv, TypeInvHolds, PTL DEF Spec

-----------------------------------------------------------------------------
(***************************************************************************)
(* Outcomes                                                                *)
(***************************************************************************)
LEMMA NextKeepsOutcome ==
    ASSUME TypeInv, EventInv, [Next]_vars, NEW n \in Notification
    PROVE  KeepsOutcome(n)
  <1>0. Len(attempts[n]) \in Nat
    BY DEF TypeInv, TypeOK, StoreTypeOK
  <1>1. ASSUME notifications'[n] = notifications[n], attempts'[n] = attempts[n]
        PROVE  KeepsOutcome(n)
    BY <1>0, <1>1 DEF KeepsOutcome
  <1>2. CASE UNCHANGED <<notifications, attempts>>
    BY <1>1, <1>2
  <1>3. ASSUME NEW o \in Notification, Create(o) \/ Retry(o)
        PROVE  KeepsOutcome(n)
    <2>1. UNCHANGED attempts /\ \A p \in Notification \ {o} : notifications'[p] = notifications[p]
      BY <1>3, CreateRow, RetryRow
    <2>2. CASE n # o
      BY <1>1, <2>1, <2>2
    <2>3. CASE n = o
      <3>1. PICK e \in EventID : InsertsEvent(e, n)
        BY <1>3, <2>3, ApiInserts
      <3>2. LatestEvent(n, e)' /\ ~LatestEvent(n, e)
        BY <3>1, InsertedIsLatest
      <3>3. notifications[n].status \in Terminal =>
              notifications[n].status = "failed" /\ notifications'[n].status = "pending"
        BY <1>3, <2>3, CreateRow, RetryRow DEF Absent, Terminal
      <3> QED
        BY <1>0, <2>1, <3>2, <3>3 DEF KeepsOutcome
    <2> QED
      BY <2>2, <2>3
  <1>4. ASSUME NEW w \in Worker, Started(w)
        PROVE  KeepsOutcome(n)
    <2>1. /\ UNCHANGED attempts
          /\ \/ notifications'[n] = notifications[n]
             \/ notifications[n].status \notin Terminal
      BY <1>4, StartedRow DEF Terminal
    <2> QED
      BY <1>0, <2>1 DEF KeepsOutcome
  <1>5. ASSUME NEW w \in Worker, Recorded(w)
        PROVE  KeepsOutcome(n)
    <2> DEFINE o == task[w].id
    <2>1. /\ o \in Notification
          /\ notifications[o].status \notin Terminal
          /\ attempts' = WithAttempt(o, task[w].Attempt + 1, notifications'[o].status)
          /\ notifications'[o].status \in {"succeeded", "retrying", "failed"}
          /\ \A p \in Notification \ {o} : notifications'[p] = notifications[p]
      BY <1>5, RecordedRow DEF Terminal
    <2>2. task[w].Attempt + 1 \in Nat
      BY DEF TypeInv, TypeOK, WorkerTypeOK, Task
    <2>3. CASE n # o
      <3>1. \E s : attempts' = WithAttempt(o, task[w].Attempt + 1, s)
        BY <2>1
      <3>2. attempts'[n] = attempts[n]
        BY <2>3, <3>1 DEF WithAttempt, TypeInv, TypeOK, StoreTypeOK
      <3> QED
        BY <1>1, <2>1, <2>3, <3>2
    <2>4. CASE n = o
      <3>1. PICK s \in {"succeeded", "retrying", "failed"} :
              attempts' = WithAttempt(n, task[w].Attempt + 1, s)
        BY <2>1, <2>4
      <3>2. PICK number \in Nat : attempts' = WithAttempt(n, number, s)
        BY <2>2, <3>1
      <3>3. /\ Len(attempts'[n]) = Len(attempts[n]) + 1
            /\ \A i \in 1..Len(attempts[n]) : attempts'[n][i] = attempts[n][i]
        BY <3>2, AppendedTrail
      <3>4. Len(attempts[n]) <= Len(attempts'[n])
        BY <1>0, <3>3
      <3>5. notifications[n].status \notin Terminal
        BY <2>1, <2>4
      <3> QED
        BY <3>3, <3>4, <3>5 DEF KeepsOutcome
    <2> QED
      BY <2>3, <2>4
  <1> QED
    BY <1>2, <1>3, <1>4, <1>5, StepEffect, LoadEffect
       DEF deliveryVars, Abandon, Deliver, storeVars

\* A finished outcome is only replaced by a manual retry of a failure, with
\* its own event, and no audit row is ever changed or removed.
THEOREM OutcomesFinalHolds == Spec => OutcomesFinal
  <1>1. TypeInv /\ EventInv /\ [Next]_vars => [\A n \in Notification : KeepsOutcome(n)]_vars
    BY NextKeepsOutcome
  <1> QED
    BY <1>1, TypeInvHolds, EventInvHolds, PTL DEF Spec, OutcomesFinal
=============================================================================

------------------------- MODULE NotifyWork_proofs --------------------------
(***************************************************************************)
(* Machine-checked proofs about NotifySystem, continued: the stream and    *)
(* the workers' use of it, and the refinement of NotificationLifecycle.    *)
(***************************************************************************)
EXTENDS NotifySystem_proofs, NotifyImplements, FiniteSetTheorems

-----------------------------------------------------------------------------
(***************************************************************************)
(* Proofs about the entries of the stream and what workers make of them:   *)
(* the attempt budget, and that no accepted notification is dropped.       *)
(***************************************************************************)

(***************************************************************************)
(* What a step does to the stream.                                         *)
(***************************************************************************)
\* Entry m is the same message in the next state, wherever it has got to.
SameEntry(m) ==
    /\ stream'[m].outbox_event_id = stream[m].outbox_event_id
    /\ stream'[m].notification_id = stream[m].notification_id
    /\ stream'[m].state = Absent <=> stream[m].state = Absent

\* Entry m carries an outbox event and the notification of that event.
CarriesEvent(m, e) ==
    /\ outbox[e].status # Absent
    /\ stream'[m].outbox_event_id = e
    /\ stream'[m].notification_id = outbox[e].notification_id

\* Entry m is appended: for an event, or by something else.
Appends(m) ==
    /\ NextMessage(m)
    /\ stream'[m].state = "new"
    /\ \/ \E e \in EventID : CarriesEvent(m, e)
       \/ stream'[m].outbox_event_id = NoEvent
    /\ \A x \in MessageID \ {m} : stream'[x] = stream[x]
    /\ UNCHANGED <<outbox, workerVars>>

\* Worker w acknowledges entry m.
Acknowledges(w, m) ==
    /\ workerPc[w] = "ack"
    /\ task[w].msg = m

LEMMA XAddAppends ==
    ASSUME TypeInv, NEW e \in EventID \cup {NoEvent}, NEW n \in Notification \cup {"none"},
           XAdd(e, n), UNCHANGED <<outbox, workerVars>>,
           e # NoEvent => outbox[e].status # Absent /\ n = outbox[e].notification_id
    PROVE  \E m \in MessageID : Appends(m) /\ stream'[m].outbox_event_id = e
  <1>1. PICK m \in MessageID :
          /\ NextMessage(m)
          /\ stream' = [stream EXCEPT ![m] =
                [ outbox_event_id |-> e, notification_id |-> n,
                  state |-> "new", idle |-> FALSE ]]
    BY DEF XAdd
  <1>2. stream'[m] = [ outbox_event_id |-> e, notification_id |-> n,
                       state |-> "new", idle |-> FALSE ]
    BY <1>1 DEF TypeInv, TypeOK, StreamTypeOK
  <1>3. \A x \in MessageID \ {m} : stream'[x] = stream[x]
    BY <1>1 DEF TypeInv, TypeOK, StreamTypeOK
  <1> QED
    BY <1>1, <1>2, <1>3 DEF Appends, CarriesEvent

LEMMA DeliveredEntries ==
    ASSUME TypeInv, NEW page \in SUBSET MessageID, stream' = Delivered(page),
           \A m \in page : Unacked(m)
    PROVE  \A m \in MessageID : SameEntry(m) /\ (Unacked(m) => Unacked(m)')
  <1> TAKE m \in MessageID
  <1>1. stream[m] \in Message
    BY DEF TypeInv, TypeOK, StreamTypeOK
  <1>2. CASE m \in page
    <2>1. stream'[m] = [stream[m] EXCEPT !.state = "pending", !.idle = FALSE]
      BY <1>2 DEF Delivered
    <2> QED
      BY <1>1, <1>2, <2>1 DEF SameEntry, Unacked, Message, Absent
  <1>3. CASE m \notin page
    BY <1>3 DEF Delivered, SameEntry, Unacked
  <1> QED
    BY <1>2, <1>3

\* Changing the state and the idle flag of one entry.
LEMMA MovedEntry ==
    ASSUME TypeInv, NEW x \in MessageID, NEW s \in {"new", "pending", "acked", "lost"},
           NEW i \in BOOLEAN, stream[x].state # Absent,
           \/ stream' = [stream EXCEPT ![x].state = s, ![x].idle = i]
           \/ stream' = [stream EXCEPT ![x].state = s]
    PROVE  /\ \A m \in MessageID : SameEntry(m)
           /\ stream'[x].state = s
           /\ \A m \in MessageID \ {x} : stream'[m] = stream[m]
  <1>1. stream \in [MessageID -> Message]
    BY DEF TypeInv, TypeOK, StreamTypeOK
  <1>2. CASE stream' = [stream EXCEPT ![x].state = s, ![x].idle = i]
    <2>1. stream'[x] = [stream[x] EXCEPT !.state = s, !.idle = i]
      BY <1>1, <1>2
    <2>2. \A m \in MessageID \ {x} : stream'[m] = stream[m]
      BY <1>1, <1>2
    <2> QED
      BY <1>1, <2>1, <2>2 DEF SameEntry, Message, Absent
  <1>3. CASE stream' = [stream EXCEPT ![x].state = s]
    <2>1. stream'[x] = [stream[x] EXCEPT !.state = s]
      BY <1>1, <1>3
    <2>2. \A m \in MessageID \ {x} : stream'[m] = stream[m]
      BY <1>1, <1>3
    <2> QED
      BY <1>1, <2>1, <2>2 DEF SameEntry, Message, Absent
  <1> QED
    BY <1>2, <1>3

\* The entries a worker reads exist and are not acknowledged.
LEMMA PagesUnacked ==
    ASSUME NEW c
    PROVE  /\ IdleEntries(c) \in SUBSET MessageID
           /\ NewEntries \in SUBSET MessageID
           /\ \A m \in IdleEntries(c) : Unacked(m)
           /\ \A m \in NewEntries : Unacked(m)
  BY DEF IdleEntries, NewEntries, FirstEntries, Unacked

\* No step makes an entry another message, and an entry leaves the group
\* only by an acknowledgement or because Redis forgets it.
LEMMA StreamEffect ==
    ASSUME TypeInv, [Next]_vars
    PROVE  \/ \E m \in MessageID : Appends(m)
           \/ \A m \in MessageID :
                /\ SameEntry(m)
                /\ Unacked(m) => \/ Unacked(m)'
                                 \/ lost'
                                 \/ \E w \in Worker : Acknowledges(w, m)
  <1> USE DEF vars, storeVars, streamVars, relayVars, workerVars
  <1>0. ASSUME UNCHANGED stream
        PROVE  \A m \in MessageID : SameEntry(m) /\ (Unacked(m) => Unacked(m)')
    BY <1>0 DEF SameEntry, Unacked
  <1>1. CASE UNCHANGED stream
    BY <1>0, <1>1
  <1>2. ASSUME NEW r \in Relay, Publish(r), RelayAction(r), stream' # stream
        PROVE  \E m \in MessageID : Appends(m)
    <2>1. PICK e \in claimed[r] : PublishEvent(e)
      BY <1>2 DEF Publish
    <2>2. e \in EventID /\ outbox[e].status # Absent /\ outbox[e].notification_id \in Notification
      BY <2>1 DEF TypeInv, TypeOK, RelayTypeOK, RelaysHoldEvents, EventsHaveRows
    <2>3. UNCHANGED <<outbox, workerVars>>
      BY <1>2 DEF Publish, RelayAction
    <2> QED
      BY <2>1, <2>2, <2>3, XAddAppends DEF PublishEvent
  <1>3. ASSUME NEW w \in Worker, ClaimPage(w) \/ ReadPage(w) \/ PollError(w)
        PROVE  \A m \in MessageID : SameEntry(m) /\ (Unacked(m) => Unacked(m)')
    <2>1. \/ UNCHANGED stream
          \/ stream' = Delivered(IdleEntries(cursor[w]))
          \/ stream' = Delivered(NewEntries)
      BY <1>3 DEF ClaimPage, ReadPage, PollError
    <2> QED
      BY <1>0, <2>1, PagesUnacked, DeliveredEntries
  <1>4. ASSUME NEW w \in Worker, Ack(w), NEW m \in MessageID
        PROVE  SameEntry(m) /\ (Unacked(m) => Unacked(m)' \/ Acknowledges(w, m))
    <2>1. CASE UNCHANGED stream
      BY <1>0, <2>1
    <2>2. CASE stream' = [stream EXCEPT ![task[w].msg].state = "acked",
                                         ![task[w].msg].idle = FALSE]
               /\ stream[task[w].msg].state = "pending"
      <3>1. task[w].msg \in MessageID
        BY <1>4 DEF Ack, TypeInv, WorkersHoldTasks
      <3>2. stream[task[w].msg].state # Absent
        BY <2>2 DEF Absent
      <3> QED
        BY <1>4, <2>2, <3>1, <3>2, MovedEntry DEF Acknowledges, Ack, Unacked
    <2> QED
      BY <1>4, <2>1, <2>2 DEF Ack, Acked
  <1>5. ASSUME NEW x \in MessageID, MessageClock(x), NEW m \in MessageID
        PROVE  SameEntry(m) /\ (Unacked(m) => Unacked(m)')
    <2>1. stream' = [stream EXCEPT ![x].idle = TRUE] /\ stream \in [MessageID -> Message]
      BY <1>5 DEF MessageClock, MessageIdle, TypeInv, TypeOK, StreamTypeOK
    <2>2. /\ stream'[m].state = stream[m].state
          /\ stream'[m].outbox_event_id = stream[m].outbox_event_id
          /\ stream'[m].notification_id = stream[m].notification_id
      BY <2>1 DEF Message
    <2> QED
      BY <2>2 DEF SameEntry, Unacked
  <1>6. ASSUME RedisFailure, ForeignMessage
        PROVE  \E m \in MessageID : Appends(m)
    BY <1>6, XAddAppends DEF RedisFailure, ForeignMessage
  <1>7. ASSUME NEW x \in MessageID, RedisForgets(x), NEW m \in MessageID
        PROVE  SameEntry(m) /\ (Unacked(m) => Unacked(m)' \/ lost')
    <2>1. CASE Unacked(x) /\ stream' = [stream EXCEPT ![x].state = "lost", ![x].idle = FALSE]
               /\ lost' = TRUE
      BY <2>1, MovedEntry DEF Unacked, Absent
    <2>2. CASE stream[x].state = "pending"
               /\ stream' = [stream EXCEPT ![x].state = "new", ![x].idle = FALSE]
      BY <2>2, MovedEntry DEF Unacked, Absent
    <2>3. CASE stream[x].state = "acked" /\ stream' = [stream EXCEPT ![x].state = "pending"]
      BY <2>3, MovedEntry DEF Unacked, Absent
    <2> QED
      BY <1>7, <2>1, <2>2, <2>3 DEF RedisForgets
  <1>8. \/ UNCHANGED stream
        \/ \E r \in Relay : Publish(r) /\ RelayAction(r)
        \/ \E w \in Worker : ClaimPage(w) \/ ReadPage(w) \/ PollError(w) \/ Ack(w)
        \/ \E m \in MessageID : MessageClock(m)
        \/ RedisFailure
    <2>1. CASE \E n \in Notification : Create(n) \/ Retry(n)
      BY <2>1 DEF Create, Retry
    <2>2. CASE \E r \in Relay : RelayAction(r) \/ RelayFailure(r)
      BY <2>2 DEF RelayAction, RelayFailure, RelayStep, RelayCrash, ClaimDue,
                  MarkPublished, MarkFailed
    <2>3. CASE \E w \in Worker : WorkerAction(w) \/ WorkerFailure(w)
      BY <2>3 DEF WorkerAction, WorkerStep, WorkerFailure, LoadForDelivery, StartDelivery,
                  Deliver, RecordResult, LoadError, WorkerCrash
    <2>4. CASE \E e \in EventID : EventClock(e)
      BY <2>4 DEF EventClock, EventDue, LockExpires
    <2> QED
      BY <2>1, <2>2, <2>3, <2>4 DEF Next
  <1> QED
    BY <1>1, <1>2, <1>3, <1>4, <1>5, <1>6, <1>7, <1>8 DEF RedisFailure

-----------------------------------------------------------------------------
(***************************************************************************)
(* Entries are what the relays made them, and a worker's task belongs to   *)
(* the entry it has in hand.                                               *)
(***************************************************************************)
MessageOrigin ==
    \A m \in MessageID : Parses(m) =>
        /\ outbox[stream[m].outbox_event_id].status # Absent
        /\ stream[m].notification_id = outbox[stream[m].outbox_event_id].notification_id

HeldEntries ==
    \A w \in Worker :
        /\ \A m \in batch[w] : stream[m].state # Absent
        /\ workerPc[w] # "loop" =>
                /\ stream[task[w].msg].state # Absent
                /\ Parses(task[w].msg) => task[w].id = stream[task[w].msg].notification_id
        /\ workerPc[w] \in {"mark", "deliver", "record"} => Parses(task[w].msg)

MessageInv == MessageOrigin /\ HeldEntries

\* What a worker holds after LoadForDelivery.
LEMMA LoadedEntry ==
    ASSUME TypeInv, NEW w \in Worker, LoadForDelivery(w)
    PROVE  /\ UNCHANGED stream
           /\ \E m \in MessageID :
                /\ m \in batch[w]
                /\ task'[w].msg = m
                /\ \/ ~Parses(m) /\ workerPc'[w] = "ack"
                   \/ /\ Parses(m)
                      /\ task'[w] = Loaded(m)
                      /\ IF notifications[stream[m].notification_id].status \in Terminal
                         THEN workerPc'[w] = "ack"
                         ELSE workerPc'[w] = "mark"
  <1>1. PICK m \in MessageID :
          /\ m \in batch[w]
          /\ \/ /\ ~Parses(m)
                /\ task' = [task EXCEPT ![w] = [NoTask EXCEPT !.msg = m]]
                /\ Goto(w, "ack")
             \/ /\ Parses(m)
                /\ task' = [task EXCEPT ![w] = Loaded(m)]
                /\ IF notifications[stream[m].notification_id].status \in Terminal
                   THEN Goto(w, "ack")
                   ELSE Goto(w, "mark")
    BY Zenon DEF LoadForDelivery, IsNext
  <1>2. [NoTask EXCEPT !.msg = m].msg = m /\ Loaded(m).msg = m
    BY DEF NoTask, Loaded
  <1>3. task \in [Worker -> Task]
    BY DEF TypeInv, TypeOK, WorkerTypeOK
  <1>4. UNCHANGED stream
    BY DEF LoadForDelivery, streamVars
  <1> QED
    BY <1>1, <1>2, <1>3, <1>4, GotoEffect

\* Otherwise a worker that has an entry in hand has had it before, and does
\* not go back to an earlier call on it.
LEMMA HandsEffect ==
    ASSUME TypeInv, [Next]_vars, NEW w \in Worker, workerPc'[w] # "loop",
           ~LoadForDelivery(w)
    PROVE  /\ workerPc[w] # "loop"
           /\ task'[w] = task[w]
           /\ workerPc'[w] \in {"mark", "deliver", "record"} =>
                    workerPc[w] \in {"mark", "deliver", "record"}
           /\ workerPc'[w] = "ack" => workerPc[w] = "ack" \/ Recorded(w)
  <1> DEFINE Goal == /\ workerPc[w] # "loop"
                     /\ task'[w] = task[w]
                     /\ workerPc'[w] \in {"mark", "deliver", "record"} =>
                                workerPc[w] \in {"mark", "deliver", "record"}
                     /\ workerPc'[w] = "ack" => workerPc[w] = "ack" \/ Recorded(w)
  <1>1. CASE workerPc'[w] = workerPc[w] /\ task'[w] = task[w]
    BY <1>1
  <1>2. CASE Started(w)
    BY <1>2, DropEffect, GotoEffect DEF Started
  <1>3. CASE Deliver(w)
    BY <1>3, GotoEffect DEF Deliver
  <1>4. CASE Recorded(w)
    BY <1>4, DropEffect, GotoEffect DEF Recorded
  <1>5. CASE Abandon(w)
    BY <1>5, DropEffect DEF Abandon
  <1>6. ASSUME NEW v \in Worker \ {w},
               Abandon(v) \/ LoadForDelivery(v) \/ Started(v) \/ Deliver(v) \/ Recorded(v)
        PROVE  workerPc'[w] = workerPc[w] /\ task'[w] = task[w]
    <2>1. CASE Drop(v)
      BY <2>1, DropEffect
    <2>2. ASSUME NEW pc, Goto(v, pc), UNCHANGED task
          PROVE  workerPc'[w] = workerPc[w] /\ task'[w] = task[w]
      BY <2>2, GotoEffect
    <2>3. CASE LoadForDelivery(v)
      BY <2>3, LoadEffect
    <2>4. CASE Abandon(v) \/ Started(v) \/ Deliver(v) \/ Recorded(v)
      BY <2>1, <2>2, <2>4 DEF Abandon, Started, Deliver, Recorded
    <2> QED
      BY <1>6, <2>3, <2>4
  <1>7. CASE UNCHANGED deliveryVars \/ \E n \in Notification : Create(n) \/ Retry(n)
    <2>1. UNCHANGED <<workerPc, task>>
      BY <1>7, CreateRow, RetryRow DEF deliveryVars
    <2> QED
      BY <1>1, <2>1
  <1> QED
    BY <1>1, <1>2, <1>3, <1>4, <1>5, <1>6, <1>7, StepEffect

\* A page consists of entries the group has not seen acknowledged.
LEMMA BatchEffect ==
    ASSUME TypeInv, [Next]_vars, NEW w \in Worker
    PROVE  \A m \in batch'[w] : m \in batch[w] \/ (m \in MessageID /\ Unacked(m))
  <1> USE DEF vars, storeVars, streamVars, relayVars, workerVars
  <1>0. batch \in [Worker -> SUBSET MessageID]
    BY DEF TypeInv, TypeOK, WorkerTypeOK
  <1>1. CASE UNCHANGED batch
    BY <1>1
  <1>2. ASSUME NEW v \in Worker, WorkerAction(v) \/ WorkerFailure(v), batch' # batch
        PROVE  \/ batch' = [batch EXCEPT ![v] = IdleEntries(cursor[v])]
               \/ batch' = [batch EXCEPT ![v] = NewEntries]
               \/ \E m : batch' = [batch EXCEPT ![v] = @ \ {m}]
               \/ batch' = [batch EXCEPT ![v] = {}]
    BY <1>2 DEF WorkerAction, WorkerFailure, WorkerStep, ClaimPage, ReadPage, PollError,
                LoadForDelivery, LoadError, WorkerCrash, StartDelivery, Deliver,
                RecordResult, Ack
  <1>3. CASE \E v \in Worker : WorkerAction(v) \/ WorkerFailure(v)
    <2>1. PICK v \in Worker : WorkerAction(v) \/ WorkerFailure(v)
      BY <1>3
    <2>2. CASE v # w
      BY <1>0, <1>1, <1>2, <2>1, <2>2
    <2>3. CASE v = w
      BY <1>0, <1>1, <1>2, <2>1, <2>3, PagesUnacked
    <2> QED
      BY <2>2, <2>3
  <1>4. \/ UNCHANGED batch
        \/ \E v \in Worker : WorkerAction(v) \/ WorkerFailure(v)
    <2>1. CASE \E n \in Notification : Create(n) \/ Retry(n)
      BY <2>1 DEF Create, Retry
    <2>2. CASE \E r \in Relay : RelayAction(r) \/ RelayFailure(r)
      BY <2>2 DEF RelayAction, RelayFailure
    <2>3. CASE \E e \in EventID : EventClock(e)
      BY <2>3 DEF EventClock
    <2>4. CASE \E m \in MessageID : MessageClock(m)
      BY <2>4 DEF MessageClock, MessageIdle
    <2>5. CASE RedisFailure
      BY <2>5 DEF RedisFailure
    <2> QED
      BY <2>1, <2>2, <2>3, <2>4, <2>5 DEF Next
  <1> QED
    BY <1>1, <1>3, <1>4

\* An event that exists keeps its notification.
LEMMA EventsStay ==
    ASSUME TypeInv, [Next]_vars, NEW e \in EventID, outbox[e].status # Absent
    PROVE  /\ outbox'[e].status # Absent
           /\ outbox'[e].notification_id = outbox[e].notification_id
  <1>1. ASSUME NEW f \in EventID, NEW n, InsertsEvent(f, n)
        PROVE  outbox'[e] = outbox[e]
    BY <1>1 DEF InsertsEvent, NextEvent
  <1>2. CASE SameEvents
    BY <1>2 DEF SameEvents
  <1>3. CASE \E n \in Notification : Create(n) \/ Retry(n)
    BY <1>1, <1>3, ApiInserts
  <1>4. CASE \E w \in Worker : Recorded(w)
    BY <1>1, <1>4, RecordedOutbox
  <1> QED
    BY <1>2, <1>3, <1>4, OutboxEffect

\* An entry that exists keeps its event and notification.
LEMMA EntriesStay ==
    ASSUME TypeInv, [Next]_vars, NEW m \in MessageID, stream[m].state # Absent
    PROVE  SameEntry(m)
  BY StreamEffect DEF Appends, NextMessage, SameEntry

LEMMA InitMessageInv == Init => MessageInv
  BY DEF Init, StreamInit, WorkerInit, MessageInv, MessageOrigin, HeldEntries, Parses

LEMMA NextMessageInv ==
    ASSUME TypeInv, MessageInv, [Next]_vars
    PROVE  MessageInv'
  <1>1. MessageOrigin'
    <2> SUFFICES ASSUME NEW m \in MessageID, Parses(m)'
                 PROVE  /\ outbox'[stream'[m].outbox_event_id].status # Absent
                        /\ stream'[m].notification_id =
                                outbox'[stream'[m].outbox_event_id].notification_id
      BY DEF MessageOrigin
    <2>1. CASE \E e \in EventID : CarriesEvent(m, e)
      BY <2>1, EventsStay DEF CarriesEvent
    <2>2. CASE /\ stream'[m].outbox_event_id = stream[m].outbox_event_id
               /\ stream'[m].notification_id = stream[m].notification_id
      <3>1. Parses(m) /\ stream[m].outbox_event_id \in EventID
        BY <2>2 DEF Parses, TypeInv, TypeOK, StreamTypeOK, Message
      <3> QED
        BY <2>2, <3>1, EventsStay DEF MessageInv, MessageOrigin
    <2> QED
      BY <2>1, <2>2, StreamEffect DEF Appends, SameEntry, Parses
  <1>2. ASSUME NEW w \in Worker
        PROVE  \A m \in batch'[w] : stream'[m].state # Absent
    <2> TAKE m \in batch'[w]
    <2>1. m \in MessageID /\ stream[m].state # Absent
      BY <1>2, BatchEffect
         DEF MessageInv, HeldEntries, Unacked, Absent, TypeInv, TypeOK, WorkerTypeOK
    <2> QED
      BY <2>1, EntriesStay DEF SameEntry
  <1>3. ASSUME NEW w \in Worker, workerPc'[w] # "loop"
        PROVE  /\ stream'[task'[w].msg].state # Absent
               /\ Parses(task[w].msg)' => task'[w].id = stream'[task'[w].msg].notification_id
               /\ workerPc'[w] \in {"mark", "deliver", "record"} => Parses(task[w].msg)'
    <2>1. CASE LoadForDelivery(w)
      <3>1. PICK m \in MessageID :
              /\ m \in batch[w]
              /\ task'[w].msg = m
              /\ \/ ~Parses(m) /\ workerPc'[w] = "ack"
                 \/ Parses(m) /\ task'[w] = Loaded(m)
        BY <1>3, <2>1, LoadedEntry
      <3>2. stream' = stream /\ stream[m].state # Absent
        BY <1>3, <2>1, <3>1, LoadedEntry DEF MessageInv, HeldEntries
      <3> QED
        BY <1>3, <3>1, <3>2 DEF Loaded, Parses
    <2>2. CASE ~LoadForDelivery(w)
      <3>1. /\ workerPc[w] # "loop" /\ task'[w] = task[w]
            /\ workerPc'[w] \in {"mark", "deliver", "record"} =>
                    workerPc[w] \in {"mark", "deliver", "record"}
        BY <1>3, <2>2, HandsEffect
      <3>2. task[w].msg \in MessageID /\ stream[task[w].msg].state # Absent
        BY <1>3, <3>1 DEF MessageInv, HeldEntries, TypeInv, WorkersHoldTasks
      <3> QED
        BY <1>3, <3>1, <3>2, EntriesStay DEF SameEntry, MessageInv, HeldEntries, Parses
    <2> QED
      BY <2>1, <2>2
  <1> QED
    BY <1>1, <1>2, <1>3 DEF MessageInv, HeldEntries

LEMMA MessageInvHolds == Spec => []MessageInv
  BY InitMessageInv, NextMessageInv, TypeInvHolds, PTL DEF Spec

\* So an entry that parses leads to a notification that exists.
LEMMA EntryRow ==
    ASSUME TypeInv, EventInv, MessageInv, NEW m \in MessageID, Parses(m)
    PROVE  /\ stream[m].outbox_event_id \in EventID
           /\ stream[m].notification_id \in Notification
           /\ notifications[stream[m].notification_id].status # Absent
  <1>1. stream[m].outbox_event_id \in EventID
    BY DEF Parses, TypeInv, TypeOK, StreamTypeOK, Message
  <1> QED
    BY <1>1 DEF MessageInv, MessageOrigin, EventInv, EventOwners, TypeInv, MessagesHaveRows

-----------------------------------------------------------------------------
(***************************************************************************)
(* The attempt budget.  A Task may be stale in its attempt number but not  *)
(* in its limit, and the number is compared when the result is recorded.   *)
(***************************************************************************)
LimitsPositive ==
    \A n \in Notification :
        notifications[n].status # Absent => notifications[n].max_attempts >= 1

TaskLimits ==
    \A w \in Worker : workerPc[w] \in {"mark", "deliver", "record"} =>
        /\ notifications[task[w].id].status # Absent
        /\ task[w].MaxAttempts = notifications[task[w].id].max_attempts

BudgetInv == AttemptBudget /\ LimitsPositive /\ TaskLimits

\* No transaction changes an existing row's limit.
LEMMA LimitsStay ==
    ASSUME TypeInv, [Next]_vars, NEW n \in Notification, notifications[n].status # Absent
    PROVE  notifications'[n].max_attempts = notifications[n].max_attempts
  BY StepEffect, CreateRow, RetryRow, StartedRow, RecordedRow, LoadEffect
     DEF deliveryVars, Abandon, Deliver, storeVars

LEMMA InitBudgetInv == Init => BudgetInv
  BY DEF Init, StoreInit, WorkerInit, BudgetInv, AttemptBudget, LimitsPositive, TaskLimits

\* A failure is only retried below the limit.
LEMMA RetryBelowLimit ==
    ASSUME TypeInv, NEW w \in Worker, WillRetry(w)
    PROVE  task[w].Attempt + 1 < task[w].MaxAttempts
  <1>1. task[w].Attempt \in Nat /\ task[w].MaxAttempts \in Nat
    BY DEF TypeInv, TypeOK, WorkerTypeOK, Task
  <1>2. ~(task[w].Attempt + 1 >= task[w].MaxAttempts)
    BY DEF WillRetry, Decide
  <1> QED
    BY <1>1, <1>2

LEMMA NextBudgetInv ==
    ASSUME TypeInv, EventInv, MessageInv, BudgetInv, [Next]_vars
    PROVE  BudgetInv'
  <1> DEFINE InBudget(row) ==
        row.status # Absent =>
            /\ row.attempt_count <= row.max_attempts
            /\ row.status \notin Terminal => row.attempt_count < row.max_attempts
            /\ row.max_attempts >= 1
  <1>0. \A n \in Notification :
          /\ InBudget(notifications[n])
          /\ notifications[n].attempt_count \in Nat
          /\ notifications[n].max_attempts \in Nat
    BY DEF BudgetInv, AttemptBudget, LimitsPositive, TypeInv, TypeOK, StoreTypeOK,
           NotificationRow
  <1>1. ASSUME NEW n \in Notification
        PROVE  InBudget(notifications'[n])
    <2>1. CASE notifications'[n] = notifications[n]
      BY <1>0, <2>1
    <2>2. CASE Create(n)
      <3>1. \A max \in MaxAttempts : max \in Int /\ max >= 1
        <4> TAKE max \in MaxAttempts
        <4>1. max \in 1..20
          BY StoreAssumption
        <4> QED
          BY <4>1
      <3>2. /\ notifications'[n].attempt_count = 0
            /\ notifications'[n].max_attempts \in MaxAttempts
        BY <2>2, CreateRow
      <3>3. /\ notifications'[n].max_attempts \in Int
            /\ notifications'[n].max_attempts >= 1
        BY <3>1, <3>2
      <3> QED
        BY <3>2, <3>3
    <2>3. CASE Retry(n)
      BY <1>0, <2>3, RetryRow DEF Absent
    <2>4. ASSUME NEW w \in Worker, Started(w), n = task[w].id
          PROVE  InBudget(notifications'[n])
      BY <1>0, <2>4, StartedRow DEF Absent, Terminal
    <2>5. ASSUME NEW w \in Worker, Recorded(w), n = task[w].id
          PROVE  InBudget(notifications'[n])
      <3>1. /\ notifications[n].status = "delivering"
            /\ notifications'[n].attempt_count = notifications[n].attempt_count + 1
            /\ notifications'[n].max_attempts = notifications[n].max_attempts
            /\ notifications'[n].status \notin Terminal => WillRetry(w)
        BY <2>5, RecordedRow DEF Terminal
      <3>2. WillRetry(w) =>
              notifications[n].attempt_count + 1 < notifications[n].max_attempts
        BY <2>5, RecordedRow, RetryBelowLimit DEF BudgetInv, TaskLimits, Recorded
      <3>3. notifications[n].attempt_count < notifications[n].max_attempts
        BY <1>0, <3>1 DEF Absent, Terminal
      <3> QED
        BY <1>0, <3>1, <3>2, <3>3
    <2> QED
      BY <2>1, <2>2, <2>3, <2>4, <2>5, StepEffect, CreateRow, RetryRow, StartedRow,
         RecordedRow, LoadEffect
         DEF deliveryVars, Abandon, Deliver, storeVars
  <1>2. ASSUME NEW w \in Worker, workerPc'[w] \in {"mark", "deliver", "record"}
        PROVE  /\ notifications'[task'[w].id].status # Absent
               /\ task'[w].MaxAttempts = notifications'[task'[w].id].max_attempts
    <2>1. CASE LoadForDelivery(w)
      <3>1. PICK m \in MessageID : Parses(m) /\ task'[w] = Loaded(m)
        BY <1>2, <2>1, LoadedEntry
      <3> DEFINE n == stream[m].notification_id
      <3>2. n \in Notification /\ notifications[n].status # Absent
        BY <3>1, EntryRow
      <3>3. notifications[n].max_attempts \in Nat /\ notifications[n].max_attempts >= 1
        BY <1>0, <3>2
      <3>4. Loaded(m).id = n /\ Loaded(m).MaxAttempts = notifications[n].max_attempts
        BY <3>3 DEF Loaded
      <3> QED
        BY <1>2, <2>1, <3>1, <3>2, <3>4, LoadEffect
    <2>2. CASE ~LoadForDelivery(w)
      <3>1. task'[w] = task[w] /\ workerPc[w] \in {"mark", "deliver", "record"}
        BY <1>2, <2>2, HandsEffect
      <3>2. /\ task[w].id \in Notification /\ notifications[task[w].id].status # Absent
            /\ task[w].MaxAttempts = notifications[task[w].id].max_attempts
        BY <1>2, <3>1 DEF BudgetInv, TaskLimits, TypeInv, WorkersHoldTasks
      <3> QED
        BY <3>1, <3>2, RowsStay, LimitsStay
    <2> QED
      BY <2>1, <2>2
  <1>3. AttemptBudget' /\ LimitsPositive'
    BY <1>1 DEF AttemptBudget, LimitsPositive
  <1>4. TaskLimits'
    BY <1>2 DEF TaskLimits
  <1> QED
    BY <1>3, <1>4 DEF BudgetInv

\* No notification records more attempts than its limit, and one that can
\* still be attempted has attempts left.
THEOREM AttemptBudgetHolds == Spec => []AttemptBudget
  <1>1. BudgetInv => AttemptBudget
    BY DEF BudgetInv
  <1> QED
    BY <1>1, InitBudgetInv, NextBudgetInv, TypeInvHolds, EventInvHolds, MessageInvHolds, PTL
       DEF Spec

-----------------------------------------------------------------------------
(***************************************************************************)
(* No work is lost.  An event needs no more work once its notification is  *)
(* finished or has a later event; until then an event that was published   *)
(* must have an entry nobody has acknowledged.  The pipeline keeps this    *)
(* because a relay marks an event published only after its XADD, and a     *)
(* worker acknowledges an entry only after it saw the notification         *)
(* finished, or committed the event of its next attempt.                   *)
(***************************************************************************)
Settled(e) ==
    \/ notifications[outbox[e].notification_id].status \in Terminal
    \/ ~LatestEvent(outbox[e].notification_id, e)

HasEntry(e) == \E m \in MessageID : stream[m].outbox_event_id = e /\ Unacked(m)

Covered(e) == Settled(e) \/ HasEntry(e)

PublishedCovered ==
    \A e \in EventID : outbox[e].status = "published" => Covered(e)

PublishingCovered ==
    \A r \in Relay : relayPc[r] = "published" =>
        outbox[relayEvent[r]].status # Absent /\ Covered(relayEvent[r])

AcksSettled ==
    \A w \in Worker : workerPc[w] = "ack" /\ Parses(task[w].msg) =>
        Settled(stream[task[w].msg].outbox_event_id)

WorkInv == AcksSettled /\ (lost \/ (PublishedCovered /\ PublishingCovered))

\* A new event of its notification settles every older one.
LEMMA InsertedSettles ==
    ASSUME TypeInv, EventInv, NEW e \in EventID, NEW f \in EventID,
           outbox[e].status # Absent, InsertsEvent(f, outbox[e].notification_id)
    PROVE  Settled(e)'
  <1>1. outbox'[e].notification_id = outbox[e].notification_id /\ e < f
    BY InsertedIsLatest DEF InsertsEvent, NextEvent, TypeInv, EventsHaveRows
  <1>2. outbox'[f].notification_id = outbox[e].notification_id /\ ~(f <= e)
    BY <1>1 DEF InsertsEvent, EventID
  <1> QED
    BY <1>1, <1>2 DEF Settled, LatestEvent

LEMMA SettledStays ==
    ASSUME TypeInv, EventInv, [Next]_vars, NEW e \in EventID,
           outbox[e].status # Absent, Settled(e)
    PROVE  Settled(e)'
  <1> DEFINE n == outbox[e].notification_id
  <1>0. n \in Notification /\ outbox'[e].notification_id = n
    BY EventsStay DEF TypeInv, EventsHaveRows
  <1>1. CASE notifications[n].status \in Terminal
    <2>1. CASE notifications'[n] = notifications[n]
      BY <1>0, <1>1, <2>1 DEF Settled
    <2>2. CASE Retry(n) \/ Create(n)
      BY <1>0, <2>2, ApiInserts, InsertedSettles
    <2> QED
      BY <1>0, <1>1, <2>1, <2>2, StepEffect, CreateRow, RetryRow, StartedRow, RecordedRow,
         LoadEffect
         DEF deliveryVars, Abandon, Deliver, storeVars, Terminal
  <1>2. CASE ~LatestEvent(n, e)
    <2>1. PICK f \in EventID : outbox[f].notification_id = n /\ ~(f <= e)
      BY <1>2 DEF LatestEvent
    <2>2. outbox[f].status # Absent
      BY <1>0, <2>1, StoreAssumption DEF EventInv, AbsentEvents
    <2>3. outbox'[f].notification_id = n
      BY <2>1, <2>2, EventsStay
    <2> QED
      BY <1>0, <2>1, <2>3 DEF Settled, LatestEvent
  <1> QED
    BY <1>1, <1>2 DEF Settled

\* An event with work in the stream keeps it until it needs it no more.
LEMMA CoveredStays ==
    ASSUME TypeInv, EventInv, AcksSettled, [Next]_vars, NEW e \in EventID,
           outbox[e].status # Absent, Covered(e), ~lost'
    PROVE  Covered(e)'
  <1>1. CASE Settled(e)
    BY <1>1, SettledStays DEF Covered
  <1>2. CASE HasEntry(e)
    <2>1. PICK m \in MessageID : stream[m].outbox_event_id = e /\ Unacked(m)
      BY <1>2 DEF HasEntry
    <2>2. stream[m].state # Absent
      BY <2>1 DEF Unacked, Absent
    <2>3. stream'[m].outbox_event_id = e
      BY <2>1, <2>2, EntriesStay DEF SameEntry
    <2>4. CASE Unacked(m)'
      BY <2>3, <2>4 DEF Covered, HasEntry
    <2>5. CASE \E w \in Worker : Acknowledges(w, m)
      <3>1. Parses(m)
        BY <2>1 DEF Parses, EventID, NoEvent
      <3>2. Settled(e)
        BY <2>1, <2>5, <3>1 DEF AcksSettled, Acknowledges
      <3> QED
        BY <3>2, SettledStays DEF Covered
    <2>6. ASSUME NEW x \in MessageID, Appends(x)
          PROVE  Unacked(m)'
      <3>1. x # m
        BY <2>2, <2>6 DEF Appends, NextMessage
      <3> QED
        BY <2>1, <2>6, <3>1 DEF Appends, Unacked
    <2> QED
      BY <2>1, <2>4, <2>5, <2>6, StreamEffect
  <1> QED
    BY <1>1, <1>2 DEF Covered

\* Only MarkPublished makes an event published, and only Publish lets a
\* relay get there.
LEMMA RelayEffect ==
    ASSUME TypeInv, [Next]_vars
    PROVE  /\ \A e \in EventID : outbox'[e].status = "published" =>
                \/ outbox[e].status = "published"
                \/ \E r \in Relay : relayPc[r] = "published" /\ relayEvent[r] = e
           /\ \A r \in Relay : relayPc'[r] = "published" =>
                \/ relayPc[r] = "published" /\ relayEvent'[r] = relayEvent[r]
                \/ /\ relayEvent'[r] \in EventID
                   /\ outbox[relayEvent'[r]].status # Absent
                   /\ HasEntry(relayEvent[r])'
  <1> USE DEF vars, storeVars, streamVars, relayVars, workerVars
  <1> DEFINE Goal1 == \A e \in EventID : outbox'[e].status = "published" =>
                        \/ outbox[e].status = "published"
                        \/ \E r \in Relay : relayPc[r] = "published" /\ relayEvent[r] = e
             Goal2(r) == relayPc'[r] = "published" =>
                        \/ relayPc[r] = "published" /\ relayEvent'[r] = relayEvent[r]
                        \/ /\ relayEvent'[r] \in EventID
                           /\ outbox[relayEvent'[r]].status # Absent
                           /\ HasEntry(relayEvent[r])'
  <1>t. /\ relayPc \in [Relay -> {"loop", "published", "failed"}]
        /\ claimed \in [Relay -> SUBSET EventID]
        /\ relayEvent \in [Relay -> EventID \cup {NoEvent}]
        /\ outbox \in [EventID -> OutboxRow]
    BY DEF TypeInv, TypeOK, RelayTypeOK, StoreTypeOK
  <1>0. UNCHANGED outbox => Goal1
    OBVIOUS
  <1>1. UNCHANGED <<relayPc, relayEvent>> => \A r \in Relay : Goal2(r)
    OBVIOUS
  <1>2. ASSUME NEW e \in EventID, NEW n, InsertsEvent(e, n)
        PROVE  Goal1
    BY <1>2 DEF InsertsEvent
  <1>3. CASE \E n \in Notification : Create(n) \/ Retry(n)
    <2>1. UNCHANGED <<relayPc, relayEvent>>
      BY <1>3 DEF Create, Retry
    <2> QED
      BY <1>1, <1>2, <1>3, <2>1, ApiInserts
  <1>4. ASSUME NEW w \in Worker, WorkerAction(w) \/ WorkerFailure(w)
        PROVE  Goal1 /\ \A r \in Relay : Goal2(r)
    <2>1. UNCHANGED <<relayPc, relayEvent>>
      BY <1>4 DEF WorkerAction, WorkerFailure
    <2>2. CASE Recorded(w)
      BY <1>0, <1>1, <1>2, <2>1, <2>2, RecordedOutbox
    <2>3. CASE ~Recorded(w)
      <3>1. UNCHANGED outbox
        BY <1>4, <2>3 DEF WorkerAction, WorkerFailure, WorkerStep, ClaimPage, ReadPage,
             LoadForDelivery, StartDelivery, MarkDelivering, AfterRollback, Deliver,
             RecordResult, AfterCommit, Recorded, Ack, PollError, LoadError, WorkerCrash
      <3> QED
        BY <1>0, <1>1, <2>1, <3>1
    <2> QED
      BY <2>2, <2>3
  <1>5. ASSUME NEW e \in EventID, EventClock(e)
        PROVE  Goal1 /\ \A r \in Relay : Goal2(r)
    <2>1. UNCHANGED <<relayPc, relayEvent>>
      BY <1>5 DEF EventClock, EventDue, LockExpires
    <2> QED
      BY <1>1, <1>5, <2>1, ClockKeepsEvents
  <1>6. CASE UNCHANGED vars \/ RedisFailure \/ \E m \in MessageID : MessageClock(m)
    <2>1. UNCHANGED <<outbox, relayPc, relayEvent>>
      BY <1>6 DEF RedisFailure, MessageClock, MessageIdle
    <2> QED
      BY <1>0, <1>1, <2>1
  <1>7. ASSUME NEW q \in Relay, RelayAction(q) \/ RelayFailure(q)
        PROVE  Goal1 /\ \A r \in Relay : Goal2(r)
    <2>1. CASE ClaimDue(q)
      <3>1. PICK page \in ClaimPages \ {{}} :
              outbox' = [e \in EventID |->
                IF e \in page THEN Relocked(outbox[e], "publishing", Locker[q])
                             ELSE outbox[e]]
        BY <2>1 DEF ClaimDue
      <3>2. Goal1
        BY <1>t, <3>1, RelockedRow, RelayAssumption
      <3> QED
        BY <1>1, <2>1, <3>2 DEF ClaimDue
    <2>2. CASE Publish(q)
      <3>1. PICK e \in claimed[q] :
              /\ relayEvent' = [relayEvent EXCEPT ![q] = e]
              /\ \/ PublishEvent(e) /\ relayPc' = [relayPc EXCEPT ![q] = "published"]
                 \/ relayPc' = [relayPc EXCEPT ![q] = "failed"]
        BY <2>2, Zenon DEF Publish
      <3>2. /\ e \in EventID /\ outbox[e].status # Absent
            /\ outbox[e].notification_id \in Notification
        BY <1>t DEF TypeInv, RelaysHoldEvents, EventsHaveRows
      <3>3. UNCHANGED <<outbox, workerVars>>
        BY <1>7, <2>2 DEF Publish, RelayAction, RelayFailure
      <3>4. PublishEvent(e) => HasEntry(e)'
        <4>1. PublishEvent(e) => \E m \in MessageID : Appends(m) /\ stream'[m].outbox_event_id = e
          BY <3>2, <3>3, XAddAppends DEF PublishEvent
        <4> QED
          BY <4>1 DEF Appends, HasEntry, Unacked
      <3>5. Goal2(q)
        BY <1>t, <3>1, <3>2, <3>4
      <3>6. \A r \in Relay \ {q} : Goal2(r)
        BY <1>t, <3>1
      <3> QED
        BY <1>0, <3>3, <3>5, <3>6
    <2>3. CASE MarkPublished(q) \/ MarkFailed(q)
      <3>1. relayEvent[q] \in EventID
        BY <2>3 DEF MarkPublished, MarkFailed, TypeInv, RelaysHoldEvents
      <3>2. \/ UNCHANGED outbox
            \/ outbox' = Released(relayEvent[q], "pending")
            \/ outbox' = Released(relayEvent[q], "published") /\ relayPc[q] = "published"
        BY <2>3 DEF MarkPublished, MarkFailed, FinishClaim
      <3>3. Goal1
        BY <1>t, <3>1, <3>2, RelockedRow DEF Released
      <3>4. Continue(q) \/ Return(q)
        BY <2>3 DEF MarkPublished, MarkFailed, FinishClaim
      <3>5. \A r \in Relay : Goal2(r)
        BY <1>t, <3>4 DEF Continue, Return
      <3> QED
        BY <3>3, <3>5
    <2>4. CASE RelayCrash(q)
      BY <1>0, <1>t, <2>4 DEF RelayCrash, Return
    <2> QED
      BY <1>7, <2>1, <2>2, <2>3, <2>4 DEF RelayAction, RelayFailure, RelayStep
  <1>8. Goal1 /\ \A r \in Relay : Goal2(r)
    BY <1>3, <1>4, <1>5, <1>6, <1>7 DEF Next
  <1> QED
    BY <1>8

\* A worker gets to its acknowledgement only when the entry's event needs
\* no more work.
LEMMA NextAcksSettled ==
    ASSUME TypeInv, EventInv, MessageInv, AcksSettled, [Next]_vars
    PROVE  AcksSettled'
  <1> SUFFICES ASSUME NEW w \in Worker, workerPc'[w] = "ack", Parses(task[w].msg)'
               PROVE  Settled(stream[task[w].msg].outbox_event_id)'
    BY DEF AcksSettled
  <1>1. CASE LoadForDelivery(w)
    <2>1. PICK m \in MessageID :
            /\ task'[w].msg = m
            /\ \/ ~Parses(m)
               \/ /\ Parses(m)
                  /\ notifications[stream[m].notification_id].status \in Terminal
      BY <1>1, LoadedEntry
    <2>2. stream' = stream /\ UNCHANGED <<notifications, outbox>>
      BY <1>1, LoadedEntry DEF LoadForDelivery, storeVars
    <2>3. Parses(m)
      BY <2>1, <2>2 DEF Parses
    <2>4. stream[m].notification_id = outbox[stream[m].outbox_event_id].notification_id
      BY <2>3 DEF MessageInv, MessageOrigin
    <2> QED
      BY <2>1, <2>2, <2>3, <2>4 DEF Settled
  <1>2. CASE ~LoadForDelivery(w)
    <2> DEFINE m == task[w].msg
               e == stream[m].outbox_event_id
    <2>1. /\ workerPc[w] # "loop" /\ task'[w] = task[w]
          /\ workerPc[w] = "ack" \/ Recorded(w)
      BY <1>2, HandsEffect
    <2>2. m \in MessageID /\ stream[m].state # Absent
      BY <2>1 DEF MessageInv, HeldEntries, TypeInv, WorkersHoldTasks
    <2>3. stream'[m].outbox_event_id = e /\ Parses(m)
      BY <2>1, <2>2, EntriesStay DEF SameEntry, Parses
    <2>4. /\ e \in EventID /\ outbox[e].status # Absent
          /\ task[w].id = outbox[e].notification_id
      BY <2>1, <2>2, <2>3, EntryRow DEF MessageInv, MessageOrigin, HeldEntries
    <2>5. CASE workerPc[w] = "ack"
      BY <2>1, <2>3, <2>4, <2>5, SettledStays DEF AcksSettled
    <2>6. CASE Recorded(w)
      <3>1. CASE notifications'[task[w].id].status \in Terminal
        BY <2>1, <2>3, <2>4, <3>1, EventsStay DEF Settled
      <3>2. CASE \E f \in EventID : InsertsEvent(f, task[w].id)
        BY <2>1, <2>3, <2>4, <3>2, InsertedSettles
      <3> QED
        BY <2>6, <3>1, <3>2, RecordedOutbox
    <2> QED
      BY <2>1, <2>5, <2>6
  <1> QED
    BY <1>1, <1>2

LEMMA InitWorkInv == Init => WorkInv
  BY DEF Init, StoreInit, RelayInit, WorkerInit, WorkInv, AcksSettled, PublishedCovered,
         PublishingCovered, Absent

\* A loss is never forgotten.
LEMMA LostStays ==
    ASSUME [Next]_vars, lost
    PROVE  lost'
  <1> USE DEF vars, storeVars, streamVars, relayVars, workerVars
  <1>1. CASE \E n \in Notification : Create(n) \/ Retry(n)
    BY <1>1 DEF Create, Retry
  <1>2. CASE \E r \in Relay : RelayAction(r) \/ RelayFailure(r)
    BY <1>2 DEF RelayAction, RelayFailure, RelayStep, RelayCrash, ClaimDue, Publish,
                MarkPublished, MarkFailed
  <1>3. CASE \E w \in Worker : WorkerAction(w) \/ WorkerFailure(w)
    BY <1>3 DEF WorkerAction, WorkerStep, WorkerFailure, ClaimPage, ReadPage,
                LoadForDelivery, StartDelivery, Deliver, RecordResult, Ack, PollError,
                LoadError, WorkerCrash
  <1>4. CASE \E e \in EventID : EventClock(e)
    BY <1>4 DEF EventClock, EventDue, LockExpires
  <1>5. CASE \E m \in MessageID : MessageClock(m)
    BY <1>5 DEF MessageClock, MessageIdle
  <1>6. CASE RedisFailure
    BY <1>6 DEF RedisFailure, ForeignMessage, RedisForgets
  <1> QED
    BY <1>1, <1>2, <1>3, <1>4, <1>5, <1>6 DEF Next

LEMMA NextWorkInv ==
    ASSUME TypeInv, EventInv, MessageInv, WorkInv, [Next]_vars
    PROVE  WorkInv'
  <1>1. AcksSettled'
    BY NextAcksSettled DEF WorkInv
  <1>2. ASSUME ~lost'
        PROVE  PublishedCovered' /\ PublishingCovered'
    <2>1. AcksSettled /\ PublishedCovered /\ PublishingCovered
      BY <1>2, LostStays DEF WorkInv
    <2>2. \A r \in Relay : relayPc[r] = "published" =>
            /\ relayEvent[r] \in EventID
            /\ outbox[relayEvent[r]].status # Absent
            /\ Covered(relayEvent[r])
      BY <2>1 DEF PublishingCovered, TypeInv, RelaysHoldEvents
    <2>3. ASSUME NEW e \in EventID, outbox'[e].status = "published"
          PROVE  Covered(e)'
      <3>1. outbox[e].status # Absent /\ Covered(e)
        BY <2>1, <2>2, <2>3, RelayEffect DEF PublishedCovered, Absent
      <3> QED
        BY <1>2, <2>1, <3>1, CoveredStays
    <2>4. ASSUME NEW r \in Relay, relayPc'[r] = "published"
          PROVE  outbox'[relayEvent'[r]].status # Absent /\ Covered(relayEvent[r])'
      <3>1. CASE relayPc[r] = "published" /\ relayEvent'[r] = relayEvent[r]
        <4>1. outbox'[relayEvent[r]].status # Absent
          BY <2>2, <3>1, EventsStay
        <4>2. \A e \in EventID : outbox[e].status # Absent /\ Covered(e) => Covered(e)'
          BY <1>2, <2>1, CoveredStays
        <4>3. relayEvent[r] \in EventID /\ outbox[relayEvent[r]].status # Absent
              /\ Covered(relayEvent[r])
          BY <2>2, <3>1
        <4>4. PICK e \in EventID : e = relayEvent[r] /\ Covered(e)'
          BY <4>2, <4>3
        <4> QED
          BY <3>1, <4>1, <4>4 DEF Covered, Settled, HasEntry
      <3>2. CASE /\ relayEvent'[r] \in EventID
                 /\ outbox[relayEvent'[r]].status # Absent
                 /\ HasEntry(relayEvent[r])'
        BY <3>2, EventsStay DEF Covered
      <3> QED
        BY <2>4, <3>1, <3>2, RelayEffect
    <2> QED
      BY <2>3, <2>4 DEF PublishedCovered, PublishingCovered
  <1> QED
    BY <1>1, <1>2 DEF WorkInv

LEMMA WorkInvHolds == Spec => []WorkInv
  BY InitWorkInv, NextWorkInv, TypeInvHolds, EventInvHolds, MessageInvHolds, PTL DEF Spec

\* Unless Redis forgets an entry, a notification that is not finished has
\* its latest event in the outbox or in the stream, whatever crashes, is
\* duplicated or loses its answer.
THEOREM NoLostWorkHolds == Spec => []NoLostWork
  <1>1. TypeInv /\ EventInv /\ WorkInv => NoLostWork
    <2> SUFFICES ASSUME TypeInv, EventInv, WorkInv, ~lost, NEW n \in Notification,
                        notifications[n].status \notin Terminal \cup {Absent}
                 PROVE  \E e \in EventID : LatestEvent(n, e) /\ InPipeline(e)
      BY DEF NoLostWork
    <2>1. PICK e \in EventID : LatestEvent(n, e)
      BY DEF EventInv, HasLatest
    <2>2. outbox[e].notification_id = n
      BY <2>1 DEF LatestEvent
    <2>3. outbox[e].status # Absent
      BY <2>2, StoreAssumption DEF EventInv, AbsentEvents
    <2>4. outbox[e].status \in {Absent, "pending", "publishing", "published"}
      BY DEF TypeInv, TypeOK, StoreTypeOK, OutboxRow
    <2>5. CASE outbox[e].status = "published"
      <3>1. Covered(e) /\ ~Settled(e)
        BY <2>1, <2>2, <2>5 DEF WorkInv, PublishedCovered, Settled
      <3>2. InPipeline(e)
        BY <3>1 DEF Covered, HasEntry, InPipeline
      <3> QED
        BY <2>1, <3>2
    <2>6. CASE outbox[e].status \in {"pending", "publishing"}
      BY <2>1, <2>6 DEF InPipeline
    <2> QED
      BY <2>3, <2>4, <2>5, <2>6
  <1> QED
    BY <1>1, WorkInvHolds, EventInvHolds, TypeInvHolds, PTL

-----------------------------------------------------------------------------
(***************************************************************************)
(* What reaches the stream: a published event is in it, and more than once *)
(* only for failures.                                                      *)
(***************************************************************************)
\* The entries of an event, acknowledged or not.
Sent(e) == {m \in MessageID : stream[m].outbox_event_id = e}

\* An id that XADD has not given yet has no event, and a relay handles one
\* event at a time.
FreshEntries == \A m \in MessageID : stream[m].state = Absent => ~Parses(m)

OneEventInHand ==
    \A r \in Relay :
        /\ relayEvent[r] \notin claimed[r]
        /\ relayPc[r] = "loop" => relayEvent[r] = NoEvent

\* A relay about to finish a row as published has put its event there.
PublishingReached == \A r \in Relay : relayPc[r] = "published" => Sent(relayEvent[r]) # {}

ReachInv == FreshEntries /\ OneEventInHand /\ PublishedReachedStream /\ PublishingReached

\* While no claim expires in a relay's hands, what a relay holds it owns.
ClaimsHeld ==
    \A r \in Relay : \A e \in EventID :
        Holds(r, e) =>
            /\ OwnsClaim(r, e) /\ ~outbox[e].lock_expired
            /\ \A q \in Relay : Holds(q, e) => q = r

\* The one append that needs no failure was made.
Done(e) ==
    \/ outbox[e].status = "published"
    \/ \E r \in Relay : relayPc[r] = "published" /\ relayEvent[r] = e

Allowed(e) == IF Done(e) THEN faults + 1 ELSE faults

SentCounted == \A e \in EventID : Cardinality(Sent(e)) <= Allowed(e)

OnceInv == PromptRelays => ClaimsHeld /\ SentCounted

\* The entries of events only become more, and only by an append.
LEMMA SentEffect ==
    ASSUME TypeInv, FreshEntries, [Next]_vars, NEW e \in EventID
    PROVE  \/ Sent(e)' = Sent(e)
           \/ \E m \in MessageID :
                /\ Appends(m) /\ stream'[m].outbox_event_id = e
                /\ m \notin Sent(e) /\ Sent(e)' = Sent(e) \cup {m}
  <1>1. CASE \A m \in MessageID : SameEntry(m)
    BY <1>1 DEF Sent, SameEntry
  <1>2. ASSUME NEW m \in MessageID, Appends(m)
        PROVE  \/ Sent(e)' = Sent(e)
               \/ /\ stream'[m].outbox_event_id = e
                  /\ m \notin Sent(e) /\ Sent(e)' = Sent(e) \cup {m}
    <2>1. m \notin Sent(e)
      BY <1>2 DEF Appends, NextMessage, FreshEntries, Parses, Sent, EventID, NoEvent
    <2>2. \A x \in MessageID \ {m} : stream'[x] = stream[x]
      BY <1>2 DEF Appends
    <2>3. \A x \in MessageID : x \in Sent(e)' <=> x \in Sent(e) \/ (x = m /\ stream'[m].outbox_event_id = e)
      BY <2>1, <2>2 DEF Sent
    <2>4. Sent(e) \subseteq MessageID /\ Sent(e)' \subseteq MessageID
      BY DEF Sent
    <2> QED
      BY <2>1, <2>3, <2>4
  <1> QED
    BY <1>1, <1>2, StreamEffect

LEMMA NextFreshEntries ==
    ASSUME TypeInv, FreshEntries, [Next]_vars
    PROVE  FreshEntries'
  <1>1. CASE \A m \in MessageID : SameEntry(m)
    BY <1>1 DEF FreshEntries, SameEntry, Parses
  <1>2. ASSUME NEW m \in MessageID, Appends(m) PROVE FreshEntries'
    BY <1>2 DEF FreshEntries, Appends, Parses, Absent
  <1> QED
    BY <1>1, <1>2, StreamEffect

\* The steps of other processes leave a relay alone.
LEMMA RelaysAlone ==
    ASSUME [Next]_vars
    PROVE  \/ UNCHANGED relayVars
           \/ \E r \in Relay : RelayAction(r) \/ RelayFailure(r)
  <1> USE DEF vars, relayVars
  <1>1. CASE \E n \in Notification : Create(n) \/ Retry(n)
    BY <1>1 DEF Create, Retry
  <1>2. CASE \E w \in Worker : WorkerAction(w) \/ WorkerFailure(w)
    BY <1>2 DEF WorkerAction, WorkerFailure
  <1>3. CASE \E e \in EventID : EventClock(e)
    BY <1>3 DEF EventClock, EventDue, LockExpires
  <1>4. CASE RedisFailure \/ \E m \in MessageID : MessageClock(m)
    BY <1>4 DEF RedisFailure, MessageClock
  <1> QED
    BY <1>1, <1>2, <1>3, <1>4 DEF Next

LEMMA NextOneEventInHand ==
    ASSUME TypeInv, OneEventInHand, [Next]_vars
    PROVE  OneEventInHand'
  <1>t. /\ relayPc \in [Relay -> {"loop", "published", "failed"}]
        /\ claimed \in [Relay -> SUBSET EventID]
        /\ relayEvent \in [Relay -> EventID \cup {NoEvent}]
    BY DEF TypeInv, TypeOK, RelayTypeOK
  <1>0. NoEvent \notin EventID
    BY DEF NoEvent, EventID
  <1>1. CASE UNCHANGED relayVars
    BY <1>1 DEF relayVars, OneEventInHand
  <1>2. ASSUME NEW q \in Relay, RelayAction(q) \/ RelayFailure(q)
        PROVE  OneEventInHand'
    <2>1. CASE ClaimDue(q)
      <3>1. PICK page \in SUBSET EventID : claimed' = [claimed EXCEPT ![q] = page] \/ UNCHANGED claimed
        BY <2>1 DEF ClaimDue, ClaimPages
      <3> QED
        BY <1>t, <1>0, <2>1, <3>1 DEF ClaimDue, OneEventInHand
    <2>2. CASE Publish(q)
      <3>1. PICK e \in claimed[q] :
              /\ relayEvent' = [relayEvent EXCEPT ![q] = e]
              /\ claimed' = [claimed EXCEPT ![q] = @ \ {e}]
              /\ \/ relayPc' = [relayPc EXCEPT ![q] = "published"]
                 \/ relayPc' = [relayPc EXCEPT ![q] = "failed"]
        BY <2>2, Zenon DEF Publish
      <3> QED
        BY <1>t, <3>1 DEF OneEventInHand
    <2>3. CASE Continue(q) \/ Return(q)
      BY <1>t, <1>0, <2>3 DEF Continue, Return, OneEventInHand
    <2> QED
      BY <1>2, <2>1, <2>2, <2>3
         DEF RelayAction, RelayFailure, RelayStep, RelayCrash, MarkPublished, MarkFailed, FinishClaim
  <1> QED
    BY <1>1, <1>2, RelaysAlone

LEMMA NextReachInv ==
    ASSUME TypeInv, ReachInv, [Next]_vars
    PROVE  ReachInv'
  <1>1. ASSUME NEW e \in EventID, Sent(e) # {} PROVE Sent(e)' # {}
    BY <1>1, SentEffect DEF ReachInv
  <1>2. ASSUME NEW e \in EventID, outbox'[e].status = "published" PROVE Sent(e)' # {}
    <2>1. CASE outbox[e].status = "published"
      BY <1>1, <2>1 DEF ReachInv, PublishedReachedStream, Sent
    <2>2. ASSUME NEW r \in Relay, relayPc[r] = "published", relayEvent[r] = e PROVE Sent(e)' # {}
      BY <1>1, <2>2 DEF ReachInv, PublishingReached
    <2> QED
      BY <1>2, <2>1, <2>2, RelayEffect
  <1>3. ASSUME NEW r \in Relay, relayPc'[r] = "published" PROVE Sent(relayEvent[r])' # {}
    <2>1. CASE relayPc[r] = "published" /\ relayEvent'[r] = relayEvent[r]
      <3>1. PICK e \in EventID : e = relayEvent[r]
        BY <2>1 DEF TypeInv, RelaysHoldEvents
      <3>2. Sent(e)' # {}
        BY <1>1, <2>1, <3>1 DEF ReachInv, PublishingReached
      <3> QED
        BY <2>1, <3>1, <3>2 DEF Sent
    <2>2. CASE HasEntry(relayEvent[r])'
      BY <2>2 DEF HasEntry, Sent
    <2> QED
      BY <1>3, <2>1, <2>2, RelayEffect
  <1>4. FreshEntries' /\ OneEventInHand'
    BY NextFreshEntries, NextOneEventInHand DEF ReachInv
  <1>5. PublishedReachedStream'
    BY <1>2 DEF PublishedReachedStream, Sent
  <1>6. PublishingReached'
    BY <1>3 DEF PublishingReached
  <1> QED
    BY <1>4, <1>5, <1>6 DEF ReachInv

LEMMA InitReachInv == Init => ReachInv
  BY DEF Init, StoreInit, StreamInit, RelayInit, ReachInv, FreshEntries, OneEventInHand,
         PublishedReachedStream, PublishingReached, Parses, Absent, NoEvent

LEMMA ReachInvHolds == Spec => []ReachInv
  BY InitReachInv, NextReachInv, TypeInvHolds, PTL DEF Spec

\* Whoever finishes a row, and whichever claims two relays of one host take
\* from each other: a row is published only if XADD took its event.
THEOREM PublishedReachedStreamHolds == Spec => []PublishedReachedStream
  <1>1. ReachInv => PublishedReachedStream
    BY DEF ReachInv
  <1> QED
    BY <1>1, ReachInvHolds, PTL

-----------------------------------------------------------------------------
\* Failures are only counted up, one by one.
LEMMA FaultsGrow ==
    ASSUME TypeInv, [Next]_vars
    PROVE  faults \in Nat /\ faults' \in {faults, faults + 1}
  <1> USE DEF vars, Fault, NoFault
  <1>0. faults \in Nat
    BY FaultAssumption DEF TypeInv, TypeOK
  <1>1. CASE \E n \in Notification : Create(n) \/ Retry(n)
    BY <1>0, <1>1 DEF Create, Retry
  <1>2. CASE \E r \in Relay : RelayAction(r) \/ RelayFailure(r)
    BY <1>0, <1>2 DEF RelayAction, RelayFailure, RelayStep, RelayCrash, ClaimDue, Publish,
                MarkPublished, MarkFailed, FinishClaim
  <1>3. CASE \E w \in Worker : WorkerAction(w) \/ WorkerFailure(w)
    BY <1>0, <1>3 DEF WorkerAction, WorkerStep, WorkerFailure, ClaimPage, ReadPage,
                LoadForDelivery, StartDelivery, MarkDelivering, AfterCommit, AfterRollback,
                Deliver, RecordResult, Ack, PollError, LoadError, WorkerCrash
  <1>4. CASE \E e \in EventID : EventClock(e)
    BY <1>0, <1>4 DEF EventClock, EventDue, LockExpires
  <1>5. CASE \E m \in MessageID : MessageClock(m)
    BY <1>0, <1>5 DEF MessageClock, MessageIdle
  <1>6. CASE RedisFailure
    BY <1>0, <1>6 DEF RedisFailure, ForeignMessage, RedisForgets
  <1>7. CASE UNCHANGED vars
    BY <1>0, <1>7
  <1> QED
    BY <1>0, <1>1, <1>2, <1>3, <1>4, <1>5, <1>6, <1>7 DEF Next

LEMMA SentFinite ==
    ASSUME NEW e
    PROVE  IsFiniteSet(Sent(e)) /\ Cardinality(Sent(e)) \in Nat
  <1>1. IsFiniteSet(MessageID)
    BY StreamAssumption, FS_Interval DEF MessageID
  <1>2. Sent(e) \subseteq MessageID
    BY DEF Sent
  <1> QED
    BY <1>1, <1>2, FS_Subset, FS_CardinalityType

\* An event whose entries and whose allowance are kept.
LEMMA CountKept ==
    ASSUME TypeInv, SentCounted, [Next]_vars, NEW e \in EventID, Sent(e)' = Sent(e),
           Done(e) => Done(e)' \/ faults' = faults + 1
    PROVE  (Cardinality(Sent(e)) <= Allowed(e))'
  <1>1. Cardinality(Sent(e)) \in Nat /\ Cardinality(Sent(e)) <= Allowed(e)
    BY SentFinite DEF SentCounted
  <1>2. Allowed(e) <= Allowed(e)'
    BY FaultsGrow DEF Allowed
  <1>3. Allowed(e) \in Nat /\ Allowed(e)' \in Nat
    BY FaultsGrow DEF Allowed
  <1>4. Cardinality(Sent(e))' = Cardinality(Sent(e))
    OBVIOUS
  <1> QED
    BY <1>1, <1>2, <1>3, <1>4

\* One more entry, which was still to come or follows a failure.
LEMMA CountGrows ==
    ASSUME TypeInv, SentCounted, [Next]_vars, NEW e \in EventID, NEW m,
           m \notin Sent(e), Sent(e)' = Sent(e) \cup {m},
           ~Done(e), Done(e)' \/ faults' = faults + 1
    PROVE  (Cardinality(Sent(e)) <= Allowed(e))'
  <1>1. Cardinality(Sent(e)) \in Nat /\ Cardinality(Sent(e)) <= faults
    BY SentFinite DEF SentCounted, Allowed
  <1>2. Cardinality(Sent(e) \cup {m}) = Cardinality(Sent(e)) + 1
    BY SentFinite, FS_AddElement
  <1>3. faults \in Nat /\ Allowed(e)' >= faults + 1
    BY FaultsGrow DEF Allowed
  <1>4. Cardinality(Sent(e))' = Cardinality(Sent(e)) + 1
    BY <1>2
  <1>5. Allowed(e)' \in Nat
    BY FaultsGrow DEF Allowed
  <1> QED
    BY <1>1, <1>3, <1>4, <1>5

\* A row that a relay holds, or that is published, is left as it is by
\* everyone but relays and, in a prompt relay's hands, by the clock.
LEMMA OthersLeaveClaims ==
    ASSUME TypeInv, [Next]_vars, PromptRelays, NEW e \in EventID,
           outbox[e].status \in {"publishing", "published"},
           ~\E r \in Relay : RelayAction(r) \/ RelayFailure(r)
    PROVE  /\ outbox'[e].status = outbox[e].status
           /\ outbox'[e].locked_by = outbox[e].locked_by
           /\ (\E r \in Relay : Holds(r, e)) => outbox'[e].lock_expired = outbox[e].lock_expired
  <1> USE DEF vars, storeVars, streamVars, relayVars, workerVars
  <1>t. outbox \in [EventID -> OutboxRow]
    BY DEF TypeInv, TypeOK, StoreTypeOK
  <1>1. ASSUME NEW f \in EventID, NEW n, InsertsEvent(f, n) PROVE outbox'[e] = outbox[e]
    BY <1>1 DEF InsertsEvent, NextEvent, Absent
  <1>2. CASE UNCHANGED outbox
    BY <1>2
  <1>3. CASE \E n \in Notification : Create(n) \/ Retry(n)
    BY <1>1, <1>3, ApiInserts
  <1>4. ASSUME NEW w \in Worker, WorkerAction(w) \/ WorkerFailure(w)
        PROVE  UNCHANGED outbox \/ Recorded(w)
    BY <1>4 DEF WorkerAction, WorkerFailure, WorkerStep, ClaimPage, ReadPage, LoadForDelivery,
         StartDelivery, MarkDelivering, AfterRollback, Deliver, RecordResult, AfterCommit,
         Recorded, Ack, PollError, LoadError, WorkerCrash
  <1>5. ASSUME NEW w \in Worker, Recorded(w) PROVE outbox'[e] = outbox[e]
    BY <1>1, <1>5, RecordedOutbox
  <1>6. ASSUME NEW f \in EventID, EventDue(f)
        PROVE  /\ outbox'[e].status = outbox[e].status
               /\ outbox'[e].locked_by = outbox[e].locked_by
               /\ outbox'[e].lock_expired = outbox[e].lock_expired
    BY <1>t, <1>6 DEF EventDue, OutboxRow
  <1>7. ASSUME NEW f \in EventID, LockExpires(f)
        PROVE  /\ outbox'[e].status = outbox[e].status
               /\ outbox'[e].locked_by = outbox[e].locked_by
               /\ (\E r \in Relay : Holds(r, e)) => outbox'[e].lock_expired = outbox[e].lock_expired
    <2>1. outbox' = [outbox EXCEPT ![f].lock_expired = TRUE] /\ \A r \in Relay : ~Holds(r, f)
      BY <1>7 DEF LockExpires
    <2> QED
      BY <1>t, <2>1 DEF OutboxRow
  <1>8. CASE UNCHANGED vars \/ RedisFailure \/ \E m \in MessageID : MessageClock(m)
    BY <1>2, <1>8 DEF RedisFailure, MessageClock, MessageIdle
  <1> QED
    BY <1>2, <1>3, <1>4, <1>5, <1>6, <1>7, <1>8 DEF Next, EventClock

\* Nothing but a relay puts an event into the stream.
LEMMA OnlyRelaysSend ==
    ASSUME TypeInv, FreshEntries, [Next]_vars, NEW e \in EventID,
           ~\E r \in Relay : RelayAction(r) \/ RelayFailure(r)
    PROVE  Sent(e)' = Sent(e)
  <1> USE DEF vars, storeVars, streamVars, relayVars, workerVars
  <1>t. stream \in [MessageID -> Message]
    BY DEF TypeInv, TypeOK, StreamTypeOK
  <1> SUFFICES ASSUME NEW m \in MessageID
               PROVE  stream'[m].outbox_event_id \in {stream[m].outbox_event_id, NoEvent}
    BY SentEffect DEF Sent, EventID, NoEvent
  <1>0. CASE UNCHANGED stream
    BY <1>0
  <1>1. CASE \E n \in Notification : Create(n) \/ Retry(n)
    BY <1>0, <1>1 DEF Create, Retry
  <1>2. ASSUME NEW w \in Worker, WorkerAction(w) \/ WorkerFailure(w)
        PROVE  stream'[m].outbox_event_id = stream[m].outbox_event_id
    <2>1. \/ UNCHANGED stream
          \/ \E page : stream' = Delivered(page)
          \/ stream' = Acked(task[w].msg)
      BY <1>2 DEF WorkerAction, WorkerStep, WorkerFailure, ClaimPage, ReadPage, LoadForDelivery,
           StartDelivery, Deliver, RecordResult, Ack, PollError, LoadError, WorkerCrash
    <2>2. ASSUME NEW page, stream' = Delivered(page)
          PROVE  stream'[m].outbox_event_id = stream[m].outbox_event_id
      BY <1>t, <2>2 DEF Delivered, Message
    <2>3. CASE stream' = Acked(task[w].msg)
      BY <1>t, <2>3 DEF Acked, Message
    <2> QED
      BY <2>1, <2>2, <2>3
  <1>3. CASE \E f \in EventID : EventClock(f)
    BY <1>0, <1>3 DEF EventClock, EventDue, LockExpires
  <1>4. CASE \E x \in MessageID : MessageClock(x)
    BY <1>t, <1>4 DEF MessageClock, MessageIdle, Message
  <1>5. CASE ForeignMessage
    <2>1. PICK x \in MessageID :
            stream' = [stream EXCEPT ![x] = [ outbox_event_id |-> NoEvent, notification_id |-> "none",
                                              state |-> "new", idle |-> FALSE ]]
      BY <1>5 DEF ForeignMessage, XAdd
    <2> QED
      BY <1>t, <2>1
  <1>6. CASE \E x \in MessageID : RedisForgets(x)
    BY <1>t, <1>6 DEF RedisForgets, Message
  <1> QED
    BY <1>0, <1>1, <1>2, <1>3, <1>4, <1>5, <1>6 DEF Next, RedisFailure

\* A relay that holds an event without having published it is the only one
\* that could have.
LEMMA HeldNotDone ==
    ASSUME TypeInv, ClaimsHeld, NEW r \in Relay, NEW e \in EventID, Holds(r, e),
           relayPc[r] # "published"
    PROVE  ~Done(e)
  <1>1. outbox[e].status = "publishing"
    BY DEF ClaimsHeld, OwnsClaim
  <1>2. \A q \in Relay : relayEvent[q] = e => q = r
    BY DEF ClaimsHeld, Holds
  <1> QED
    BY <1>1, <1>2 DEF Done

LEMMA ClaimDueOnce ==
    ASSUME TypeInv, ReachInv, ClaimsHeld, SentCounted, [Next]_vars, NEW q \in Relay, ClaimDue(q)
    PROVE  ClaimsHeld' /\ SentCounted'
  <1>t. /\ claimed \in [Relay -> SUBSET EventID] /\ outbox \in [EventID -> OutboxRow]
    BY DEF TypeInv, TypeOK, RelayTypeOK, StoreTypeOK
  <1>1. PICK page \in ClaimPages \ {{}} :
          /\ outbox' = [e \in EventID |->
                IF e \in page THEN Relocked(outbox[e], "publishing", Locker[q])
                             ELSE outbox[e]]
          /\ claimed' = [claimed EXCEPT ![q] = page] \/ UNCHANGED claimed
    BY DEF ClaimDue
  <1>2. UNCHANGED <<relayPc, relayEvent, stream>>
    BY DEF ClaimDue
  <1>3. page \subseteq EventID /\ \A e \in page : Claimable(e)
    BY DEF ClaimPages
  <1>4. \A e \in page : \A r \in Relay : ~Holds(r, e)
    BY <1>3 DEF Claimable, ClaimsHeld, OwnsClaim
  <1>5. \A e \in EventID : \A r \in Relay : Holds(r, e)' => (r = q /\ e \in page) \/ Holds(r, e)
    BY <1>t, <1>1, <1>2 DEF Holds
  <1>6. \A e \in EventID : e \notin page => outbox'[e] = outbox[e]
    BY <1>1
  <1>7. \A e \in page : /\ outbox'[e].status = "publishing" /\ outbox'[e].locked_by = Locker[q]
                        /\ ~outbox'[e].lock_expired
    <2> TAKE e \in page
    <2>1. outbox[e] \in OutboxRow /\ outbox'[e] = Relocked(outbox[e], "publishing", Locker[q])
      BY <1>t, <1>1, <1>3
    <2> QED
      BY <2>1 DEF Relocked, OutboxRow
  <1>8. ClaimsHeld'
    <2> SUFFICES ASSUME NEW r \in Relay, NEW e \in EventID, Holds(r, e)'
                 PROVE  /\ OwnsClaim(r, e)' /\ ~outbox'[e].lock_expired
                        /\ \A p \in Relay : Holds(p, e)' => p = r
      BY DEF ClaimsHeld
    <2>1. CASE e \in page
      BY <1>4, <1>5, <1>7, <2>1 DEF OwnsClaim
    <2>2. CASE e \notin page
      BY <1>5, <1>6, <2>2 DEF OwnsClaim, ClaimsHeld
    <2> QED
      BY <2>1, <2>2
  <1>9. ASSUME NEW e \in EventID PROVE (Cardinality(Sent(e)) <= Allowed(e))'
    <2>1. Sent(e)' = Sent(e)
      BY <1>2 DEF Sent
    <2>2. outbox[e].status = "published" => e \notin page
      BY <1>3 DEF Claimable
    <2>3. Done(e) => Done(e)'
      BY <1>2, <1>6, <2>2 DEF Done
    <2> QED
      BY <2>1, <2>3, CountKept
  <1> QED
    BY <1>8, <1>9 DEF SentCounted

LEMMA PublishOnce ==
    ASSUME TypeInv, ReachInv, ClaimsHeld, SentCounted, [Next]_vars, NEW q \in Relay, Publish(q)
    PROVE  ClaimsHeld' /\ SentCounted'
  <1>t. /\ relayPc \in [Relay -> {"loop", "published", "failed"}]
        /\ claimed \in [Relay -> SUBSET EventID]
        /\ relayEvent \in [Relay -> EventID \cup {NoEvent}]
        /\ stream \in [MessageID -> Message]
    BY DEF TypeInv, TypeOK, RelayTypeOK, StreamTypeOK
  <1>1. relayPc[q] = "loop" /\ UNCHANGED outbox
    BY DEF Publish, storeVars
  <1>2. PICK a \in claimed[q] :
          /\ relayEvent' = [relayEvent EXCEPT ![q] = a]
          /\ claimed' = [claimed EXCEPT ![q] = @ \ {a}]
          /\ PublishEvent(a) \/ UNCHANGED stream
          /\ \/ relayPc' = [relayPc EXCEPT ![q] = "published"]
             \/ relayPc' = [relayPc EXCEPT ![q] = "failed"] /\ faults' = faults + 1
    BY DEF Publish, Fault
  <1>3. a \in EventID /\ Holds(q, a)
    BY <1>t DEF Holds
  <1>4. \A e \in EventID : \A r \in Relay : Holds(r, e)' => Holds(r, e)
    BY <1>t, <1>2 DEF Holds
  <1>5. ClaimsHeld'
    BY <1>1, <1>4 DEF ClaimsHeld, OwnsClaim
  <1>6. \A e \in EventID : Done(e) => Done(e)'
    BY <1>t, <1>1, <1>2 DEF Done
  <1>7. ASSUME NEW e \in EventID, e # a PROVE Sent(e)' = Sent(e)
    <2>1. \A m \in MessageID : stream'[m].outbox_event_id \in {stream[m].outbox_event_id, a}
      BY <1>t, <1>2 DEF PublishEvent, XAdd
    <2> QED
      BY <1>7, <2>1, SentEffect DEF Sent, ReachInv
  <1>8. ASSUME NEW e \in EventID PROVE (Cardinality(Sent(e)) <= Allowed(e))'
    <2>1. CASE Sent(e)' = Sent(e)
      BY <1>6, <2>1, CountKept
    <2>2. CASE Sent(e)' # Sent(e)
      <3>1. e = a
        BY <1>7, <2>2
      <3>2. PICK m \in MessageID : m \notin Sent(e) /\ Sent(e)' = Sent(e) \cup {m}
        BY <2>2, SentEffect DEF ReachInv
      <3>3. ~Done(e)
        BY <1>1, <1>3, <3>1, HeldNotDone
      <3>4. Done(e)' \/ faults' = faults + 1
        BY <1>t, <1>2, <3>1 DEF Done
      <3> QED
        BY <3>2, <3>3, <3>4, CountGrows
    <2> QED
      BY <2>1, <2>2
  <1> QED
    BY <1>5, <1>8 DEF SentCounted

\* A relay gives up the event in its hand, and with it perhaps its page.
LEMMA GivesUp ==
    ASSUME TypeInv, ReachInv, NEW q \in Relay, Continue(q) \/ Return(q)
    PROVE  /\ \A e \in EventID : \A r \in Relay :
                Holds(r, e)' => Holds(r, e) /\ ~(r = q /\ e = relayEvent[q])
           /\ \A r \in Relay \ {q} : relayPc'[r] = relayPc[r] /\ relayEvent'[r] = relayEvent[r]
  <1>1. /\ relayPc \in [Relay -> {"loop", "published", "failed"}]
        /\ claimed \in [Relay -> SUBSET EventID]
        /\ relayEvent \in [Relay -> EventID \cup {NoEvent}]
    BY DEF TypeInv, TypeOK, RelayTypeOK
  <1>2. NoEvent \notin EventID
    BY DEF NoEvent, EventID
  <1> QED
    BY <1>1, <1>2 DEF Continue, Return, Holds, ReachInv, OneEventInHand

LEMMA FinishOnce ==
    ASSUME TypeInv, ReachInv, ClaimsHeld, SentCounted, [Next]_vars, NEW q \in Relay,
           MarkPublished(q) \/ MarkFailed(q)
    PROVE  ClaimsHeld' /\ SentCounted'
  <1>t. outbox \in [EventID -> OutboxRow]
    BY DEF TypeInv, TypeOK, StoreTypeOK
  <1>1. PICK a \in EventID : a = relayEvent[q]
    BY DEF MarkPublished, MarkFailed, TypeInv, RelaysHoldEvents
  <1>2. Holds(q, a) /\ OwnsClaim(q, a)
    BY <1>1 DEF ClaimsHeld, Holds
  <1>3. UNCHANGED stream
    BY DEF MarkPublished, MarkFailed, streamVars
  <1>4. \/ relayPc[q] = "published" /\ outbox' = Released(a, "published")
        \/ relayPc[q] = "failed" /\ outbox' = Released(a, "pending")
        \/ UNCHANGED outbox /\ faults' = faults + 1
    BY <1>1, <1>2 DEF MarkPublished, MarkFailed, FinishClaim, Fault
  <1>5. Continue(q) \/ Return(q)
    BY DEF MarkPublished, MarkFailed, FinishClaim
  <1>6. \A e \in EventID : \A r \in Relay : Holds(r, e)' => Holds(r, e) /\ ~(r = q /\ e = a)
    BY <1>1, <1>5, GivesUp
  <1>7. \A e \in EventID \ {a} : outbox'[e] = outbox[e]
    BY <1>t, <1>4 DEF Released
  <1>8. ClaimsHeld'
    <2> SUFFICES ASSUME NEW r \in Relay, NEW e \in EventID, Holds(r, e)'
                 PROVE  /\ OwnsClaim(r, e)' /\ ~outbox'[e].lock_expired
                        /\ \A p \in Relay : Holds(p, e)' => p = r
      BY DEF ClaimsHeld
    <2>1. Holds(r, e) /\ e # a
      BY <1>2, <1>6 DEF ClaimsHeld
    <2> QED
      BY <1>6, <1>7, <2>1 DEF ClaimsHeld, OwnsClaim
  <1>9. ASSUME NEW e \in EventID PROVE (Cardinality(Sent(e)) <= Allowed(e))'
    <2>1. Sent(e)' = Sent(e)
      BY <1>3 DEF Sent
    <2>2. Done(e) => Done(e)' \/ faults' = faults + 1
      <3>1. CASE e # a
        <4>1. outbox'[e] = outbox[e]
          BY <1>7, <3>1
        <4>2. \A r \in Relay : relayEvent[r] = e =>
                relayPc'[r] = relayPc[r] /\ relayEvent'[r] = relayEvent[r]
          BY <1>1, <1>5, <3>1, GivesUp
        <4> QED
          BY <4>1, <4>2 DEF Done
      <3>2. CASE e = a /\ relayPc[q] = "published" /\ outbox' = Released(a, "published")
        <4>1. outbox[a] \in OutboxRow /\ outbox'[a] = Relocked(outbox[a], "published", "none")
          BY <1>t, <3>2 DEF Released
        <4>2. outbox'[e].status = "published"
          BY <3>2, <4>1 DEF Relocked, OutboxRow
        <4> QED
          BY <4>2 DEF Done
      <3>3. CASE e = a /\ relayPc[q] = "failed"
        BY <1>2, <3>3, HeldNotDone
      <3> QED
        BY <1>4, <3>1, <3>2, <3>3
    <2> QED
      BY <2>1, <2>2, CountKept
  <1> QED
    BY <1>8, <1>9 DEF SentCounted

LEMMA CrashOnce ==
    ASSUME TypeInv, ReachInv, ClaimsHeld, SentCounted, [Next]_vars, NEW q \in Relay, RelayCrash(q)
    PROVE  ClaimsHeld' /\ SentCounted'
  <1>1. Return(q) /\ faults' = faults + 1 /\ UNCHANGED <<outbox, stream>>
    BY DEF RelayCrash, Fault, storeVars, streamVars
  <1>2. ClaimsHeld'
    BY <1>1, GivesUp DEF ClaimsHeld, OwnsClaim
  <1>3. ASSUME NEW e \in EventID PROVE (Cardinality(Sent(e)) <= Allowed(e))'
    <2>1. Sent(e)' = Sent(e)
      BY <1>1 DEF Sent
    <2> QED
      BY <1>1, <2>1, CountKept
  <1> QED
    BY <1>2, <1>3 DEF SentCounted

LEMMA NextOnceInv ==
    ASSUME TypeInv, ReachInv, OnceInv, [Next]_vars
    PROVE  OnceInv'
  <1> SUFFICES ASSUME PromptRelays, ClaimsHeld, SentCounted
               PROVE  ClaimsHeld' /\ SentCounted'
    BY DEF OnceInv
  <1>1. ASSUME NEW q \in Relay, RelayAction(q) \/ RelayFailure(q)
        PROVE  ClaimsHeld' /\ SentCounted'
    BY <1>1, ClaimDueOnce, PublishOnce, FinishOnce, CrashOnce
       DEF RelayAction, RelayFailure, RelayStep
  <1>2. CASE ~\E r \in Relay : RelayAction(r) \/ RelayFailure(r)
    <2>1. UNCHANGED <<relayPc, claimed, relayEvent>>
      BY <1>2, RelaysAlone DEF relayVars
    <2>2. \A e \in EventID : \A r \in Relay : Holds(r, e)' <=> Holds(r, e)
      BY <2>1 DEF Holds
    <2>3. \A e \in EventID : (\E r \in Relay : Holds(r, e)) =>
            /\ outbox'[e].status = outbox[e].status
            /\ outbox'[e].locked_by = outbox[e].locked_by
            /\ outbox'[e].lock_expired = outbox[e].lock_expired
      BY <1>2, OthersLeaveClaims DEF ClaimsHeld, OwnsClaim
    <2>4. ClaimsHeld'
      BY <2>2, <2>3 DEF ClaimsHeld, OwnsClaim
    <2>5. ASSUME NEW e \in EventID PROVE (Cardinality(Sent(e)) <= Allowed(e))'
      <3>1. Sent(e)' = Sent(e)
        BY <1>2, OnlyRelaysSend DEF ReachInv
      <3>2. Done(e) => Done(e)'
        BY <1>2, <2>1, OthersLeaveClaims DEF Done
      <3> QED
        BY <3>1, <3>2, CountKept
    <2> QED
      BY <2>4, <2>5 DEF SentCounted
  <1> QED
    BY <1>1, <1>2

LEMMA InitOnceInv == Init => OnceInv
  <1> SUFFICES ASSUME Init PROVE ClaimsHeld /\ SentCounted
    BY DEF OnceInv
  <1>1. ClaimsHeld
    BY DEF Init, RelayInit, ClaimsHeld, Holds, NoEvent, EventID
  <1>2. ASSUME NEW e \in EventID PROVE Cardinality(Sent(e)) <= Allowed(e)
    <2>1. Sent(e) = {}
      BY DEF Init, StreamInit, Sent, NoEvent, EventID
    <2>2. Cardinality(Sent(e)) = 0
      BY <2>1, FS_EmptySet
    <2>3. faults = 0
      BY DEF Init
    <2> QED
      BY <2>2, <2>3 DEF Allowed
  <1> QED
    BY <1>1, <1>2 DEF SentCounted

LEMMA OnceInvHolds == Spec => []OnceInv
  BY InitOnceInv, NextOnceInv, TypeInvHolds, ReachInvHolds, PTL DEF Spec

\* However many relays claim and publish at once: as long as each finishes a
\* row before its claim expires, an event is in the stream once, and once
\* more at most for every failure.
THEOREM DuplicatesNeedFailuresHolds == Spec => []DuplicatesNeedFailures
  <1>1. TypeInv /\ OnceInv => DuplicatesNeedFailures
    <2> SUFFICES ASSUME TypeInv, OnceInv, PromptRelays, NEW e \in EventID
                 PROVE  Cardinality(Sent(e)) <= 1 + faults
      BY DEF DuplicatesNeedFailures, Sent
    <2>1. Cardinality(Sent(e)) <= Allowed(e) /\ Cardinality(Sent(e)) \in Nat
      BY SentFinite DEF OnceInv, SentCounted
    <2>2. faults \in Nat
      BY FaultAssumption DEF TypeInv, TypeOK
    <2> QED
      BY <2>1, <2>2 DEF Allowed
  <1> QED
    BY <1>1, OnceInvHolds, TypeInvHolds, PTL

-----------------------------------------------------------------------------
(***************************************************************************)
(* The service implements NotificationLifecycle: every step of the system  *)
(* moves at most one notification, by one step of its life.                *)
(***************************************************************************)

(***************************************************************************)
(* The invariants so far say that a worker which is recording for a        *)
(* notification the vendor took has the 2xx in hand; the mapping also      *)
(* needs that a worker with a 2xx in hand records for such a notification. *)
(***************************************************************************)
ResultInv ==
    \A w \in Worker :
        workerPc[w] = "record" /\ DeliverySucceeded(w) => task[w].id \in accepted

LEMMA InitResultInv == Init => ResultInv
  BY DEF Init, WorkerInit, ResultInv

LEMMA NextResultInv ==
    ASSUME TypeInv, ResultInv, [Next]_vars
    PROVE  ResultInv'
  <1> USE DEF ResultInv, DeliverySucceeded
  <1>1. CASE UNCHANGED deliveryVars
    BY <1>1 DEF deliveryVars, historyVars
  <1>2. ASSUME NEW n \in Notification, Create(n) \/ Retry(n)
        PROVE  ResultInv'
    <2>1. UNCHANGED <<workerPc, task, result, accepted>>
      BY <1>2, CreateRow, RetryRow DEF historyVars
    <2> QED
      BY <2>1
  <1>3. ASSUME NEW w \in Worker, Abandon(w)
        PROVE  ResultInv'
    BY <1>3, DropEffect DEF Abandon, historyVars
  <1>4. ASSUME NEW w \in Worker, LoadForDelivery(w)
        PROVE  ResultInv'
    BY <1>4, LoadEffect DEF historyVars
  <1>5. ASSUME NEW w \in Worker, Started(w) \/ Recorded(w)
        PROVE  ResultInv'
    <2>1. UNCHANGED accepted
      BY <1>5 DEF Started, Recorded, historyVars
    <2>2. CASE Drop(w)
      BY <2>1, <2>2, DropEffect
    <2>3. CASE (Goto(w, "deliver") \/ Goto(w, "ack")) /\ UNCHANGED <<task, result>>
      BY <2>1, <2>3, GotoEffect
    <2> QED
      BY <1>5, <2>2, <2>3 DEF Started, Recorded
  <1>6. ASSUME NEW w \in Worker, Deliver(w)
        PROVE  ResultInv'
    <2>1. PICK res \in AttemptResult :
            /\ result' = [result EXCEPT ![w] = res]
            /\ accepted' = IF ~res.Err /\ Is2xx(res.StatusCode)
                           THEN accepted \cup {task[w].id}
                           ELSE accepted
      BY <1>6 DEF Deliver
    <2>2. Goto(w, "record") /\ UNCHANGED task
      BY <1>6 DEF Deliver
    <2>3. /\ result'[w] = res
          /\ \A v \in Worker \ {w} : result'[v] = result[v]
      BY <2>1 DEF TypeInv, TypeOK, WorkerTypeOK
    <2>4. ASSUME NEW v \in Worker, workerPc'[v] = "record", DeliverySucceeded(v)'
          PROVE  task'[v].id \in accepted'
      <3>1. CASE v = w
        BY <2>1, <2>2, <2>3, <2>4, <3>1
      <3>2. CASE v # w
        BY <2>1, <2>2, <2>3, <2>4, <3>2, GotoEffect
      <3> QED
        BY <3>1, <3>2
    <2> QED
      BY <2>4
  <1> QED
    BY <1>1, <1>2, <1>3, <1>4, <1>5, <1>6, StepEffect

LEMMA ResultInvHolds == Spec => []ResultInv
  BY InitResultInv, NextResultInv, TypeInvHolds, PTL DEF Spec

-----------------------------------------------------------------------------
(***************************************************************************)
(* The mapped variables, when at most one notification's part of them      *)
(* changes.                                                                *)
(***************************************************************************)
LifeInv == TypeInv /\ DeliveryInv /\ CallsInv /\ BudgetInv /\ ResultInv

\* A step keeps what the mapping reads of n.
KeepsLife(n) ==
    /\ notifications'[n] = notifications[n]
    /\ attempts'[n] = attempts[n]
    /\ calls'[n] = calls[n]
    /\ n \in accepted' <=> n \in accepted

KeepsOthers(n) == \A o \in Notification \ {n} : KeepsLife(o)

LEMMA SameLife ==
    ASSUME NEW n \in Notification, KeepsLife(n)
    PROVE  LifeState(n)' = LifeState(n)
  BY DEF KeepsLife, LifeState, Delivering

LEMMA LifeMoves ==
    ASSUME NEW n \in Notification, KeepsOthers(n), NEW to, LifeState(n)' = to
    PROVE  /\ Life!Move(n, LifeState(n), to)
           /\ [o \in Notification |-> notifications'[o].max_attempts] =
                [[o \in Notification |-> notifications[o].max_attempts]
                    EXCEPT ![n] = notifications'[n].max_attempts]
           /\ [o \in Notification |-> notifications'[o].attempt_count] =
                [[o \in Notification |-> notifications[o].attempt_count]
                    EXCEPT ![n] = notifications'[n].attempt_count]
  <1>1. \A o \in Notification \ {n} : LifeState(o)' = LifeState(o)
    BY SameLife DEF KeepsOthers
  <1>2. \A o \in Notification \ {n} : notifications'[o] = notifications[o]
    BY DEF KeepsOthers, KeepsLife
  <1>3. [o \in Notification |-> LifeState(o)'] =
            [[o \in Notification |-> LifeState(o)] EXCEPT ![n] = to]
    BY <1>1
  <1>4. Life!Move(n, LifeState(n), to)
    BY <1>3 DEF Life!Move
  <1> QED
    BY <1>2, <1>4

LEMMA LifeInit == Init => Life!Init
  <1> SUFFICES ASSUME Init PROVE Life!Init
    OBVIOUS
  <1>1. \A n \in Notification : /\ LifeState(n) = "absent"
                                /\ notifications[n].max_attempts = 0
                                /\ notifications[n].attempt_count = 0
    BY DEF Init, StoreInit, LifeState, Absent
  <1> QED
    BY <1>1 DEF Life!Init

-----------------------------------------------------------------------------
(***************************************************************************)
(* Each action of the system, as a step of the one notification it moves.  *)
(***************************************************************************)
LEMMA CreateLife ==
    ASSUME LifeInv, NEW n \in Notification, Create(n)
    PROVE  Life!Accept(n)
  <1>1. /\ notifications[n].status = Absent
        /\ notifications'[n].status = "pending"
        /\ notifications'[n].attempt_count = 0
        /\ notifications'[n].max_attempts \in MaxAttempts
        /\ \A o \in Notification \ {n} : notifications'[o] = notifications[o]
        /\ UNCHANGED <<attempts, calls, accepted>>
    BY CreateRow DEF LifeInv, historyVars
  <1>2. KeepsOthers(n)
    BY <1>1 DEF KeepsOthers, KeepsLife
  <1>3. LifeState(n) = "absent" /\ LifeState(n)' = "waiting"
    BY <1>1 DEF LifeState, Absent
  <1> QED
    BY <1>1, <1>2, <1>3, LifeMoves DEF Life!Accept

LEMMA RetryLife ==
    ASSUME LifeInv, NEW n \in Notification, Retry(n)
    PROVE  Life!Requeue(n)
  <1>1. /\ notifications[n].status = "failed"
        /\ notifications'[n].status = "pending"
        /\ notifications'[n].attempt_count = 0
        /\ notifications'[n].max_attempts = notifications[n].max_attempts
        /\ \A o \in Notification \ {n} : notifications'[o] = notifications[o]
        /\ UNCHANGED <<attempts, calls, accepted>>
    BY RetryRow DEF LifeInv, historyVars
  <1>2. KeepsOthers(n)
    BY <1>1 DEF KeepsOthers, KeepsLife
  <1>3. LifeState(n) = "failed" /\ LifeState(n)' = "waiting"
    BY <1>1 DEF LifeState
  <1> QED
    BY <1>1, <1>2, <1>3, LifeMoves DEF Life!Requeue

LEMMA StartedLife ==
    ASSUME LifeInv, NEW w \in Worker, Started(w), NEW n, n = task[w].id
    PROVE  n \in Notification /\ Life!Begin(n)
  <1>1. /\ n \in Notification
        /\ notifications[n].status \in {"pending", "retrying"}
        /\ notifications'[n].status = "delivering"
        /\ notifications'[n].attempt_count = notifications[n].attempt_count
        /\ notifications'[n].max_attempts = notifications[n].max_attempts
        /\ \A o \in Notification \ {n} : notifications'[o] = notifications[o]
        /\ UNCHANGED attempts
    BY StartedRow DEF LifeInv
  <1>2. UNCHANGED <<calls, accepted>>
    BY DEF Started, historyVars
  <1>3. KeepsOthers(n)
    BY <1>1, <1>2 DEF KeepsOthers, KeepsLife
  <1>4. calls[n] = Len(attempts[n])
    BY <1>1 DEF LifeInv, CallsInv, CallsAudited
  <1>5. LifeState(n) = "waiting" /\ LifeState(n)' = "sending"
    BY <1>1, <1>2, <1>4 DEF LifeState, Delivering
  <1>6. notifications[n].attempt_count < notifications[n].max_attempts
    BY <1>1 DEF LifeInv, BudgetInv, AttemptBudget, Terminal, Absent
  <1> QED
    BY ZenonT(60), <1>1, <1>3, <1>5, <1>6, LifeMoves DEF Life!Begin

LEMMA DeliverLife ==
    ASSUME LifeInv, NEW w \in Worker, Deliver(w), NEW n, n = task[w].id
    PROVE  n \in Notification /\ Life!Send(n)
  <1>1. /\ workerPc[w] = "deliver"
        /\ calls' = [calls EXCEPT ![n] = @ + 1]
        /\ UNCHANGED <<notifications, attempts>>
        /\ accepted' \in {accepted, accepted \cup {n}}
    BY DEF Deliver, storeVars
  <1>2. /\ n \in Notification
        /\ InDelivery(w, n)
    BY <1>1 DEF LifeInv, TypeInv, WorkersHoldTasks, InDelivery
  <1>3. /\ notifications[n].status = "delivering"
        /\ n \notin accepted
    BY <1>1, <1>2 DEF LifeInv, DeliveryInv, SingleDelivery, AcceptedInv
  <1>4. /\ calls[n] = Len(attempts[n]) /\ calls[n] \in Nat
        /\ calls'[n] = calls[n] + 1
        /\ \A o \in Notification \ {n} : calls'[o] = calls[o]
    BY <1>1, <1>2 DEF LifeInv, CallsInv, CallStages, TypeInv, TypeOK, WorkerTypeOK
  <1>5. KeepsOthers(n)
    BY <1>1, <1>4 DEF KeepsOthers, KeepsLife
  <1>6. /\ LifeState(n) = "sending"
        /\ LifeState(n)' = "taken" \/ LifeState(n)' = "refused"
    BY <1>1, <1>3, <1>4 DEF LifeState, Delivering
  <1>7. ASSUME NEW to, LifeState(n)' = to
        PROVE  Life!Move(n, "sending", to)
    <2>1. Life!Move(n, LifeState(n), to)
      BY <1>2, <1>5, <1>7, LifeMoves
    <2> QED
      BY <1>6, <2>1
  <1>8. Life!Move(n, "sending", "taken") \/ Life!Move(n, "sending", "refused")
    BY <1>6, <1>7
  <1> QED
    BY <1>1, <1>2, <1>8 DEF Life!Send

LEMMA RecordedLife ==
    ASSUME LifeInv, NEW w \in Worker, Recorded(w), NEW n, n = task[w].id
    PROVE  n \in Notification /\ (Life!Succeed(n) \/ Life!Fail(n) \/ Life!Postpone(n))
  <1>1. /\ n \in Notification
        /\ notifications[n].status = "delivering"
        /\ notifications[n].attempt_count = task[w].Attempt
        /\ notifications'[n].attempt_count = task[w].Attempt + 1
        /\ notifications'[n].max_attempts = notifications[n].max_attempts
        /\ notifications'[n].status \in {"succeeded", "failed", "retrying"}
        /\ notifications'[n].status = "succeeded" <=> DeliverySucceeded(w)
        /\ notifications'[n].status = "retrying" => WillRetry(w)
        /\ attempts' = WithAttempt(n, task[w].Attempt + 1, notifications'[n].status)
        /\ \A o \in Notification \ {n} : notifications'[o] = notifications[o]
    BY RecordedRow DEF LifeInv
  <1>2. workerPc[w] = "record" /\ UNCHANGED <<calls, accepted>>
    BY DEF Recorded, historyVars
  <1>3. task[w].Attempt + 1 \in Nat
    BY DEF LifeInv, TypeInv, TypeOK, WorkerTypeOK, Task
  <1>4. \A o \in Notification \ {n} : attempts'[o] = attempts[o]
    BY <1>1, <1>3, AppendedTrail DEF LifeInv
  <1>5. KeepsOthers(n)
    BY <1>1, <1>2, <1>4 DEF KeepsOthers, KeepsLife
  <1>6. calls[n] # Len(attempts[n])
    <2>1. calls[n] = Len(attempts[n]) + 1 /\ Len(attempts[n]) \in Nat
      BY <1>1, <1>2 DEF LifeInv, CallsInv, CallStages, TypeInv, TypeOK, StoreTypeOK
    <2> QED
      BY <2>1
  <1>7. LifeState(n) = IF DeliverySucceeded(w) THEN "taken" ELSE "refused"
    <2>1. n \in accepted <=> DeliverySucceeded(w)
      BY <1>1, <1>2 DEF LifeInv, ResultInv, DeliveryInv, AcceptedInv, InDelivery
    <2> QED
      BY <1>1, <1>6, <2>1 DEF LifeState, Delivering
  <1>8. LifeState(n)' = IF notifications'[n].status = "retrying" THEN "waiting"
                        ELSE notifications'[n].status
    BY <1>1 DEF LifeState
  <1>9. notifications'[n].status = "retrying" =>
            notifications[n].attempt_count + 1 < notifications[n].max_attempts
    BY <1>1, <1>2, RetryBelowLimit DEF LifeInv, BudgetInv, TaskLimits
  <1>10. /\ Life!Move(n, LifeState(n), LifeState(n)')
         /\ Life!Recorded(n)
         /\ UNCHANGED [o \in Notification |-> notifications[o].max_attempts]
    <2>1. /\ Life!Move(n, LifeState(n), LifeState(n)')
          /\ [o \in Notification |-> notifications'[o].max_attempts] =
                [[o \in Notification |-> notifications[o].max_attempts]
                    EXCEPT ![n] = notifications'[n].max_attempts]
          /\ [o \in Notification |-> notifications'[o].attempt_count] =
                [[o \in Notification |-> notifications[o].attempt_count]
                    EXCEPT ![n] = notifications'[n].attempt_count]
      BY <1>1, <1>5, LifeMoves
    <2>2. Life!Recorded(n)
      BY <1>1, <2>1 DEF Life!Recorded
    <2>3. UNCHANGED [o \in Notification |-> notifications[o].max_attempts]
      BY <1>1, <2>1
    <2> QED
      BY <2>1, <2>2, <2>3
  <1>11. CASE notifications'[n].status = "succeeded"
    BY <1>1, <1>7, <1>8, <1>10, <1>11 DEF Life!Succeed
  <1>12. CASE notifications'[n].status = "failed"
    BY <1>1, <1>7, <1>8, <1>10, <1>12 DEF Life!Fail
  <1>13. CASE notifications'[n].status = "retrying"
    <2>1. LifeState(n) = "refused" /\ LifeState(n)' = "waiting"
      BY <1>1, <1>7, <1>8, <1>13
    <2>2. Life!Move(n, "refused", "waiting")
      BY <1>10, <2>1
    <2>3. notifications[n].attempt_count + 1 < notifications[n].max_attempts
      BY <1>9, <1>13
    <2> QED
      BY <1>1, <1>10, <2>2, <2>3 DEF Life!Postpone
  <1> QED
    BY <1>1, <1>11, <1>12, <1>13

\* A step that changes neither rows, trails nor calls is a stutter.
LEMMA LifeStutters ==
    ASSUME UNCHANGED <<notifications, attempts, historyVars>>
    PROVE  UNCHANGED Life!vars
  <1>1. \A n \in Notification : LifeState(n)' = LifeState(n)
    BY SameLife DEF KeepsLife, historyVars
  <1> QED
    BY <1>1 DEF Life!vars

LEMMA LifeNext ==
    ASSUME LifeInv, [Next]_vars
    PROVE  [Life!Next]_(Life!vars)
  <1>1. CASE UNCHANGED <<notifications, attempts, historyVars>>
    BY <1>1, LifeStutters
  <1>2. ASSUME NEW n \in Notification, Create(n) \/ Retry(n)
        PROVE  Life!Next
    BY <1>2, CreateLife, RetryLife DEF Life!Next
  <1>3. ASSUME NEW w \in Worker, Started(w) \/ Deliver(w) \/ Recorded(w)
        PROVE  Life!Next
    BY <1>3, StartedLife, DeliverLife, RecordedLife DEF Life!Next
  <1>4. ASSUME NEW w \in Worker, Abandon(w) \/ LoadForDelivery(w)
        PROVE  UNCHANGED <<notifications, attempts, historyVars>>
    BY <1>4, LoadEffect DEF Abandon, LifeInv
  <1> QED
    BY <1>1, <1>2, <1>3, <1>4, StepEffect DEF deliveryVars

LEMMA BudgetInvHolds == Spec => []BudgetInv
  BY InitBudgetInv, NextBudgetInv, TypeInvHolds, EventInvHolds, MessageInvHolds, PTL DEF Spec

\* The composed service implements the life of a notification, for any
\* number of notifications, relays and workers and any failures.
THEOREM ServiceImplementsLifecycle == Spec => ImplementsLifecycle
  <1>1. TypeInv /\ DeliveryInv /\ CallsInv /\ BudgetInv /\ ResultInv => LifeInv
    BY DEF LifeInv
  <1> QED
    BY <1>1, LifeInit, LifeNext, TypeInvHolds, DeliveryInvHolds, CallsInvHolds,
       BudgetInvHolds, ResultInvHolds, PTL
       DEF Spec, ImplementsLifecycle, Life!Spec
=============================================================================

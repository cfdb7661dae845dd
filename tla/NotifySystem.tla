---------------------------- MODULE NotifySystem ---------------------------
(***************************************************************************)
(* The whole service: clients calling the API, the relays and the workers, *)
(* on one PostgreSQL database and one Redis stream.                        *)
(*                                                                         *)
(* The API's two writing handlers are one transaction each, so they are    *)
(* one action each.  Relays and workers take the steps of OutboxRelay and  *)
(* DeliveryWorker; the clock, the crashes and Redis take theirs.           *)
(***************************************************************************)
EXTENDS OutboxRelay, DeliveryWorker

CONSTANT MaxManualRetries    \* bound: how often clients ask for a retry

ASSUME RetriesAssumption == MaxManualRetries \in Nat

VARIABLE retries             \* how many manual retries were accepted

vars == <<storeVars, streamVars, relayVars, workerVars, faults, retries>>

Init ==
    /\ StoreInit
    /\ StreamInit
    /\ RelayInit
    /\ WorkerInit
    /\ faults = 0
    /\ retries = 0

-----------------------------------------------------------------------------
(***************************************************************************)
(* The API                                                                 *)
(***************************************************************************)

\* POST /notifications with a valid body; an invalid one changes nothing.
Create(n) ==
    /\ \E max \in MaxAttempts : CreateNotification(n, max)
    /\ UNCHANGED <<streamVars, relayVars, workerVars, faults, retries>>

\* POST /notifications/:id/retry; on a notification that has not failed it
\* answers 409 and changes nothing.
Retry(n) ==
    /\ retries < MaxManualRetries
    /\ RetryFailedNotification(n)
    /\ retries' = retries + 1
    /\ UNCHANGED <<streamVars, relayVars, workerVars, faults>>

-----------------------------------------------------------------------------
(***************************************************************************)
(* The components' steps, each leaving the others alone                    *)
(***************************************************************************)

RelayAction(r) ==
    /\ RelayStep(r)
    /\ UNCHANGED <<workerVars, retries>>

WorkerAction(w) ==
    /\ WorkerStep(w)
    /\ UNCHANGED <<relayVars, retries>>

\* Time passes for one outbox row or one stream entry.
EventClock(e) ==
    /\ EventDue(e) \/ LockExpires(e)
    /\ UNCHANGED <<workerVars, retries>>

MessageClock(m) ==
    /\ MessageIdle(m)
    /\ UNCHANGED <<relayVars, retries>>

\* Failures that are not the outcome of a call modelled above.
WorkerFailure(w) ==
    /\ PollError(w) \/ LoadError(w) \/ WorkerCrash(w)
    /\ UNCHANGED <<relayVars, retries>>

RelayFailure(r) ==
    /\ RelayCrash(r)
    /\ UNCHANGED <<workerVars, retries>>

RedisFailure ==
    /\ ForeignMessage \/ \E m \in MessageID : RedisForgets(m)
    /\ UNCHANGED <<storeVars, relayVars, workerVars, retries>>

Next ==
    \/ \E n \in Notification : Create(n) \/ Retry(n)
    \/ \E r \in Relay : RelayAction(r) \/ RelayFailure(r)
    \/ \E w \in Worker : WorkerAction(w) \/ WorkerFailure(w)
    \/ \E e \in EventID : EventClock(e)
    \/ \E m \in MessageID : MessageClock(m)
    \/ RedisFailure

Spec == Init /\ [][Next]_vars

(***************************************************************************)
(* Fairness: cmd/relay polls on a ticker and cmd/worker loops until it is  *)
(* stopped, every call they make has a timeout or a result, and time       *)
(* passes.  Nothing is assumed of clients or of failures.                  *)
(***************************************************************************)
Fairness ==
    /\ \A r \in Relay : WF_vars(RelayAction(r))
    /\ \A w \in Worker : WF_vars(WorkerAction(w))
    /\ \A e \in EventID : WF_vars(EventClock(e))
    /\ \A m \in MessageID : WF_vars(MessageClock(m))

FairSpec == Spec /\ Fairness

-----------------------------------------------------------------------------
(***************************************************************************)
(* Safety                                                                  *)
(***************************************************************************)

\* Every table, stream and process variable stays in its declared domain.
TypeOK ==
    /\ StoreTypeOK
    /\ StreamTypeOK
    /\ RelayTypeOK
    /\ WorkerTypeOK
    /\ faults \in 0..MaxFaults
    /\ retries \in 0..MaxManualRetries

\* Worker w is between a successful MarkDelivering and the record of n.
InDelivery(w, n) == workerPc[w] \in {"deliver", "record"} /\ task[w].id = n

\* However messages are duplicated, reclaimed and crashed over, at most one
\* worker at a time is inside the HTTP call of a notification, and while one
\* is, the row says so (MarkDelivering's compare-and-set).
SingleDelivery ==
    \A n \in Notification : \A w \in Worker :
        InDelivery(w, n) =>
            /\ notifications[n].status = "delivering"
            /\ \A v \in Worker : InDelivery(v, n) => v = w

\* A notification that can still be attempted has attempts left, and no
\* notification records more than max_attempts of them since it was created
\* or manually retried (Decide's exhaustion test on a Task that may be stale).
AttemptBudget ==
    \A n \in Notification :
        LET row == notifications[n]
        IN  row.status # Absent =>
                /\ row.attempt_count <= row.max_attempts
                /\ row.status \notin Terminal => row.attempt_count < row.max_attempts

\* n's trail ends with the row's current attempts.
TrailMatches(n) ==
    LET row   == notifications[n]
        trail == attempts[n]
        older == Len(trail) - row.attempt_count
    IN  /\ older >= 0
        /\ \A i \in 1..row.attempt_count : trail[older + i].attempt_number = i
        /\ \A i \in 1..(row.attempt_count - 1) : trail[older + i].status = "retrying"
        /\ row.attempt_count > 0 =>
                trail[Len(trail)].status =
                    IF row.status \in Terminal THEN row.status ELSE "retrying"

\* The audit trail ends with exactly the row's current attempts, numbered
\* from 1 without gap or repetition, all but the last of them "retrying" and
\* the last one agreeing with the row's status (createAttempt is part of the
\* transaction that RecordSuccess and RecordFailure guard).
AuditTrail == \A n \in Notification : TrailMatches(n)

\* The audit trail never invents an attempt and misses at most one HTTP
\* call of a notification, which then is in flight or was cut off in status
\* "delivering" (Process: mark, deliver, record).
CallsAudited ==
    \A n \in Notification :
        \/ calls[n] = Len(attempts[n])
        \/ /\ calls[n] = Len(attempts[n]) + 1
           /\ notifications[n].status = "delivering"

\* e is the last outbox row inserted for n.
LatestEvent(n, e) ==
    /\ outbox[e].notification_id = n
    /\ \A f \in EventID : outbox[f].notification_id = n => f <= e

\* The relay still has to publish e, or the group to see it acknowledged.
InPipeline(e) ==
    \/ outbox[e].status \in {"pending", "publishing"}
    \/ \E m \in MessageID : stream[m].outbox_event_id = e /\ Unacked(m)

\* Unless Redis itself forgets an entry, an accepted notification that is
\* not finished always has work in the pipeline for its latest event: no
\* crash, lost answer, lost claim or early acknowledgement drops it.
NoLostWork ==
    lost \/ \A n \in Notification :
        notifications[n].status \notin Terminal \cup {Absent} =>
            \E e \in EventID : LatestEvent(n, e) /\ InPipeline(e)

\* A row is published only when XADD put its event into the stream.  Two
\* relays on one host have the same locker (cmd/relay/main.go:44) and one may
\* finish the row the other has claimed since, so this does not rest on who
\* owns the claim (MarkPublished, MarkFailed) but on what each relay did
\* before it finished the row.
PublishedReachedStream ==
    \A e \in EventID :
        outbox[e].status = "published" => \E m \in MessageID : stream[m].outbox_event_id = e

\* As long as relays finish a row before its claim expires, an event reaches
\* the stream once, plus at most once per failure: concurrent relays never
\* publish the same row, however their claims interleave (ClaimDue's row
\* claims; the duplicates are Publish's ambiguous errors and lost claims).
DuplicatesNeedFailures ==
    PromptRelays => \A e \in EventID :
        Cardinality({m \in MessageID : stream[m].outbox_event_id = e}) <= 1 + faults

\* Once a vendor's 2xx reached a worker, the notification is never sent
\* again, even when the result could not be recorded.
AcceptedNeverResent ==
    \A n \in accepted :
        /\ notifications[n].status \in {"delivering", "succeeded"}
        /\ \A w \in Worker : ~(workerPc[w] = "deliver" /\ task[w].id = n)

\* A step leaves n's finished outcome alone, or is a manual retry of a
\* failure that brings a new outbox event; it keeps n's audit rows.
KeepsOutcome(n) ==
    /\ notifications[n].status \in Terminal =>
          \/ notifications'[n] = notifications[n]
          \/ /\ notifications[n].status = "failed"
             /\ notifications'[n].status = "pending"
             /\ \E e \in EventID : LatestEvent(n, e)' /\ ~LatestEvent(n, e)
    /\ Len(attempts[n]) <= Len(attempts'[n])
    /\ \A i \in 1..Len(attempts[n]) : attempts'[n][i] = attempts[n][i]

\* A finished outcome is only ever replaced by a manual retry of a failure,
\* which brings a new outbox event with it, and the audit trail only grows
\* (the compare-and-set guards of MarkDelivering, the two record
\* transactions and RetryFailedNotification).
OutcomesFinal == [][\A n \in Notification : KeepsOutcome(n)]_vars

-----------------------------------------------------------------------------
(***************************************************************************)
(* Liveness                                                                *)
(***************************************************************************)

\* Every accepted notification is eventually succeeded or failed.
EventuallySettled ==
    \A n \in Notification :
        notifications[n].status \in {"pending", "delivering", "retrying"}
            ~> notifications[n].status \in Terminal

-----------------------------------------------------------------------------
(***************************************************************************)
(* What the repository says and the code does not guarantee                *)
(***************************************************************************)

\* "RecordedAttempt is the audit payload persisted after any finished HTTP
\* call": recording a result adds it to the trail, unless the database fails.
FinishedCallRecorded ==
    [][ \A w \in Worker :
          workerPc[w] = "record" /\ workerPc'[w] # "record" /\ faults' = faults
            => Len(attempts'[task[w].id]) = Len(attempts[task[w].id]) + 1
      ]_vars

\* Retries follow the backoff: a retrying notification is attempted again
\* only after its next_attempt_at.
BackoffRespected ==
    [][ \A n \in Notification :
          notifications[n].status = "retrying" /\ notifications'[n].status = "delivering"
            => outbox[notifications[n].next_attempt_at].due
      ]_vars
=============================================================================

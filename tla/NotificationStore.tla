------------------------- MODULE NotificationStore -------------------------
(***************************************************************************)
(* PostgreSQL's three tables and the transactions EntRepository            *)
(* (internal/notification/ent_repository.go) runs on them.                 *)
(*                                                                         *)
(* Every operator below that primes a variable is one committed            *)
(* transaction: its guard is the WHERE clause of the conditional UPDATE    *)
(* that decides whether the transaction commits (affected = 1) or rolls    *)
(* back with ErrConflict.  The row lock taken by that UPDATE is held until *)
(* commit, so the rows inserted with it appear at the same instant.        *)
(*                                                                         *)
(* Data left out: url, method, headers, body, last_error, http_status,     *)
(* durations and the created_at/updated_at stamps, which no guard reads.   *)
(* Instants are abstracted to the question the code asks of them:          *)
(*   - scheduled_at is the flag due ("scheduled_at <= NOW()");             *)
(*   - locked_at is the flag lock_expired ("older than five minutes");     *)
(*   - next_attempt_at is the id of the outbox event scheduled for that    *)
(*     same instant, or NoEvent for NULL.                                  *)
(***************************************************************************)
EXTENDS Naturals, Sequences

CONSTANTS
    Notification,   \* the notification ids that may be created
    MaxAttempts,    \* the max_attempts values requests ask for
    MaxEvents,      \* bound: how many outbox rows may be inserted
    LockerID        \* the names relays lock rows with

ASSUME StoreAssumption ==
    /\ MaxAttempts \subseteq 1..20     \* ValidateCreateRequest's range
    /\ MaxEvents \in Nat
    /\ "none" \notin Notification
    /\ "none" \notin LockerID

VARIABLES
    notifications,  \* table notifications, one row per id
    attempts,       \* table delivery_attempts, the rows of each notification
    outbox          \* table outbox_events, row ids in insertion order

storeVars == <<notifications, attempts, outbox>>

EventID == 1..MaxEvents
NoEvent == 0

Terminal == {"succeeded", "failed"}
NotificationStatus == {"pending", "delivering", "retrying"} \cup Terminal
Absent == "absent"      \* the row has not been inserted yet

NotificationRow ==
    [ status          : NotificationStatus \cup {Absent},
      attempt_count   : Nat,
      max_attempts    : Nat,
      next_attempt_at : EventID \cup {NoEvent} ]

AttemptRow ==
    [ attempt_number : Nat,
      status         : {"succeeded", "retrying", "failed"} ]

OutboxRow ==
    [ notification_id : Notification \cup {"none"},
      status          : {Absent, "pending", "publishing", "published"},
      due             : BOOLEAN,
      locked_by       : LockerID \cup {"none"},
      lock_expired    : BOOLEAN ]

StoreTypeOK ==
    /\ notifications \in [Notification -> NotificationRow]
    /\ attempts \in [Notification -> Seq(AttemptRow)]
    /\ outbox \in [EventID -> OutboxRow]

StoreInit ==
    /\ notifications = [n \in Notification |->
            [ status |-> Absent, attempt_count |-> 0, max_attempts |-> 0,
              next_attempt_at |-> NoEvent ]]
    /\ attempts = [n \in Notification |-> <<>>]
    /\ outbox = [e \in EventID |->
            [ notification_id |-> "none", status |-> Absent, due |-> FALSE,
              locked_by |-> "none", lock_expired |-> FALSE ]]

-----------------------------------------------------------------------------
(***************************************************************************)
(* Inserting rows                                                          *)
(***************************************************************************)

\* e is the id the next inserted outbox row gets.
NextEvent(e) ==
    /\ outbox[e].status = Absent
    /\ \A f \in 1..(e - 1) : outbox[f].status # Absent

\* The outbox with a fresh pending event for n as row e; an event scheduled
\* for now is due at once, one scheduled for later is not.
WithEvent(e, n, due) ==
    [outbox EXCEPT ![e] =
        [ notification_id |-> n, status |-> "pending", due |-> due,
          locked_by |-> "none", lock_expired |-> FALSE ]]

\* A row of notifications moved to a status, counter and next_attempt_at.
Moved(row, status, count, next) ==
    [row EXCEPT !.status = status, !.attempt_count = count, !.next_attempt_at = next]

\* createAttempt: the audit row of one finished HTTP call.
WithAttempt(n, number, status) ==
    [attempts EXCEPT ![n] =
        Append(@, [attempt_number |-> number, status |-> status])]

-----------------------------------------------------------------------------
(***************************************************************************)
(* The API's transactions                                                  *)
(***************************************************************************)

CreateNotification(n, max) ==
    /\ notifications[n].status = Absent
    /\ notifications' = [notifications EXCEPT ![n] =
            [ status |-> "pending", attempt_count |-> 0, max_attempts |-> max,
              next_attempt_at |-> NoEvent ]]
    /\ \E e \in EventID : NextEvent(e) /\ outbox' = WithEvent(e, n, TRUE)
    /\ UNCHANGED attempts

\* Mutant: the manual retry also takes notifications stuck in "delivering".
CanRetryStuck(n) == notifications[n].status \in {"failed", "delivering"}

\* The WHERE clause of the manual retry's conditional update.  The plain
\* read before it only turns some conflicts into earlier ones.
CanRetry(n) == notifications[n].status = "failed"

RetryFailedNotification(n) ==
    /\ CanRetry(n)
    /\ notifications' = [notifications EXCEPT
            ![n] = Moved(@, "pending", 0, NoEvent)]
    /\ \E e \in EventID : NextEvent(e) /\ outbox' = WithEvent(e, n, TRUE)
    /\ UNCHANGED attempts

-----------------------------------------------------------------------------
(***************************************************************************)
(* The worker's transactions (delivery.Store)                              *)
(***************************************************************************)

\* Mutant: a row left in "delivering" may be started again.
CanRestartDelivery(n) ==
    notifications[n].status \in {"pending", "retrying", "delivering"}

\* Mutant: the row is only checked for another delivery in progress.
CanStartUnlessDelivering(n) == notifications[n].status # "delivering"

\* The compare-and-set that MarkDelivering makes.
CanStartDelivery(n) == notifications[n].status \in {"pending", "retrying"}

MarkDelivering(n) ==
    /\ CanStartDelivery(n)
    /\ notifications' = [notifications EXCEPT
            ![n] = Moved(@, "delivering", @.attempt_count, NoEvent)]
    /\ UNCHANGED <<attempts, outbox>>

\* Mutant: the attempt number is not compared.
InFlightAnyAttempt(n, number) == notifications[n].status = "delivering"

\* Mutant: the counter is compared with the number it is about to get.
InFlightOffByOne(n, number) ==
    /\ notifications[n].status = "delivering"
    /\ notifications[n].attempt_count = number

\* The compare-and-set of RecordSuccess and RecordFailure: the row is still
\* in the attempt whose result is being written.
InFlightAttempt(n, number) ==
    /\ notifications[n].status = "delivering"
    /\ notifications[n].attempt_count = number - 1

\* Mutant: the success is recorded without its audit row.
RecordSuccessUnaudited(n, number) ==
    /\ InFlightAttempt(n, number)
    /\ notifications' = [notifications EXCEPT
            ![n] = Moved(@, "succeeded", number, NoEvent)]
    /\ UNCHANGED <<attempts, outbox>>

RecordSuccess(n, number) ==
    /\ InFlightAttempt(n, number)
    /\ notifications' = [notifications EXCEPT
            ![n] = Moved(@, "succeeded", number, NoEvent)]
    /\ attempts' = WithAttempt(n, number, "succeeded")
    /\ UNCHANGED outbox

\* A failure that is not to be retried ends the notification.
RecordTerminalFailure(n, number) ==
    /\ InFlightAttempt(n, number)
    /\ notifications' = [notifications EXCEPT
            ![n] = Moved(@, "failed", number, NoEvent)]
    /\ attempts' = WithAttempt(n, number, "failed")
    /\ UNCHANGED outbox

\* Mutant: the retry is recorded without its outbox event.
RecordFailureUnscheduled(n, number) ==
    /\ InFlightAttempt(n, number)
    /\ notifications' = [notifications EXCEPT
            ![n] = Moved(@, "retrying", number, NoEvent)]
    /\ attempts' = WithAttempt(n, number, "retrying")
    /\ UNCHANGED outbox

\* A failure to be retried schedules the next outbox event with it.
RecordRetryableFailure(n, number) ==
    /\ InFlightAttempt(n, number)
    /\ \E e \in EventID :
        /\ NextEvent(e)
        /\ outbox' = WithEvent(e, n, FALSE)
        /\ notifications' = [notifications EXCEPT
                ![n] = Moved(@, "retrying", number, e)]
    /\ attempts' = WithAttempt(n, number, "retrying")

RecordFailure(n, number, retry) ==
    \/ retry  /\ RecordRetryableFailure(n, number)
    \/ ~retry /\ RecordTerminalFailure(n, number)
=============================================================================

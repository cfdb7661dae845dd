---------------------------- MODULE RepositoryTx ---------------------------
(***************************************************************************)
(* EntRepository (internal/notification/ent_repository.go) one SQL         *)
(* statement at a time, on PostgreSQL with READ COMMITTED transactions.    *)
(*                                                                         *)
(* A session is a goroutine inside one repository call.  Its statements    *)
(* are built with the generated ent builders (EntMutation) exactly as the  *)
(* code chains them.  Writes inside a transaction are staged and appear at *)
(* commit; an UPDATE whose WHERE clause matches locks its row until then.  *)
(* Any statement may fail, and a commit may be carried out and still       *)
(* report an error.                                                        *)
(*                                                                         *)
(* An instant is 0 for "now" and a positive number for the NextAttemptAt   *)
(* of a retry.                                                             *)
(***************************************************************************)
EXTENDS EntMutation

CONSTANTS
    Notification,   \* the ids uuid.New may return
    Session,        \* the goroutines that may call the repository at a time
    MaxCalls,       \* bound: how many calls are made in all
    MaxNumber,      \* bound: the attempt numbers workers report
    MaxErrors       \* bound: how many statements fail

ASSUME TxAssumption ==
    /\ MaxCalls \in Nat /\ MaxErrors \in Nat
    /\ MaxNumber \in 0..20      \* validation's limit of max_attempts
    /\ IsFiniteSet(Session)

\* The strings that the repository writes, what a column may hold, and the
\* rows of a table.  NULL is none of these values.
Text ==
    {"https://vendor/hook", "POST", "{}", "notification.delivery_requested", "now",
     "", "transport", "status"} \cup UNION {Statuses[e] : e \in Entity}

Value == Text \cup Int \cup Notification \cup {NULL}

Row(e) == [Table[e].columns -> Value]

ASSUME NullAssumption ==
    /\ NULL \notin Text /\ NULL \notin Int /\ NULL \notin Notification
    /\ NULL \notin Session
    /\ \A e \in Entity : NULL \notin Row(e)

VARIABLES
    notificationRows,   \* table notifications: a row or NULL, by id
    attemptRows,        \* table delivery_attempts, in insertion order, by
                        \* notification_id
    outboxRows,         \* table outbox_events, in insertion order
    lock,               \* the session that has locked a notification's row
    session,            \* what each goroutine is doing
    made,               \* how many calls were made
    errors              \* how many statements failed

tables == <<notificationRows, attemptRows, outboxRows>>
vars == <<tables, lock, session, made, errors>>

-----------------------------------------------------------------------------
(***************************************************************************)
(* Calls: the API's four, and the worker's four with what Process passes.  *)
(* next is NextAttemptAt, NULL for nil; Process gives it exactly to the    *)
(* failures that are not Terminal.                                         *)
(***************************************************************************)

Call(op, n, number, code, message, next) ==
    [op |-> op, id |-> n, number |-> number, code |-> code, message |-> message,
     next |-> next]

PlainCall(op, n) == Call(op, n, 0, 0, "", NULL)

CallsOn(n) ==
    {PlainCall(op, n) : op \in {"get", "list", "retry", "load", "mark"}}
    \cup {Call("success", n, k, 200, "", NULL) : k \in 1..MaxNumber}
    \cup {Call("failure", n, k, 0, "transport", NULL) : k \in 1..MaxNumber}
    \cup {Call("failure", n, k, 503, "status", 1) : k \in 1..MaxNumber}

Calls == UNION {CallsOn(n) \cup {PlainCall("create", n)} : n \in Notification}

\* Mutant: the notification is committed before its first outbox event.
ProgramSplitCreate(c) ==
    CASE c.op = "create"  -> <<"begin", "insertNotification", "commit", "insertEvent",
                               "commit">>
      [] c.op = "retry"   -> <<"begin", "getFailed", "update", "insertEvent", "commit",
                               "reread">>
      [] c.op = "mark"    -> <<"updateAlone">>
      [] OTHER            -> <<"read">>

\* The statements of a call, in order.
Program(c) ==
    CASE c.op = "create"  -> <<"begin", "insertNotification", "insertEvent", "commit">>
      [] c.op = "retry"   -> <<"begin", "getFailed", "update", "insertEvent", "commit",
                               "reread">>
      [] c.op = "mark"    -> <<"updateAlone">>
      [] c.op = "success" -> <<"begin", "update", "insertAttempt", "commit">>
      [] c.op = "failure" ->
            IF c.next = NULL THEN <<"begin", "update", "insertAttempt", "commit">>
            ELSE <<"begin", "update", "insertAttempt", "insertEvent", "commit">>
      [] OTHER            -> <<"read">>

Writes(c) == c.op \notin {"get", "list", "load"}

Nothing == [notification |-> NULL, attempt |-> NULL, event |-> NULL]

Idle == [ call |-> PlainCall("get", NULL), pc |-> 0, staged |-> Nothing,
          committed |-> FALSE, answer |-> "none" ]

Init ==
    /\ notificationRows = [n \in Notification |-> NULL]
    /\ attemptRows = [n \in Notification |-> <<>>]
    /\ outboxRows = <<>>
    /\ lock = [n \in Notification |-> NULL]
    /\ session = [s \in Session |-> Idle]
    /\ made = 0
    /\ errors = 0

Busy(s) == session[s].pc > 0

\* The session is about to execute this statement of its call.
At(s, statement) ==
    Busy(s) /\ Program(session[s].call)[session[s].pc] = statement

\* The session's goroutine enters the call.
Enter(s, c) ==
    /\ ~Busy(s) /\ made < MaxCalls
    /\ session' = [session EXCEPT ![s] = [Idle EXCEPT !.call = c, !.pc = 1]]
    /\ made' = made + 1
    /\ UNCHANGED <<tables, lock, errors>>

-----------------------------------------------------------------------------
(***************************************************************************)
(* The builder chains                                                      *)
(***************************************************************************)

NotificationInsert ==
    NewMutation("Notification", "create")
        ## Set("url", "https://vendor/hook") ## Set("method", "POST") ## Set("headers", "{}")
        ## Set("body", "{}") ## Set("status", "pending") ## Set("max_attempts", 3)

\* The three places that insert an outbox event: for now, or for next.
EventInsert(c) ==
    NewMutation("OutboxEvent", "create")
        ## Set("notification_id", c.id)
        ## Set("event_type", "notification.delivery_requested")
        ## Set("status", "pending")
        ## Set("scheduled_at", IF c.op = "failure" THEN c.next ELSE 0)

\* The status RecordSuccess and RecordFailure give to the audit row.
AttemptStatus(c) ==
    IF c.op = "success" THEN "succeeded" ELSE IF c.next = NULL THEN "failed" ELSE "retrying"

\* createAttempt
AttemptInsert(c) ==
    LET create   == NewMutation("DeliveryAttempt", "create")
                       ## Set("notification_id", c.id) ## Set("attempt_number", c.number)
                       ## Set("status", AttemptStatus(c)) ## Set("duration_ms", 1)
        answered == IF c.code > 0 THEN create ## Set("http_status", c.code) ELSE create
    IN  IF c.message # "" THEN answered ## Set("error_message", c.message) ELSE answered

\* What Save answers and the row it inserts.
Saved(m) == [answer |-> CreateAnswer(m), row |-> InsertedRow(Defaulted(m))]

\* The inserts of each call.
NotificationSaved == Saved(NotificationInsert)
EventSaved == [c \in Calls |-> Saved(EventInsert(c))]
AttemptSaved == [c \in Calls |-> Saved(AttemptInsert(c))]

Updating == NewMutation("Notification", "update")

RetryUpdate ==
    Updating ## Set("status", "pending") ## Set("attempt_count", 0)
             ## Clear("last_error") ## Clear("next_attempt_at")

\* Mutant: the instant of the next attempt stays.
MarkUpdateKeepNext == Updating ## Set("status", "delivering")

MarkUpdate == Updating ## Set("status", "delivering") ## Clear("next_attempt_at")

SuccessUpdate(c) ==
    Updating ## Set("status", "succeeded") ## Set("attempt_count", c.number)
             ## Clear("last_error") ## Clear("next_attempt_at")

\* Mutant: next_attempt_at is always cleared first and then set.
FailureUpdateClearFirst(c) ==
    Updating ## Set("status", IF c.next = NULL THEN "failed" ELSE "retrying")
             ## Set("attempt_count", c.number) ## Set("last_error", c.message)
             ## Clear("next_attempt_at") ## SetNillable("next_attempt_at", c.next)

FailureUpdate(c) ==
    Updating ## Set("status", IF c.next = NULL THEN "failed" ELSE "retrying")
             ## Set("attempt_count", c.number) ## Set("last_error", c.message)
             ## (IF c.next = NULL THEN Clear("next_attempt_at")
                 ELSE Set("next_attempt_at", c.next))

\* The conditional update of each call.
NotificationUpdate ==
    [c \in Calls |->
        CASE c.op = "retry"   -> RetryUpdate
          [] c.op = "mark"    -> MarkUpdate
          [] c.op = "success" -> SuccessUpdate(c)
          [] c.op = "failure" -> FailureUpdate(c)
          [] OTHER            -> Updating]

\* Mutant: the retry's update looks for the id only.
RetryWhereAny(row) == TRUE

\* The WHERE clauses of the conditional updates.
RetryWhere(row) == row.status = "failed"
MarkWhere(row) == row.status \in {"pending", "retrying"}
RecordWhere(row, number) == row.status = "delivering" /\ row.attempt_count = number - 1

Matches(c) ==
    LET row == notificationRows[c.id]
    IN  /\ row # NULL
        /\ CASE c.op = "retry" -> RetryWhere(row)
             [] c.op = "mark"  -> MarkWhere(row)
             [] OTHER          -> RecordWhere(row, c.number)

-----------------------------------------------------------------------------
(***************************************************************************)
(* How a call goes on and ends                                             *)
(***************************************************************************)

\* Mutant: a call that fails leaves its transaction open.
UnlockedIfCommitted(s) ==
    [n \in Notification |->
        IF lock[n] = s /\ session[s].pc = Len(Program(session[s].call)) THEN NULL ELSE lock[n]]

\* Commit and rollback release the transaction's row lock.
Unlocked(s) == [n \in Notification |-> IF lock[n] = s THEN NULL ELSE lock[n]]

\* The next statement, with what this one staged.
Proceed(s, staged) ==
    session' = [session EXCEPT ![s].pc = @ + 1, ![s].staged = staged]

\* The call returns; what it has not committed is rolled back.
Return(s, answer) ==
    /\ session' = [session EXCEPT ![s].pc = 0, ![s].staged = Nothing, ![s].answer = answer]
    /\ lock' = Unlocked(s)

\* The statement, or its answer, fails.
Fails(s) ==
    /\ errors < MaxErrors
    /\ errors' = errors + 1
    /\ Return(s, "error")
    /\ UNCHANGED tables

Succeeds == UNCHANGED errors

-----------------------------------------------------------------------------
(***************************************************************************)
(* Statements                                                              *)
(***************************************************************************)

\* client.Tx
Begin(s) ==
    /\ At(s, "begin")
    /\ \/ Succeeds /\ Proceed(s, Nothing) /\ UNCHANGED <<tables, lock>>
       \/ Fails(s)
    /\ UNCHANGED made

\* tx.Notification.Get and the test of its status: a plain read that sees
\* what is committed and locks nothing.
GetFailed(s) ==
    LET row == notificationRows[session[s].call.id]
    IN  /\ At(s, "getFailed")
        /\ \/ /\ Succeeds /\ UNCHANGED tables
              /\ IF row = NULL THEN Return(s, "ErrNotFound")
                 ELSE IF row.status # "failed" THEN Return(s, "ErrConflict")
                 ELSE Proceed(s, Nothing) /\ UNCHANGED lock
           \/ Fails(s)
        /\ UNCHANGED made

\* The conditional UPDATE of a transaction.  It waits for the lock of a row
\* that matches, and looks at the row again when it gets it; a row that does
\* not match is not waited for.
Update(s) ==
    LET c   == session[s].call
        m   == NotificationUpdate[c]
        row == notificationRows[c.id]
    IN  /\ At(s, "update")
        /\ \/ /\ ~Matches(c)
              /\ Return(s, "ErrConflict") /\ Succeeds /\ UNCHANGED tables
           \/ /\ Matches(c) /\ lock[c.id] = NULL
              /\ IF UpdateAnswer(m, row) = "ok"
                 THEN /\ lock' = [lock EXCEPT ![c.id] = s]
                      /\ Proceed(s, [Nothing EXCEPT !.notification =
                                        UpdatedRow(Defaulted(m), row)])
                 ELSE Return(s, UpdateAnswer(m, row))
              /\ Succeeds /\ UNCHANGED tables
           \/ Fails(s)
        /\ UNCHANGED made

\* MarkDelivering's UPDATE, a transaction of its own; its error may hide
\* that it was carried out.
UpdateAlone(s) ==
    LET c   == session[s].call
        m   == NotificationUpdate[c]
        row == notificationRows[c.id]
    IN  /\ At(s, "updateAlone")
        /\ \/ /\ ~Matches(c)
              /\ Return(s, "ErrConflict") /\ Succeeds /\ UNCHANGED tables
           \/ /\ Matches(c) /\ lock[c.id] = NULL
              /\ IF UpdateAnswer(m, row) = "ok"
                 THEN /\ notificationRows' = [notificationRows EXCEPT
                                ![c.id] = UpdatedRow(Defaulted(m), row)]
                      /\ \E ok \in BOOLEAN :
                            /\ ok \/ errors < MaxErrors
                            /\ errors' = IF ok THEN errors ELSE errors + 1
                            /\ session' = [session EXCEPT ![s] =
                                  [Idle EXCEPT !.call = c, !.committed = TRUE,
                                               !.answer = IF ok THEN "ok" ELSE "error"]]
                      /\ UNCHANGED <<attemptRows, outboxRows, lock>>
                 ELSE Return(s, UpdateAnswer(m, row)) /\ Succeeds /\ UNCHANGED tables
           \/ Fails(s)
        /\ UNCHANGED made

\* An INSERT of a transaction: the row it stages, or the error of its builder.
Insert(s, saved, table) ==
    /\ \/ /\ IF saved.answer = "ok"
             THEN Proceed(s, [session[s].staged EXCEPT ![table] = saved.row]) /\ UNCHANGED lock
             ELSE Return(s, saved.answer)
          /\ Succeeds /\ UNCHANGED tables
       \/ Fails(s)
    /\ UNCHANGED made

InsertNotification(s) ==
    At(s, "insertNotification") /\ Insert(s, NotificationSaved, "notification")

InsertAttempt(s) ==
    At(s, "insertAttempt") /\ Insert(s, AttemptSaved[session[s].call], "attempt")

InsertEvent(s) ==
    At(s, "insertEvent") /\ Insert(s, EventSaved[session[s].call], "event")

\* tx.Commit: carried out and answered, carried out with the answer lost, or
\* not carried out.
Commit(s) ==
    LET c      == session[s].call
        staged == session[s].staged
        more   == session[s].pc < Len(Program(c))
    IN  /\ At(s, "commit")
        /\ \/ /\ notificationRows' = IF staged.notification = NULL THEN notificationRows
                    ELSE [notificationRows EXCEPT ![c.id] = staged.notification]
              /\ attemptRows' = IF staged.attempt = NULL THEN attemptRows
                    ELSE [attemptRows EXCEPT ![staged.attempt.notification_id] =
                            Append(@, staged.attempt)]
              /\ outboxRows' = IF staged.event = NULL THEN outboxRows
                    ELSE Append(outboxRows, staged.event)
              /\ lock' = Unlocked(s)
              /\ \E ok \in BOOLEAN :
                    /\ ok \/ errors < MaxErrors
                    /\ errors' = IF ok THEN errors ELSE errors + 1
                    /\ session' = [session EXCEPT
                          ![s].pc = IF ok /\ more THEN @ + 1 ELSE 0,
                          ![s].staged = Nothing,
                          ![s].committed = TRUE,
                          ![s].answer = IF ~ok THEN "error"
                                        ELSE IF more THEN @ ELSE "ok"]
           \/ Fails(s)
        /\ UNCHANGED made

\* Mutant: the final read of a retry tests the status once more.
ReadTestingStatus(s) ==
    LET c   == session[s].call
        row == notificationRows[c.id]
    IN  /\ At(s, "read") \/ At(s, "reread")
        /\ Return(s, IF row = NULL THEN "ErrNotFound"
                     ELSE IF c.op = "retry" /\ row.status # "pending" THEN "ErrConflict"
                     ELSE "ok")
        /\ Succeeds /\ UNCHANGED <<tables, made>>

\* GetNotification, ListDeliveryAttempts, LoadForDelivery, and the read with
\* which a retry ends, outside of its transaction.  A list is empty, not an
\* error, for an unknown id.
Read(s) ==
    LET c == session[s].call
    IN  /\ At(s, "read") \/ At(s, "reread")
        /\ \/ /\ Return(s, IF c.op # "list" /\ notificationRows[c.id] = NULL
                           THEN "ErrNotFound" ELSE "ok")
              /\ Succeeds /\ UNCHANGED tables
           \/ Fails(s)
        /\ UNCHANGED made

-----------------------------------------------------------------------------

\* An id no row and no open call has: uuid.New.
Fresh(n) ==
    /\ notificationRows[n] = NULL
    /\ \A s \in Session : ~(Busy(s) /\ session[s].call.op = "create" /\ session[s].call.id = n)

Step(s) ==
    \/ Begin(s) \/ GetFailed(s) \/ Update(s) \/ UpdateAlone(s)
    \/ InsertNotification(s) \/ InsertAttempt(s) \/ InsertEvent(s)
    \/ Commit(s) \/ Read(s)

Next ==
    \E s \in Session :
        \/ \E n \in Notification : Fresh(n) /\ Enter(s, PlainCall("create", n))
        \/ \E n \in Notification : \E c \in CallsOn(n) : Enter(s, c)
        \/ Step(s)

Spec == Init /\ [][Next]_vars

\* Every statement is answered or fails, and PostgreSQL grants a free lock.
FairSpec == Spec /\ \A s \in Session : WF_vars(Step(s))

-----------------------------------------------------------------------------
(***************************************************************************)
(* The repository as one transaction per call                              *)
(***************************************************************************)

EventsOf(n) == {e \in DOMAIN outboxRows : outboxRows[e].notification_id = n}

LastEventAt(n, instant) ==
    Max({e \in EventsOf(n) : outboxRows[e].scheduled_at = instant})

AbstractRow(n) ==
    LET row == notificationRows[n]
    IN  IF row = NULL
        THEN [status |-> "absent", attempt_count |-> 0, max_attempts |-> 0,
              next_attempt_at |-> 0]
        ELSE [status |-> row.status, attempt_count |-> row.attempt_count,
              max_attempts |-> row.max_attempts,
              next_attempt_at |-> IF row.next_attempt_at = NULL THEN 0
                                  ELSE LastEventAt(n, row.next_attempt_at)]

AbstractAttempts(n) ==
    [i \in DOMAIN attemptRows[n] |->
        [attempt_number |-> attemptRows[n][i].attempt_number,
         status         |-> attemptRows[n][i].status]]

AbstractEvent(e) ==
    IF e \in DOMAIN outboxRows
    THEN [ notification_id |-> outboxRows[e].notification_id,
           status |-> outboxRows[e].status, due |-> outboxRows[e].scheduled_at = 0,
           locked_by |-> "none", lock_expired |-> FALSE ]
    ELSE [ notification_id |-> "none", status |-> "absent", due |-> FALSE,
           locked_by |-> "none", lock_expired |-> FALSE ]

Store == INSTANCE AtomicStore WITH
    MaxAttempts   <- {3},
    MaxEvents     <- MaxCalls,
    LockerID      <- {},
    notifications <- [n \in Notification |-> AbstractRow(n)],
    attempts      <- [n \in Notification |-> AbstractAttempts(n)],
    outbox        <- [e \in 1..MaxCalls |-> AbstractEvent(e)]

\* However the statements of concurrent calls interleave and fail, the tables
\* change by whole transactions of AtomicStore, each with the guard of its
\* compare-and-set and with the attempt and the outbox event that belong to
\* it (the comments on CreateNotification, RecordSuccess and RecordFailure).
ImplementsAtomicStore == Store!StoreSpec

-----------------------------------------------------------------------------
(***************************************************************************)
(* Properties                                                              *)
(***************************************************************************)

\* The attempts after which another delivery was or may be asked for.
Unsuccessful(n) ==
    {i \in DOMAIN attemptRows[n] : attemptRows[n][i].status \in {"retrying", "failed"}}

\* Every delivery that was asked for has one outbox event: the first, one for
\* each attempt that is to be retried, and one for each failure that was
\* manually retried.  Concurrent retries of one failure, which both read
\* "failed", make one event (RetryFailedNotification's comment).
OneEventPerDelivery ==
    \A n \in Notification :
        LET row == notificationRows[n]
        IN  Cardinality(EventsOf(n)) =
                IF row = NULL THEN 0
                ELSE 1 + Cardinality(Unsuccessful(n))
                       - (IF row.status = "failed" THEN 1 ELSE 0)

\* What a caller is told is what happened: after "ok" the call's transaction
\* is in the tables, after ErrNotFound and ErrConflict nothing of it is.
\* Only another error leaves it open (a lost commit answer, or the re-read
\* with which RetryFailedNotification ends).
AnswersTruthful ==
    \A s \in Session :
        LET c == session[s].call
        IN  ~Busy(s) /\ Writes(c) =>
                /\ session[s].answer = "ok" => session[s].committed
                /\ session[s].answer \in {"ErrNotFound", "ErrConflict"} =>
                      ~session[s].committed

\* The columns agree with the status: a retrying row has the instant of its
\* next attempt and no other row has one, a failed or retrying row has its
\* error, a pending or succeeded one has none.
ColumnsCoherent ==
    \A n \in Notification :
        LET row == notificationRows[n]
        IN  row # NULL =>
                /\ (row.next_attempt_at # NULL) <=> (row.status = "retrying")
                /\ row.status \in {"retrying", "failed"} => row.last_error # NULL
                /\ row.status \in {"pending", "succeeded"} => row.last_error = NULL

\* The builder chains of the repository never make a statement that ent's
\* checks or PostgreSQL refuse.
StatementsAccepted ==
    \A s \in Session :
        session[s].answer \notin {"ValidationError", "SyntaxError", "ConstraintError"}

\* Every call returns: no call waits for a row lock forever.
CallsReturn == \A s \in Session : Busy(s) ~> ~Busy(s)
=============================================================================

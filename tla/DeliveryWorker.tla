--------------------------- MODULE DeliveryWorker --------------------------
(***************************************************************************)
(* The worker goroutines: cmd/worker/main.go's loop over                   *)
(* stream.Consumer (internal/stream/redis.go) and delivery.Processor       *)
(* (internal/delivery/processor.go).                                       *)
(*                                                                         *)
(* One goroutine alternates between a full XAUTOCLAIM scan and one         *)
(* XREADGROUP, and handles the entries of a page one after the other in    *)
(* id order.  Handling an entry is a sequence of calls, each an action of  *)
(* its own: load the row, mark it delivering, send the HTTP request, record*)
(* the result, acknowledge.  An error at any of them drops the entry       *)
(* unacknowledged and the page goes on.                                    *)
(*                                                                         *)
(* A cancelled context (graceful shutdown) reaches the code as an error of *)
(* the call under way, so it is one of these errors followed by a crash.   *)
(***************************************************************************)
EXTENDS DeliveryStream, RetryPolicy

CONSTANTS
    Worker,        \* the worker goroutines of all worker processes
    StatusCodes,   \* the HTTP status codes vendors answer with
    PromptWorkers  \* whether an entry is always handled within minIdle

ASSUME WorkerAssumption ==
    /\ StatusCodes \subseteq 100..599
    /\ PromptWorkers \in BOOLEAN

VARIABLES
    workerPc,   \* the next call of each worker
    phase,      \* the read command it polls with next
    cursor,     \* where its XAUTOCLAIM scan continues
    batch,      \* the entries of its page it has not started
    task,       \* the entry in hand and the Task loaded for it
    result,     \* the AttemptResult of the HTTP call it made
    calls,      \* history: how many HTTP requests each notification cost
    accepted    \* history: the notifications a vendor has answered with 2xx

historyVars == <<calls, accepted>>
workerVars == <<workerPc, phase, cursor, batch, task, result, historyVars>>

\* delivery.AttemptResult
AttemptResult ==
    [StatusCode : StatusCodes, Err : {FALSE}]
        \cup {[StatusCode |-> 0, Err |-> TRUE]}
NoResult == [StatusCode |-> 0, Err |-> FALSE]

\* The entry in hand and delivery.Task, as loaded
Task ==
    [ msg         : MessageID \cup {0},
      id          : Notification \cup {"none"},
      Attempt     : Nat,
      MaxAttempts : Nat ]
NoTask == [msg |-> 0, id |-> "none", Attempt |-> 0, MaxAttempts |-> 0]

WorkerTypeOK ==
    /\ workerPc \in [Worker -> {"loop", "mark", "deliver", "record", "ack"}]
    /\ phase \in [Worker -> {"claim", "read"}]
    /\ cursor \in [Worker -> MessageID \cup {0}]
    /\ batch \in [Worker -> SUBSET MessageID]
    /\ task \in [Worker -> Task]
    /\ result \in [Worker -> AttemptResult \cup {NoResult}]
    /\ calls \in [Notification -> Nat]
    /\ accepted \in SUBSET Notification

WorkerInit ==
    /\ workerPc = [w \in Worker |-> "loop"]
    /\ phase = [w \in Worker |-> "claim"]
    /\ cursor = [w \in Worker |-> 0]
    /\ batch = [w \in Worker |-> {}]
    /\ task = [w \in Worker |-> NoTask]
    /\ result = [w \in Worker |-> NoResult]
    /\ calls = [n \in Notification |-> 0]
    /\ accepted = {}

Goto(w, pc) ==
    workerPc' = [workerPc EXCEPT ![w] = pc]

\* The worker is done with the entry in hand, whatever became of it.
Drop(w) ==
    /\ Goto(w, "loop")
    /\ task' = [task EXCEPT ![w] = NoTask]
    /\ result' = [result EXCEPT ![w] = NoResult]

-----------------------------------------------------------------------------
(***************************************************************************)
(* Consumer: reading pages                                                 *)
(***************************************************************************)

\* One XAUTOCLAIM of ClaimAndProcess.  After the page the scan goes on from
\* the returned cursor, or the loop turns to ReadAndProcess.
ClaimPage(w) ==
    /\ workerPc[w] = "loop" /\ batch[w] = {} /\ phase[w] = "claim"
    /\ LET page == IdleEntries(cursor[w])
       IN  /\ batch' = [batch EXCEPT ![w] = page]
           /\ stream' = Delivered(page)
           /\ \E c \in MessageID \cup {0} :
                /\ IsNextCursor(page, c)
                /\ cursor' = [cursor EXCEPT ![w] = c]
                /\ phase' = [phase EXCEPT ![w] =
                        IF c = 0 THEN "read" ELSE "claim"]
    /\ NoFault
    /\ UNCHANGED <<storeVars, lost, workerPc, task, result, historyVars>>

\* The XREADGROUP of ReadAndProcess; an empty page is its block timeout.
ReadPage(w) ==
    /\ workerPc[w] = "loop" /\ batch[w] = {} /\ phase[w] = "read"
    /\ batch' = [batch EXCEPT ![w] = NewEntries]
    /\ stream' = Delivered(NewEntries)
    /\ phase' = [phase EXCEPT ![w] = "claim"]
    /\ NoFault
    /\ UNCHANGED <<storeVars, lost, workerPc, cursor, task, result, historyVars>>

\* A read command fails, or is carried out and loses its answer: the other
\* one is next, and a scan starts over.
PollError(w) ==
    /\ workerPc[w] = "loop" /\ batch[w] = {}
    /\ Fault("redis_error")
    /\ \/ UNCHANGED stream
       \/ phase[w] = "claim" /\ stream' = Delivered(IdleEntries(cursor[w]))
       \/ phase[w] = "read" /\ stream' = Delivered(NewEntries)
    /\ phase' = [phase EXCEPT ![w] = IF @ = "claim" THEN "read" ELSE "claim"]
    /\ cursor' = [cursor EXCEPT ![w] = 0]
    /\ UNCHANGED <<storeVars, lost, workerPc, batch, task, result, historyVars>>

-----------------------------------------------------------------------------
(***************************************************************************)
(* Processor.Process on one entry                                          *)
(***************************************************************************)

\* The next entry of the page.
IsNext(w, m) ==
    /\ workerPc[w] = "loop"
    /\ m \in batch[w]
    /\ \A x \in batch[w] : m <= x

\* LoadForDelivery: the row as it is now, which later calls do not reread.
Loaded(m) ==
    LET n   == stream[m].notification_id
        row == notifications[n]
    IN  [ msg |-> m, id |-> n, Attempt |-> row.attempt_count,
          MaxAttempts |-> IF row.max_attempts = 0 THEN 5 ELSE row.max_attempts ]

\* A message whose ids do not parse is acknowledged unprocessed; one whose
\* notification is finished is acknowledged without another attempt.
LoadForDelivery(w) ==
    /\ \E m \in MessageID :
        /\ IsNext(w, m)
        /\ batch' = [batch EXCEPT ![w] = @ \ {m}]
        /\ \/ /\ ~Parses(m)
              /\ task' = [task EXCEPT ![w] = [NoTask EXCEPT !.msg = m]]
              /\ Goto(w, "ack")
           \/ /\ Parses(m)
              /\ task' = [task EXCEPT ![w] = Loaded(m)]
              /\ IF notifications[stream[m].notification_id].status \in Terminal
                 THEN Goto(w, "ack")
                 ELSE Goto(w, "mark")
    /\ NoFault
    /\ UNCHANGED <<storeVars, streamVars, phase, cursor, result, historyVars>>

\* The load fails and the entry is dropped.
LoadError(w) ==
    /\ \E m \in MessageID :
        /\ IsNext(w, m)
        /\ Parses(m)
        /\ batch' = [batch EXCEPT ![w] = @ \ {m}]
    /\ Fault("worker_db_error")
    /\ UNCHANGED <<storeVars, streamVars, workerPc, phase, cursor, task,
                   result, historyVars>>

\* What a committed transaction leads to: the next call, or the error the
\* caller sees when the answer is lost.
AfterCommit(w, pc) ==
    \/ Goto(w, pc) /\ NoFault /\ UNCHANGED <<task, result>>
    \/ Drop(w) /\ Fault("worker_db_error")

\* Mutant: a conflict is taken for a finished duplicate and acknowledged.
AckConflict(w, conflict) ==
    /\ \/ conflict /\ Goto(w, "ack") /\ NoFault /\ UNCHANGED <<task, result>>
       \/ Drop(w) /\ Fault("worker_db_error")
    /\ UNCHANGED storeVars

\* What an uncommitted one leads to: ErrConflict or a database error.
AfterRollback(w, conflict) ==
    /\ Drop(w)
    /\ \/ conflict /\ NoFault
       \/ Fault("worker_db_error")
    /\ UNCHANGED storeVars

StartDelivery(w) ==
    LET n == task[w].id
    IN  /\ workerPc[w] = "mark"
        /\ \/ MarkDelivering(n) /\ AfterCommit(w, "deliver")
           \/ AfterRollback(w, ~CanStartDelivery(n))
        /\ UNCHANGED <<streamVars, phase, cursor, batch, historyVars>>

\* The HTTP request; a timeout or transport failure is a result too.
Deliver(w) ==
    /\ workerPc[w] = "deliver"
    /\ Goto(w, "record")
    /\ calls' = [calls EXCEPT ![task[w].id] = @ + 1]
    /\ \E res \in AttemptResult :
        /\ result' = [result EXCEPT ![w] = res]
        /\ accepted' = IF ~res.Err /\ Is2xx(res.StatusCode)
                       THEN accepted \cup {task[w].id}
                       ELSE accepted
    /\ NoFault
    /\ UNCHANGED <<storeVars, streamVars, phase, cursor, batch, task>>

\* Process's test of the result.
DeliverySucceeded(w) == ~result[w].Err /\ Is2xx(result[w].StatusCode)

\* Process's use of the retry policy: a failure is retried when the policy
\* says so and gives it an instant.
WillRetry(w) ==
    LET decision == Decide(DefaultRetryPolicy, result[w], task[w].Attempt + 1,
                           task[w].MaxAttempts)
    IN  ~decision.Terminal /\ decision.Retry

RecordResult(w) ==
    LET n      == task[w].id
        number == task[w].Attempt + 1
    IN  /\ workerPc[w] = "record"
        /\ \/ /\ \/ DeliverySucceeded(w) /\ RecordSuccess(n, number)
                 \/ /\ ~DeliverySucceeded(w)
                    /\ RecordFailure(n, number, WillRetry(w))
              /\ AfterCommit(w, "ack")
           \/ AfterRollback(w, ~InFlightAttempt(n, number))
        /\ UNCHANGED <<streamVars, phase, cursor, batch, historyVars>>

\* processMessage's XACK, which may fail or lose its answer.
Ack(w) ==
    /\ workerPc[w] = "ack"
    /\ \/ stream' = Acked(task[w].msg) /\ NoFault
       \/ UNCHANGED stream /\ Fault("redis_error")
    /\ Drop(w)
    /\ UNCHANGED <<storeVars, lost, phase, cursor, batch, historyVars>>

-----------------------------------------------------------------------------
(***************************************************************************)
(* Crashes and the clock                                                   *)
(***************************************************************************)

Handles(w, m) == m \in batch[w] \cup {task[w].msg}

\* The process dies and is restarted with an empty memory.
WorkerCrash(w) ==
    /\ \E m \in MessageID : Handles(w, m)
    /\ Fault("worker_crash")
    /\ Drop(w)
    /\ phase' = [phase EXCEPT ![w] = "claim"]
    /\ cursor' = [cursor EXCEPT ![w] = 0]
    /\ batch' = [batch EXCEPT ![w] = {}]
    /\ UNCHANGED <<storeVars, streamVars, historyVars>>

\* A pending entry's idle time reaches minIdle.
MessageIdle(m) ==
    /\ stream[m].state = "pending"
    /\ ~stream[m].idle
    /\ PromptWorkers => \A w \in Worker : ~Handles(w, m)
    /\ stream' = [stream EXCEPT ![m].idle = TRUE]
    /\ UNCHANGED <<storeVars, lost, workerVars, faults>>

WorkerStep(w) ==
    \/ ClaimPage(w) \/ ReadPage(w) \/ LoadForDelivery(w)
    \/ StartDelivery(w) \/ Deliver(w) \/ RecordResult(w) \/ Ack(w)
=============================================================================

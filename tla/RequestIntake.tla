--------------------------- MODULE RequestIntake ---------------------------
(***************************************************************************)
(* The HTTP API as its clients see it (internal/api/router.go on           *)
(* notification.Service): a call is read and validated, the service        *)
(* validates again and runs a repository transaction, the answer is        *)
(* written.  The transaction may fail with or without having committed,    *)
(* the answer may not arrive, and the process ends without waiting for its *)
(* handlers (cmd/api/main.go returns as soon as the server is closed).     *)
(*                                                                         *)
(* The repository's own steps are RepositoryTx's; here a transaction is    *)
(* one step.  GET calls, which change nothing, are their answer.           *)
(***************************************************************************)
EXTENDS RequestValidation, FaultBudget, Sequences, TLC

CONSTANTS Requests,      \* the request bodies clients send
          MaxCalls       \* bound: how many calls are made

ASSUME IntakeAssumption == Requests \subseteq Request /\ MaxCalls \in Nat

VARIABLES
    rows,    \* notifications: [req, call (that made it), status, requeued_by]
    calls    \* every call: [op, req, id, pc, err, answer]

intakeVars == <<rows, calls>>

NoAnswer == 0       \* the client has no answer, or none yet

CallID == 1..Len(calls)

IntakeInit == rows = <<>> /\ calls = <<>>

NewCall(op, req, id) ==
    [op |-> op, req |-> req, id |-> id, pc |-> "received", err |-> "nil", answer |-> NoAnswer]

\* A client calls: POST /notifications with a body that is JSON or (NULL) is
\* not, or one of the calls about a notification by an id that is malformed (-1),
\* unknown (0) or a row's.
Post ==
    /\ Len(calls) < MaxCalls
    /\ \E req \in Requests \cup {NULL} :
         calls' = Append(calls, NewCall("create", req, 0))
    /\ UNCHANGED <<rows, faults>>

Ask(op) ==
    /\ Len(calls) < MaxCalls
    /\ \E id \in -1..Len(rows) : calls' = Append(calls, NewCall(op, NULL, id))
    /\ UNCHANGED <<rows, faults>>

\* writeError: the status code of an error of the service.
StatusOf(err) ==
    CASE err = "ErrInvalid"  -> 400
      [] err = "ErrNotFound" -> 404
      [] err = "ErrConflict" -> 409
      [] OTHER               -> 500

Proceed(c, pc, err) == calls' = [calls EXCEPT ![c].pc = pc, ![c].err = err]

-----------------------------------------------------------------------------
(***************************************************************************)
(* The handlers                                                            *)
(***************************************************************************)

\* createNotification up to the service: ShouldBindJSON and the validation
\* at the boundary.
BindCreate(c) ==
    /\ calls[c].op = "create" /\ calls[c].pc = "received"
    /\ LET req  == calls[c].req
           norm == IF req = NULL THEN Invalid ELSE ValidateCreateRequest(req)
       IN  IF norm = Invalid THEN Proceed(c, "answering", "ErrInvalid")
           ELSE calls' = [calls EXCEPT ![c].pc = "service", ![c].req = norm]
    /\ UNCHANGED <<rows, faults>>

\* parseID of the other three handlers.
BindID(c) ==
    /\ calls[c].op # "create" /\ calls[c].pc = "received"
    /\ IF calls[c].id = -1 THEN Proceed(c, "answering", "ErrInvalid")
       ELSE Proceed(c, "service", "nil")
    /\ UNCHANGED <<rows, faults>>

NewRow(c, req) == [req |-> req, call |-> c, status |-> "pending", requeued_by |-> {}]

\* Mutant: a database error makes the service insert once more.
CreateTwice(c) ==
    /\ calls[c].op = "create" /\ calls[c].pc = "service"
    /\ LET norm == ValidateCreateRequest(calls[c].req)
       IN  \/ /\ rows' = Append(rows, NewRow(c, norm))
              /\ Proceed(c, "answering", "nil") /\ NoFault
           \/ /\ rows' = rows \o <<NewRow(c, norm), NewRow(c, norm)>>
              /\ Proceed(c, "answering", "nil")
              /\ Fault("api_db_error")

\* Service.Create: the request is validated again and inserted.  An error
\* may leave the row inserted.
ServiceCreate(c) ==
    /\ calls[c].op = "create" /\ calls[c].pc = "service"
    /\ LET norm == ValidateCreateRequest(calls[c].req)
       IN  IF norm = Invalid
           THEN Proceed(c, "answering", "ErrInvalid") /\ UNCHANGED <<rows, faults>>
           ELSE \/ /\ rows' = Append(rows, NewRow(c, norm))
                   /\ Proceed(c, "answering", "nil") /\ NoFault
                \/ /\ rows' \in {rows, Append(rows, NewRow(c, norm))}
                   /\ Proceed(c, "answering", "database") /\ Fault("api_db_error")

\* Service.RetryFailed
ServiceRetry(c) ==
    /\ calls[c].op = "retry" /\ calls[c].pc = "service"
    /\ LET id == calls[c].id
           requeued == [rows EXCEPT ![id].status = "pending", ![id].requeued_by = @ \cup {c}]
       IN  IF id = 0 THEN Proceed(c, "answering", "ErrNotFound") /\ UNCHANGED <<rows, faults>>
           ELSE IF rows[id].status # "failed"
           THEN Proceed(c, "answering", "ErrConflict") /\ UNCHANGED <<rows, faults>>
           ELSE \/ rows' = requeued /\ Proceed(c, "answering", "nil") /\ NoFault
                \/ /\ rows' \in {rows, requeued}
                   /\ Proceed(c, "answering", "database") /\ Fault("api_db_error")

\* Service.Get and Service.ListAttempts.  The attempts of an unknown id are
\* an empty list, not an error.
ServiceRead(c) ==
    /\ calls[c].op \in {"get", "attempts"} /\ calls[c].pc = "service"
    /\ \/ /\ Proceed(c, "answering", IF calls[c].op = "get" /\ calls[c].id = 0
                                     THEN "ErrNotFound" ELSE "nil")
          /\ NoFault
       \/ Proceed(c, "answering", "database") /\ Fault("api_db_error")
    /\ UNCHANGED rows

Success(op) == IF op \in {"create", "retry"} THEN 202 ELSE 200

\* The handler writes its answer, and the client gets it or not.
Answer(c) ==
    /\ calls[c].pc = "answering"
    /\ LET code == IF calls[c].err = "nil" THEN Success(calls[c].op) ELSE StatusOf(calls[c].err)
       IN  \/ calls' = [calls EXCEPT ![c].pc = "done", ![c].answer = code] /\ NoFault
           \/ calls' = [calls EXCEPT ![c].pc = "done"] /\ Fault("answer_lost")
    /\ UNCHANGED rows

\* SIGTERM: ListenAndServe returns, main returns, and what the handlers had
\* not done is not done any more.
Exit ==
    /\ \E c \in CallID : calls[c].pc # "done"
    /\ Fault("api_exit")
    /\ calls' = [c \in CallID |-> [calls[c] EXCEPT !.pc = "done"]]
    /\ UNCHANGED rows

Handler(c) ==
    BindCreate(c) \/ BindID(c) \/ ServiceCreate(c) \/ ServiceRetry(c) \/ ServiceRead(c)
        \/ Answer(c)

IntakeStep ==
    \/ Post
    \/ \E op \in {"retry", "get", "attempts"} : Ask(op)
    \/ \E c \in CallID : Handler(c)
    \/ Exit

-----------------------------------------------------------------------------
\* Everything stored is its own normal form: validating it again changes and
\* refuses nothing, so what was accepted at the boundary (router.go:65) is
\* what the service, validating again (service.go:30), inserts.  It need not
\* be something net/http will send: that is more than validation asks.
StoredInNormalForm ==
    \A i \in 1..Len(rows) :
        LET req == rows[i].req
        IN  /\ req.method \in AllowedMethods
            /\ ~req.url.spaced /\ req.headers # NULL
            /\ req.max_attempts \in 1..20
            /\ ValidateCreateRequest(req) = req

Made(c) == {i \in 1..Len(rows) : rows[i].call = c}
Requeued(c) == {i \in 1..Len(rows) : c \in rows[i].requeued_by}

\* What an answer says is what happened: 202 to exactly one row made or
\* requeued, 4xx to none.  Only a call answered 500, or not at all, leaves it
\* open, and even it made at most one, so a client that repeats a POST gets
\* at most one more notification per call without a definite answer.
AnswersSayWhatHappened ==
    \A c \in CallID :
        LET done == IF calls[c].op = "create" THEN Made(c) ELSE Requeued(c)
        IN  /\ calls[c].answer = 202 => \E i \in done : done = {i}
            /\ calls[c].answer \in {200, 400, 404, 409} => done = {}
            /\ \A i, j \in done : i = j
=============================================================================

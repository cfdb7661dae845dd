-------------------------- MODULE RequestToVendor --------------------------
(***************************************************************************)
(* The service between its two outsides: clients' requests come in at the  *)
(* API, and the targets of what was stored are called by the workers'      *)
(* dispatcher.  How a stored notification gets to a worker (outbox, stream *)
(* and failures of the workers' own) is NotifySystem's; here a worker may  *)
(* take any row that waits.                                                *)
(***************************************************************************)
EXTENDS RequestIntake, VendorConnection

\* DNS can be asked for every host that comes to be looked up.
NameKnown(host) ==
    LET h == ToASCII(host)
    IN  RejectBlockedHost(h) \/ Parses(h) \/ h \in Names

ASSUME NamesAssumption == \A req \in Requests : NameKnown(req.url.host)

VARIABLE task       \* the row each worker delivers, 0 when it delivers none

vars == <<intakeVars, connectionVars, task, faults>>

Init ==
    /\ IntakeInit /\ ConnectionInit
    /\ task = [w \in Worker |-> 0]
    /\ faults = 0

Intake == IntakeStep /\ UNCHANGED <<connectionVars, task>>

Becomes(i, status) == rows' = [rows EXCEPT ![i].status = status]

\* Processor.Process: MarkDelivering, then Deliver.
Take(w, i) ==
    /\ rows[i].status \in {"pending", "retrying"}
    /\ Becomes(i, "delivering")
    /\ Begin(w, rows[i].req.url.host, rows[i].req.headers)
    /\ task' = [task EXCEPT ![w] = i]
    /\ UNCHANGED <<calls, faults>>

\* What RecordSuccess or RecordFailure makes of the row when Deliver has
\* returned: it succeeds only by an answer.
Recorded(w) ==
    {"retrying", "failed"} \cup IF deliver[w].pc = "sent" THEN {"succeeded"} ELSE {}

Deliver(w) ==
    /\ DeliverStep(w)
    /\ IF deliver'[w].pc # "idle" THEN UNCHANGED <<rows, task>>
       ELSE /\ task' = [task EXCEPT ![w] = 0]
            /\ \E status \in Recorded(w) : Becomes(task[w], status)
    /\ UNCHANGED <<calls, faults>>

Next ==
    \/ Intake
    \/ \E w \in Worker : Deliver(w) \/ \E i \in 1..Len(rows) : Take(w, i)
    \/ Outside /\ UNCHANGED <<intakeVars, task, faults>>

Spec == Init /\ [][Next]_vars
=============================================================================

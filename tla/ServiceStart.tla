---------------------------- MODULE ServiceStart ---------------------------
(***************************************************************************)
(* The mains in cmd/: three processes that start together, migrate one     *)
(* database and then do their work.  Of that work this module has what     *)
(* depends on the start: a relay that runs appends to the stream, and the  *)
(* goroutines of a worker process that runs create the consumer group and  *)
(* read.  A worker process that ends may be started again.                 *)
(***************************************************************************)
EXTENDS SchemaMigration, ConsumerGroup

CONSTANTS api, relay, worker

ASSUME ProcessAssumption == Process = {api, relay, worker}

vars == <<startVars, groupVars, faults>>

Init == StartInit /\ GroupInit /\ faults = 0

Start(p) == (StartStep(p) \/ StartFault(p)) /\ UNCHANGED groupVars

\* Relay.PublishDue appends.
Append == pc[relay] = "running" /\ Publish /\ UNCHANGED startVars

\* A goroutine of the worker's main.
Goroutines(g) == pc[worker] = "running" /\ GoroutineStep(g) /\ UNCHANGED startVars

\* The worker's main returns after its last goroutine.
WorkerReturns ==
    /\ pc[worker] = "running" /\ AllEnded
    /\ Exit(worker)
    /\ UNCHANGED <<schema, failed, lockLost, groupVars, faults>>

\* The worker process is killed, or has exited, and somebody starts it.
WorkerRestarts ==
    /\ pc[worker] \in {"running", "exited"}
    /\ Fault("worker_crash")
    /\ Goto(worker, "down")
    /\ failed' = failed \ {worker}
    /\ EndGoroutines
    /\ UNCHANGED <<holder, schema, plan, lockLost>>

Next ==
    \/ \E p \in Process : Start(p)
    \/ Append
    \/ \E g \in Goroutine : Goroutines(g)
    \/ WorkerReturns \/ WorkerRestarts
    \/ GroupLost /\ UNCHANGED startVars

Spec == Init /\ [][Next]_vars

\* A process that has been started runs on, PostgreSQL grants a lock that is
\* free to a session that waits for it, and a goroutine keeps reading.
\* Nothing is assumed of failures, of appends or of restarts.
FairSpec ==
    /\ Spec
    /\ \A p \in Process : WF_vars(StartStep(p) /\ UNCHANGED groupVars)
    /\ \A g \in Goroutine : WF_vars(Goroutines(g))
    /\ WF_vars(WorkerReturns)

-----------------------------------------------------------------------------
\* Every entry is handed out, however the starts of processes and goroutines
\* and the relay's appends interleave and fail, unless the worker process
\* has given up, or Redis has lost the group under running goroutines:
\* they made it once, when they started (cmd/worker/main.go:64), and their
\* reads fail from then on.
EntriesRead ==
    \A i \in Entry :
        i <= entries ~> i \in read \/ pc[worker] = "exited" \/ groupLost
=============================================================================

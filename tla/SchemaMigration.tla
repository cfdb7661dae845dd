-------------------------- MODULE SchemaMigration --------------------------
(***************************************************************************)
(* How the processes of the service start: LoadConfig, OpenDatabase and    *)
(* Migrate (internal/platform), called first by each main in cmd/.         *)
(*                                                                         *)
(* Processes that start together migrate one database.  Migrate holds a    *)
(* PostgreSQL advisory lock on one session while client.Schema.Create      *)
(* works on another: it looks which tables are missing and then creates    *)
(* them, in one transaction that fails when a table has appeared since.    *)
(* The lock goes with its session, when the process or the connection      *)
(* ends.                                                                   *)
(***************************************************************************)
EXTENDS FaultBudget

CONSTANTS Process,       \* api, relay and worker
          Tables,        \* what migrate.Schema.Create makes
          NULL           \* no process

ASSUME HolderAssumption == NULL \notin Process

Numbers == {"redis_db", "workers", "http_timeout", "relay_poll", "worker_block"}

\* A number's variable: not set, not a number, or the number's sign.
Texts == {"unset", "text", "negative", "zero", "positive"}
Environment == [Numbers -> Texts]

VARIABLES
    pc,         \* how far each process is
    holder,     \* the process whose session has the advisory lock
    schema,     \* the tables there are
    plan,       \* the tables each process is about to create
    failed,     \* the processes whose Schema.Create failed
    lockLost    \* history: the session that had the lock broke under its holder

startVars == <<pc, holder, schema, plan, failed, lockLost>>

StartInit ==
    /\ pc = [p \in Process |-> "down"]
    /\ holder = NULL
    /\ schema = {}
    /\ plan = [p \in Process |-> {}]
    /\ failed = {}
    /\ lockLost = FALSE

Goto(p, at) == pc' = [pc EXCEPT ![p] = at]

\* os.Exit, or death: the process's sessions end, and with them its lock.
Exit(p) ==
    /\ Goto(p, "exited")
    /\ holder' = IF holder = p THEN NULL ELSE holder
    /\ plan' = [plan EXCEPT ![p] = {}]

-----------------------------------------------------------------------------
\* envInt accepts what is unset or a number, positiveEnvInt what is unset or
\* positive.
EnvIntOK(text) == text # "text"
PositiveEnvIntOK(text) == text \in {"unset", "positive"}

ConfigOK(e) == EnvIntOK(e["redis_db"]) /\ \A n \in Numbers \ {"redis_db"} : PositiveEnvIntOK(e[n])

Answers == {ConfigOK(e) : e \in Environment}

\* The environment is read once, when the process starts.
LoadConfig(p) ==
    /\ pc[p] = "down"
    /\ \E ok \in Answers :
         IF ok THEN Goto(p, "open") /\ UNCHANGED <<holder, plan>> ELSE Exit(p)
    /\ UNCHANGED <<schema, failed, lockLost, faults>>

\* Ping succeeds, or the process gives up.
OpenDatabase(p) ==
    /\ pc[p] = "open"
    /\ \/ Goto(p, "lock") /\ NoFault /\ UNCHANGED <<holder, plan>>
       \/ Exit(p) /\ Fault("start_db_error")
    /\ UNCHANGED <<schema, failed, lockLost>>

\* Mutant: pg_try_advisory_lock, whose answer nobody looks at.
LockWithoutWaiting(p) ==
    /\ pc[p] = "lock"
    /\ holder' = IF holder = NULL THEN p ELSE holder
    /\ Goto(p, "inspect") /\ NoFault
    /\ UNCHANGED <<schema, plan, failed, lockLost>>

\* pg_advisory_lock waits until no session has the lock.
Lock(p) ==
    /\ pc[p] = "lock"
    /\ \/ holder = NULL /\ holder' = p /\ Goto(p, "inspect") /\ NoFault /\ UNCHANGED plan
       \/ Exit(p) /\ Fault("start_db_error")
    /\ UNCHANGED <<schema, failed, lockLost>>

\* Schema.Create, the reading half.
Inspect(p) ==
    /\ pc[p] = "inspect"
    /\ \/ /\ plan' = [plan EXCEPT ![p] = Tables \ schema]
          /\ Goto(p, "apply") /\ NoFault /\ UNCHANGED failed
       \/ /\ failed' = failed \cup {p}
          /\ Goto(p, "unlock") /\ Fault("start_db_error") /\ UNCHANGED plan
    /\ UNCHANGED <<holder, schema, lockLost>>

\* Schema.Create, the writing half: all tables or none.  An error may hide
\* that the transaction has committed.
Apply(p) ==
    /\ pc[p] = "apply"
    /\ LET created == IF plan[p] \cap schema = {} THEN schema \cup plan[p] ELSE schema
       IN  \/ /\ schema' = created
              /\ failed' = IF plan[p] \cap schema = {} THEN failed ELSE failed \cup {p}
              /\ NoFault
           \/ /\ schema' \in {schema, created}
              /\ failed' = failed \cup {p}
              /\ Fault("start_db_error")
    /\ Goto(p, "unlock")
    /\ plan' = [plan EXCEPT ![p] = {}]
    /\ UNCHANGED <<holder, lockLost>>

\* Mutant: Migrate returns what the unlock returned, not Schema.Create.
ReturnUnlock(p) ==
    /\ pc[p] = "unlock"
    /\ Goto(p, "running")
    /\ holder' = IF holder = p THEN NULL ELSE holder
    /\ UNCHANGED <<schema, plan, failed, lockLost, faults>>

\* Mutant: the lock stays with the connection, which goes back to the pool.
UnlockForgotten(p) ==
    /\ pc[p] = "unlock"
    /\ IF p \in failed THEN Exit(p) ELSE Goto(p, "running") /\ UNCHANGED <<holder, plan>>
    /\ UNCHANGED <<schema, failed, lockLost, faults>>

\* The deferred unlock, whose error nobody sees, and Migrate's return.
Unlock(p) ==
    /\ pc[p] = "unlock"
    /\ IF p \in failed THEN Exit(p)
       ELSE /\ Goto(p, "running")
            /\ holder' = IF holder = p THEN NULL ELSE holder
            /\ UNCHANGED plan
    /\ UNCHANGED <<schema, failed, lockLost, faults>>

Crash(p) ==
    /\ pc[p] \notin {"down", "exited"}
    /\ Fault("start_crash")
    /\ Exit(p)
    /\ UNCHANGED <<schema, failed, lockLost>>

\* The connection that has the lock breaks; Schema.Create, on another one,
\* goes on.
SessionLost(p) ==
    /\ pc[p] \in {"inspect", "apply"} /\ holder = p
    /\ Fault("session_loss")
    /\ holder' = NULL
    /\ lockLost' = TRUE
    /\ UNCHANGED <<pc, schema, plan, failed>>

StartStep(p) ==
    LoadConfig(p) \/ OpenDatabase(p) \/ Lock(p) \/ Inspect(p) \/ Apply(p) \/ Unlock(p)

StartFault(p) == Crash(p) \/ SessionLost(p)

-----------------------------------------------------------------------------
\* "A PostgreSQL advisory lock serializes migration attempts and avoids
\* concurrent type/table creation races" (database.go:30): what a process is
\* about to create is still missing.  The lock is on another session than
\* the changes, so this ends when the lock's session breaks.
PlanIsCurrent == lockLost \/ \A p \in Process : plan[p] \cap schema = {}

\* Whatever fails while processes start together, the lock's session
\* included, a process goes on from Migrate only when every table is there
\* (database.go:46): of two that create the same tables, one exits.
RunsOnFullSchema == \A p \in Process : pc[p] = "running" => schema = Tables

\* No process waits for the migration lock for ever: each one that is
\* started runs or exits, although others die or fail while they have it
\* (database.go:41, 44).
StartsOrExits == \A p \in Process : pc[p] = "open" ~> pc[p] \in {"running", "exited"}
=============================================================================

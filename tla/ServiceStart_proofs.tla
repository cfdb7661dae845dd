------------------------ MODULE ServiceStart_proofs ------------------------
(***************************************************************************)
(* Proofs about processes that start together: their migrations follow one *)
(* another while the advisory lock is held, none runs on a schema with     *)
(* tables missing, and the consumer group steps over no entry.             *)
(***************************************************************************)
EXTENDS ServiceStart, TLAPS

(***************************************************************************)
(* Migration                                                               *)
(***************************************************************************)
Migrating == {"inspect", "apply", "unlock"}

StartType ==
    /\ pc \in [Process -> {"down", "open", "lock", "running", "exited"} \cup Migrating]
    /\ plan \in [Process -> SUBSET Tables]
    /\ schema \subseteq Tables
    /\ lockLost \in BOOLEAN

\* As long as no lock was lost under its holder, who migrates has the lock.
MigratesWithLock == lockLost \/ \A p \in Process : pc[p] \in Migrating => holder = p

\* Only a process between the two halves of Schema.Create has a plan.
PlansWhileApplying == \A p \in Process : pc[p] # "apply" => plan[p] = {}

\* A plan completes the schema, and a process whose Schema.Create succeeded
\* left it complete.  Tables are never dropped, so both stay true.
PlanCompletes ==
    \A p \in Process :
        /\ pc[p] = "apply" => Tables \subseteq schema \cup plan[p]
        /\ pc[p] = "unlock" /\ p \notin failed => Tables \subseteq schema

StartInv ==
    /\ StartType
    /\ MigratesWithLock
    /\ PlansWhileApplying
    /\ PlanCompletes
    /\ PlanIsCurrent
    /\ RunsOnFullSchema

LEMMA StartInvInit == Init => StartInv
  BY DEF Init, StartInit, StartInv, StartType, MigratesWithLock, PlansWhileApplying,
         PlanCompletes, PlanIsCurrent, RunsOnFullSchema, Migrating

-----------------------------------------------------------------------------
LEMMA ExitEffect ==
    ASSUME StartInv, NEW p \in Process, Exit(p)
    PROVE  /\ pc' \in [Process -> {"down", "open", "lock", "running", "exited"} \cup Migrating]
           /\ plan' \in [Process -> SUBSET Tables]
           /\ pc'[p] = "exited" /\ plan'[p] = {}
           /\ \A q \in Process \ {p} : pc'[q] = pc[q] /\ plan'[q] = plan[q]
           /\ \A q \in Process \ {p} : holder = q => holder' = q
  BY DEF Exit, Goto, StartInv, StartType

\* A process that ends, or only moves outside Migrate, keeps the invariant.
LEMMA LeavesKeep ==
    ASSUME StartInv, NEW p \in Process,
           pc' \in [Process -> {"down", "open", "lock", "running", "exited"} \cup Migrating],
           plan' \in [Process -> SUBSET Tables],
           pc'[p] \notin Migrating, plan'[p] = {},
           pc'[p] = "running" => pc[p] = "running" \/ schema = Tables,
           \A q \in Process \ {p} : pc'[q] = pc[q] /\ plan'[q] = plan[q],
           \A q \in Process \ {p} : holder = q => holder' = q,
           \A q \in Process \ {p} : q \in failed <=> q \in failed',
           UNCHANGED <<schema, lockLost>>
    PROVE  StartInv'
  <1>1. StartType'
    BY DEF StartInv, StartType
  <1>2. MigratesWithLock'
    BY DEF StartInv, StartType, MigratesWithLock
  <1>3. PlansWhileApplying'
    BY DEF StartInv, StartType, PlansWhileApplying
  <1>4. PlanCompletes'
    BY DEF StartInv, StartType, PlanCompletes, Migrating
  <1>5. PlanIsCurrent'
    BY DEF StartInv, StartType, PlanIsCurrent
  <1>6. RunsOnFullSchema'
    BY DEF StartInv, StartType, RunsOnFullSchema
  <1> QED
    BY <1>1, <1>2, <1>3, <1>4, <1>5, <1>6 DEF StartInv

LEMMA ExitKeeps ==
    ASSUME StartInv, NEW p \in Process, Exit(p), UNCHANGED <<schema, failed, lockLost>>
    PROVE  StartInv'
  BY ExitEffect, LeavesKeep DEF Migrating

\* A process that goes on to a place outside Migrate.
LEMMA GotoKeeps ==
    ASSUME StartInv, NEW p \in Process, NEW place \in {"down", "open", "lock"},
           pc[p] # "apply", Goto(p, place), UNCHANGED <<holder, plan, schema, lockLost>>,
           \A q \in Process \ {p} : q \in failed <=> q \in failed'
    PROVE  StartInv'
  BY LeavesKeep DEF Goto, StartInv, StartType, PlansWhileApplying, Migrating

LEMMA LockKeeps ==
    ASSUME StartInv, NEW p \in Process, Lock(p)
    PROVE  StartInv'
  <1>1. CASE Exit(p)
    BY <1>1, ExitKeeps DEF Lock
  <1>2. CASE holder = NULL /\ holder' = p /\ Goto(p, "inspect") /\ UNCHANGED plan
    <2>1. pc' = [pc EXCEPT ![p] = "inspect"] /\ UNCHANGED <<schema, failed, plan, lockLost>>
      BY <1>2 DEF Lock, Goto
    <2>2. lockLost \/ \A q \in Process : pc[q] \notin Migrating
      BY <1>2, HolderAssumption DEF StartInv, MigratesWithLock
    <2>3. StartType'
      BY <2>1 DEF StartInv, StartType, Migrating
    <2>4. MigratesWithLock'
      BY <1>2, <2>1, <2>2 DEF StartInv, StartType, MigratesWithLock
    <2>5. PlansWhileApplying' /\ PlanCompletes' /\ PlanIsCurrent' /\ RunsOnFullSchema'
      BY <2>1 DEF Lock, StartInv, StartType, PlansWhileApplying, PlanCompletes, PlanIsCurrent,
                  RunsOnFullSchema
    <2> QED
      BY <2>3, <2>4, <2>5 DEF StartInv
  <1> QED
    BY <1>1, <1>2 DEF Lock

LEMMA InspectKeeps ==
    ASSUME StartInv, NEW p \in Process, Inspect(p)
    PROVE  StartInv'
  <1>1. pc[p] = "inspect" /\ UNCHANGED <<holder, schema, lockLost>>
    BY DEF Inspect
  <1>2. CASE plan' = [plan EXCEPT ![p] = Tables \ schema] /\ Goto(p, "apply") /\ UNCHANGED failed
    <2>1. pc' = [pc EXCEPT ![p] = "apply"]
      BY <1>2 DEF Goto
    <2>2. StartType'
      BY <1>1, <1>2, <2>1 DEF StartInv, StartType, Migrating
    <2>3. MigratesWithLock' /\ PlansWhileApplying'
      BY <1>1, <1>2, <2>1 DEF StartInv, StartType, MigratesWithLock, PlansWhileApplying, Migrating
    <2>4. PlanCompletes' /\ PlanIsCurrent'
      BY <1>1, <1>2, <2>1 DEF StartInv, StartType, PlanCompletes, PlanIsCurrent
    <2>5. RunsOnFullSchema'
      BY <1>1, <1>2, <2>1 DEF StartInv, StartType, RunsOnFullSchema
    <2> QED
      BY <2>2, <2>3, <2>4, <2>5 DEF StartInv
  <1>3. CASE failed' = failed \cup {p} /\ Goto(p, "unlock") /\ UNCHANGED plan
    <2>1. pc' = [pc EXCEPT ![p] = "unlock"]
      BY <1>3 DEF Goto
    <2>2. StartType'
      BY <1>1, <1>3, <2>1 DEF StartInv, StartType, Migrating
    <2>3. MigratesWithLock' /\ PlansWhileApplying'
      BY <1>1, <1>3, <2>1 DEF StartInv, StartType, MigratesWithLock, PlansWhileApplying, Migrating
    <2>4. PlanCompletes' /\ PlanIsCurrent' /\ RunsOnFullSchema'
      BY <1>1, <1>3, <2>1 DEF StartInv, StartType, PlanCompletes, PlanIsCurrent, RunsOnFullSchema
    <2> QED
      BY <2>2, <2>3, <2>4 DEF StartInv
  <1> QED
    BY <1>2, <1>3 DEF Inspect

LEMMA ApplyKeeps ==
    ASSUME StartInv, NEW p \in Process, Apply(p)
    PROVE  StartInv'
  <1>1. /\ pc[p] = "apply" /\ UNCHANGED <<holder, lockLost>>
        /\ pc' = [pc EXCEPT ![p] = "unlock"]
        /\ plan' = [plan EXCEPT ![p] = {}]
    BY DEF Apply, Goto
  <1>2. /\ schema' \in {schema, schema \cup plan[p]}
        /\ \/ schema' = schema \cup plan[p] /\ UNCHANGED failed
           \/ failed' = failed \cup {p}
    BY DEF Apply
  <1>3. schema \subseteq schema' /\ schema' \subseteq Tables
    BY <1>2 DEF StartInv, StartType
  <1>4. StartType'
    BY <1>1, <1>3 DEF StartInv, StartType, Migrating
  <1>5. MigratesWithLock' /\ PlansWhileApplying'
    BY <1>1 DEF StartInv, StartType, MigratesWithLock, PlansWhileApplying, Migrating
  <1>6. PlanCompletes'
    BY <1>1, <1>2, <1>3 DEF StartInv, StartType, PlanCompletes
  <1>7. PlanIsCurrent'
    <2>1. lockLost \/ \A q \in Process \ {p} : pc[q] # "apply"
      BY <1>1 DEF StartInv, MigratesWithLock, Migrating
    <2> QED
      BY <1>1, <2>1 DEF StartInv, StartType, PlansWhileApplying, PlanIsCurrent
  <1>8. RunsOnFullSchema'
    BY <1>1, <1>3 DEF StartInv, StartType, RunsOnFullSchema
  <1> QED
    BY <1>4, <1>5, <1>6, <1>7, <1>8 DEF StartInv

LEMMA UnlockKeeps ==
    ASSUME StartInv, NEW p \in Process, Unlock(p)
    PROVE  StartInv'
  <1>1. CASE p \in failed
    BY <1>1, ExitKeeps DEF Unlock
  <1>2. CASE p \notin failed
    <2>1. /\ pc[p] = "unlock" /\ pc' = [pc EXCEPT ![p] = "running"]
          /\ holder' = IF holder = p THEN NULL ELSE holder
          /\ UNCHANGED <<plan, schema, failed, lockLost>>
      BY <1>2 DEF Unlock, Goto
    <2>2. schema = Tables
      BY <1>2, <2>1 DEF StartInv, StartType, PlanCompletes
    <2> QED
      BY <2>1, <2>2, LeavesKeep DEF StartInv, StartType, PlansWhileApplying, Migrating
  <1> QED
    BY <1>1, <1>2

LEMMA SessionLostKeeps ==
    ASSUME StartInv, NEW p \in Process, SessionLost(p)
    PROVE  StartInv'
  BY DEF SessionLost, StartInv, StartType, MigratesWithLock, PlansWhileApplying, PlanCompletes,
         PlanIsCurrent, RunsOnFullSchema

LEMMA StartKeeps ==
    ASSUME StartInv, NEW p \in Process, Start(p)
    PROVE  StartInv'
  <1>1. CASE LoadConfig(p)
    <2>1. CASE Exit(p)
      BY <1>1, <2>1, ExitKeeps DEF LoadConfig
    <2>2. CASE Goto(p, "open") /\ UNCHANGED <<holder, plan>>
      BY <1>1, <2>2, GotoKeeps DEF LoadConfig
    <2> QED
      BY <1>1, <2>1, <2>2 DEF LoadConfig
  <1>2. CASE OpenDatabase(p)
    <2>1. CASE Exit(p)
      BY <1>2, <2>1, ExitKeeps DEF OpenDatabase
    <2>2. CASE Goto(p, "lock") /\ UNCHANGED <<holder, plan>>
      BY <1>2, <2>2, GotoKeeps DEF OpenDatabase
    <2> QED
      BY <1>2, <2>1, <2>2 DEF OpenDatabase
  <1>3. CASE Crash(p)
    BY <1>3, ExitKeeps DEF Crash
  <1> QED
    BY <1>1, <1>2, <1>3, LockKeeps, InspectKeeps, ApplyKeeps, UnlockKeeps, SessionLostKeeps
       DEF Start, StartStep, StartFault

LEMMA StartInvNext ==
    ASSUME StartInv, [Next]_vars
    PROVE  StartInv'
  <1>0. worker \in Process
    BY ProcessAssumption
  <1>1. CASE UNCHANGED startVars
    BY <1>1 DEF startVars, StartInv, StartType, MigratesWithLock, PlansWhileApplying,
                PlanCompletes, PlanIsCurrent, RunsOnFullSchema
  <1>2. CASE WorkerReturns
    BY <1>0, <1>2, ExitKeeps DEF WorkerReturns
  <1>3. CASE WorkerRestarts
    <2>1. /\ pc[worker] # "apply" /\ Goto(worker, "down")
          /\ UNCHANGED <<holder, plan, schema, lockLost>>
          /\ failed' = failed \ {worker}
      BY <1>3 DEF WorkerRestarts
    <2> QED
      BY <1>0, <2>1, GotoKeeps
  <1> QED
    BY <1>1, <1>2, <1>3, StartKeeps DEF Next, vars, Append, Goroutines

\* "A PostgreSQL advisory lock serializes migration attempts": for any
\* number of tables and failures, what a process that starts is about to
\* create is still missing, unless the lock's session broke (database.go:33).
THEOREM MigrationsSerialised == Spec => []PlanIsCurrent
  <1>1. StartInv => PlanIsCurrent
    BY DEF StartInv
  <1> QED
    BY <1>1, StartInvInit, StartInvNext, PTL DEF Spec

\* No process goes on from Migrate without all tables, even when the lock's
\* session breaks under a migration (database.go:46).
THEOREM RunningOnFullSchema == Spec => []RunsOnFullSchema
  <1>1. StartInv => RunsOnFullSchema
    BY DEF StartInv
  <1> QED
    BY <1>1, StartInvInit, StartInvNext, PTL DEF Spec

-----------------------------------------------------------------------------
(***************************************************************************)
(* The consumer group                                                      *)
(***************************************************************************)
GroupInv ==
    /\ entries \in Nat
    /\ group # NoGroup => group \in Nat
    /\ NothingSkipped

LEMMA GroupInvInit == Init => GroupInv
  BY DEF Init, GroupInit, GroupInv, NothingSkipped

\* Creating the group at 0 steps over nothing, and a read hands out all that
\* the group moves past.
LEMMA GoroutineKeeps ==
    ASSUME GroupInv, NEW g \in Goroutine, GoroutineStep(g)
    PROVE  GroupInv'
  <1>1. CASE EnsureGroup(g)
    <2>1. UNCHANGED <<entries, read>> /\ (group' = 0 \/ group' = group)
      BY <1>1 DEF EnsureGroup
    <2> QED
      BY <2>1 DEF GroupInv, NothingSkipped
  <1>2. CASE Read(g)
    <2>1. /\ group \in Nat /\ group < entries /\ 1..group \subseteq read
          /\ entries' = entries /\ group' = entries
          /\ read' = read \cup (group + 1)..entries
      BY <1>2 DEF Read, GroupInv, NothingSkipped
    <2>2. 1..entries \subseteq 1..group \cup (group + 1)..entries
      BY <2>1 DEF GroupInv
    <2> QED
      BY <2>1, <2>2 DEF GroupInv, NothingSkipped
  <1> QED
    BY <1>1, <1>2 DEF GoroutineStep

LEMMA GroupInvNext ==
    ASSUME GroupInv, [Next]_vars
    PROVE  GroupInv'
  <1>1. CASE UNCHANGED <<entries, group, read>>
    BY <1>1 DEF GroupInv, NothingSkipped
  <1>2. CASE Append
    BY <1>2 DEF Append, Publish, GroupInv, NothingSkipped
  <1>3. CASE GroupLost
    BY <1>3 DEF GroupLost, GroupInv, NothingSkipped
  <1> QED
    BY <1>1, <1>2, <1>3, GoroutineKeeps
       DEF Next, vars, groupVars, Start, Goroutines, WorkerReturns, WorkerRestarts, EndGoroutines

\* However relays append before, between and after the starts of the workers,
\* and whenever Redis loses the group, the group steps over no entry
\* (redis.go:66).
THEOREM GroupSkipsNothing == Spec => []NothingSkipped
  <1>1. GroupInv => NothingSkipped
    BY DEF GroupInv
  <1> QED
    BY <1>1, GroupInvInit, GroupInvNext, PTL DEF Spec
=============================================================================

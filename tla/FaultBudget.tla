---------------------------- MODULE FaultBudget ----------------------------
(***************************************************************************)
(* The failures of the world around the three processes.                   *)
(*                                                                         *)
(* A failure is a step the code has to survive: a process dies, a          *)
(* PostgreSQL or Redis call returns an error (with or without having had   *)
(* its effect), Redis forgets what it had not yet flushed.  Every such     *)
(* step names its kind and spends one unit of a budget, so that TLC        *)
(* explores every placement of at most MaxFaults failures and a            *)
(* configuration can rule a kind out.                                      *)
(***************************************************************************)
EXTENDS Naturals

CONSTANTS
    FaultKinds,   \* the kinds of failure that may happen
    MaxFaults     \* bound: how many failures a behaviour may contain

AllFaultKinds ==
    { "relay_crash",     \* a relay process dies and is restarted
      "worker_crash",    \* a worker goroutine's process dies and is restarted
      "relay_db_error",  \* a PostgreSQL call of a relay returns an error
      "worker_db_error", \* a PostgreSQL call of a worker returns an error
      "redis_error",     \* a Redis call returns an error
      "redis_loss",      \* Redis restarts without its last unflushed commands
      "foreign_message", \* something else appends a malformed stream entry
      "group_loss",      \* Redis restarts without the consumer group
      "api_db_error",    \* a PostgreSQL call of an API handler returns an error
      "api_exit",        \* the API process ends with handlers still running
      "answer_lost",     \* an HTTP answer does not reach its client
      "start_crash",     \* a process dies while it starts
      "start_db_error",  \* a PostgreSQL call of a starting process returns an error
      "session_loss" }   \* the session that holds the migration lock ends

ASSUME FaultAssumption ==
    /\ FaultKinds \subseteq AllFaultKinds
    /\ MaxFaults \in Nat

VARIABLE faults    \* how many failures have happened

\* One failure of the given kind happens in this step.
Fault(kind) ==
    /\ kind \in FaultKinds
    /\ faults < MaxFaults
    /\ faults' = faults + 1

NoFault == UNCHANGED faults
=============================================================================

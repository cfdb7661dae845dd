--------------------------- MODULE ConsumerGroup ---------------------------
(***************************************************************************)
(* A worker process (cmd/worker/main.go) and the consumer group its        *)
(* goroutines read through.  Each goroutine makes sure that the group      *)
(* exists once, when it starts (stream.Consumer.EnsureGroup), and then     *)
(* reads for as long as the process runs; relays append whenever they      *)
(* like, before any worker has started too.                                *)
(*                                                                         *)
(* The pending entries list and the acknowledgements are DeliveryStream's; *)
(* here an entry counts as read once the group has handed it out.          *)
(***************************************************************************)
EXTENDS FaultBudget

CONSTANTS Goroutine,     \* the worker process's goroutines
          MaxEntries,    \* bound: how many entries are appended
          NoGroup

ASSUME GroupAssumption == MaxEntries \in Nat

VARIABLES
    entries,    \* how many entries the stream has, ids 1, 2, ...
    group,      \* the group's last delivered id, NoGroup when there is no group
    read,       \* the ids that were handed out
    at,         \* where each goroutine is
    groupLost   \* history: Redis lost the group

groupVars == <<entries, group, read, at, groupLost>>

Entry == 1..MaxEntries

GroupInit ==
    /\ entries = 0
    /\ group = NoGroup
    /\ read = {}
    /\ at = [g \in Goroutine |-> "start"]
    /\ groupLost = FALSE

\* XADD by a relay.
Publish ==
    /\ entries < MaxEntries
    /\ entries' = entries + 1
    /\ UNCHANGED <<group, read, at, groupLost, faults>>

\* Mutant: the group starts with the entries that come after it ("$").
EnsureGroupAtEnd(g) ==
    /\ at[g] = "start"
    /\ group' = IF group = NoGroup THEN entries ELSE group
    /\ at' = [at EXCEPT ![g] = "loop"]
    /\ NoFault
    /\ UNCHANGED <<entries, read, groupLost>>

\* Mutant: that there is a group already (BUSYGROUP) is an error like any
\* other, and tried again.
EnsureGroupRetrying(g) ==
    /\ at[g] = "start" /\ group = NoGroup
    /\ group' = 0
    /\ at' = [at EXCEPT ![g] = "loop"]
    /\ NoFault
    /\ UNCHANGED <<entries, read, groupLost>>

\* XGROUP CREATE ... 0 MKSTREAM; that there is a group already (BUSYGROUP)
\* is no error, any other error ends the goroutine, with or without the
\* group made.
EnsureGroup(g) ==
    /\ at[g] = "start"
    /\ LET made == IF group = NoGroup THEN 0 ELSE group
       IN  \/ /\ group' = made
              /\ at' = [at EXCEPT ![g] = "loop"]
              /\ NoFault
           \/ /\ group' \in {group, made}
              /\ at' = [at EXCEPT ![g] = "ended"]
              /\ Fault("redis_error")
    /\ UNCHANGED <<entries, read, groupLost>>

\* XREADGROUP with >.  Without a group it is an error (NOGROUP) that is
\* logged, and the loop goes on a second later.
Read(g) ==
    /\ at[g] = "loop"
    /\ group # NoGroup /\ group < entries
    /\ read' = read \cup (group + 1)..entries
    /\ group' = entries
    /\ UNCHANGED <<entries, at, groupLost, faults>>

\* The process has ended, and all its goroutines with it; they start anew
\* when somebody starts it again.
EndGoroutines ==
    /\ at' = [g \in Goroutine |-> "start"]
    /\ UNCHANGED <<entries, group, read, groupLost>>

\* wg.Wait returns when every goroutine has ended.
AllEnded == \A g \in Goroutine : at[g] = "ended"

\* Redis restarts from a file without the last second's XGROUP CREATE.
GroupLost ==
    /\ group # NoGroup
    /\ Fault("group_loss")
    /\ group' = NoGroup
    /\ groupLost' = TRUE
    /\ UNCHANGED <<entries, read, at>>

GoroutineStep(g) == EnsureGroup(g) \/ Read(g)

-----------------------------------------------------------------------------
\* The group never steps over an entry: whatever a relay appended before the
\* first worker created the group, and whenever the group is lost and made
\* again, what lies behind the group's position was handed out
\* (redis.go:66, the group starts at 0).
NothingSkipped == group # NoGroup => 1..group \subseteq read
=============================================================================

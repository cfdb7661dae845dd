---------------------------- MODULE OutboxRelay ----------------------------
(***************************************************************************)
(* The relay processes: internal/outbox (Relay.PublishDue on               *)
(* PostgresStore), started and polled by cmd/relay/main.go.                *)
(*                                                                         *)
(* A relay is one thread.  PublishDue claims a page of due outbox rows and *)
(* then, row by row, appends to the stream and finishes the row.  Between  *)
(* two of these calls anything else may happen, the claim's expiry and its *)
(* takeover by another relay included.                                     *)
(***************************************************************************)
EXTENDS DeliveryStream

CONSTANTS
    Relay,       \* the relay processes
    Locker,      \* the LockerID of each relay: its host's name
    BatchSize,   \* the LIMIT of ClaimDue (50 in cmd/relay)
    PromptRelays \* whether a relay always finishes a row within 5 minutes

ASSUME RelayAssumption ==
    /\ Locker \in [Relay -> LockerID]
    /\ BatchSize \in Nat \ {0}
    /\ PromptRelays \in BOOLEAN

VARIABLES
    relayPc,     \* where each relay is in PublishDue
    claimed,     \* the claimed events it has not handled yet
    relayEvent   \* the event it is handling

relayVars == <<relayPc, claimed, relayEvent>>

RelayTypeOK ==
    /\ relayPc \in [Relay -> {"loop", "published", "failed"}]
    /\ claimed \in [Relay -> SUBSET EventID]
    /\ relayEvent \in [Relay -> EventID \cup {NoEvent}]

RelayInit ==
    /\ relayPc = [r \in Relay |-> "loop"]
    /\ claimed = [r \in Relay |-> {}]
    /\ relayEvent = [r \in Relay |-> NoEvent]

\* PublishDue returns, and the relay polls again at the next tick.  What is
\* left of the page stays in "publishing" until its lock expires.
Return(r) ==
    /\ relayPc' = [relayPc EXCEPT ![r] = "loop"]
    /\ claimed' = [claimed EXCEPT ![r] = {}]
    /\ relayEvent' = [relayEvent EXCEPT ![r] = NoEvent]

\* The loop goes on with the next claimed event.
Continue(r) ==
    /\ relayPc' = [relayPc EXCEPT ![r] = "loop"]
    /\ relayEvent' = [relayEvent EXCEPT ![r] = NoEvent]
    /\ UNCHANGED claimed

-----------------------------------------------------------------------------
(***************************************************************************)
(* PostgresStore                                                           *)
(***************************************************************************)

\* Mutant: rows of a dead relay are never taken over.
ClaimablePendingOnly(e) == outbox[e].due /\ outbox[e].status = "pending"

\* Mutant: rows being published are claimed whatever their lock's age.
ClaimableWhenLocked(e) == outbox[e].due /\ outbox[e].status \in {"pending", "publishing"}

\* Mutant: scheduled_at is not looked at.
ClaimableEarly(e) ==
    \/ outbox[e].status = "pending"
    \/ outbox[e].status = "publishing" /\ outbox[e].lock_expired

\* The WHERE clause of ClaimDue.
Claimable(e) ==
    /\ outbox[e].due
    /\ \/ outbox[e].status = "pending"
       \/ outbox[e].status = "publishing" /\ outbox[e].lock_expired

\* The rows one ClaimDue picks: up to BatchSize claimable ones.  Which ones
\* is left open, as scheduled_at's order is; SKIP LOCKED only skips rows
\* another relay is claiming at that moment.
ClaimPages ==
    LET due == {e \in EventID : Claimable(e)}
    IN  {page \in SUBSET due : \/ page = due /\ Cardinality(due) <= BatchSize
                               \/ Cardinality(page) = BatchSize}

\* The WHERE clause of MarkPublished and MarkFailed.
OwnsClaim(r, e) ==
    /\ outbox[e].status = "publishing"
    /\ outbox[e].locked_by = Locker[r]

\* A row with a status, a lock owner and a lock that is not old.
Relocked(row, status, locker) ==
    [row EXCEPT !.status = status, !.locked_by = locker, !.lock_expired = FALSE]

\* Mutant: a failed publish gets the status "failed" of the table's enum.
ReleasedAsFailed(e, status) ==
    [outbox EXCEPT ![e] =
        Relocked(@, IF status = "pending" THEN "failed" ELSE status, "none")]

\* A claim ends: the row takes its next status and gives up its lock.
Released(e, status) ==
    [outbox EXCEPT ![e] = Relocked(@, status, "none")]

-----------------------------------------------------------------------------
(***************************************************************************)
(* Relay.PublishDue                                                        *)
(***************************************************************************)

\* The claim commits; its answer arrives, or is lost with the connection.
ClaimDue(r) ==
    /\ relayPc[r] = "loop"
    /\ claimed[r] = {}
    /\ \E page \in ClaimPages \ {{}} :
        /\ outbox' = [e \in EventID |->
                IF e \in page THEN Relocked(outbox[e], "publishing", Locker[r])
                             ELSE outbox[e]]
        /\ \/ claimed' = [claimed EXCEPT ![r] = page] /\ NoFault
           \/ Fault("relay_db_error") /\ UNCHANGED claimed
    /\ UNCHANGED <<relayPc, relayEvent, stream, lost, notifications, attempts>>

\* XADD succeeds, fails, or takes effect although its answer is an error.
Publish(r) ==
    /\ relayPc[r] = "loop"
    /\ \E e \in claimed[r] :
        /\ relayEvent' = [relayEvent EXCEPT ![r] = e]
        /\ claimed' = [claimed EXCEPT ![r] = @ \ {e}]
        /\ \/ /\ PublishEvent(e)
              /\ relayPc' = [relayPc EXCEPT ![r] = "published"]
              /\ NoFault
           \/ /\ PublishEvent(e)
              /\ relayPc' = [relayPc EXCEPT ![r] = "failed"]
              /\ Fault("redis_error")
           \/ /\ UNCHANGED stream
              /\ relayPc' = [relayPc EXCEPT ![r] = "failed"]
              /\ Fault("redis_error")
    /\ UNCHANGED <<storeVars, lost>>

\* Finishing the row after the publish, with status "published" or, to be
\* retried, "pending".  ErrLostClaim and database errors end PublishDue; an
\* error may hide that the update was committed.
FinishClaim(r, status) ==
    LET e == relayEvent[r]
    IN  \/ /\ OwnsClaim(r, e)
           /\ outbox' = Released(e, status)
           /\ \/ Continue(r) /\ NoFault
              \/ Return(r) /\ Fault("relay_db_error")
        \/ /\ ~OwnsClaim(r, e)
           /\ Return(r)
           /\ NoFault
           /\ UNCHANGED outbox
        \/ /\ Return(r)
           /\ Fault("relay_db_error")
           /\ UNCHANGED outbox

MarkPublished(r) ==
    /\ relayPc[r] = "published"
    /\ FinishClaim(r, "published")
    /\ UNCHANGED <<streamVars, notifications, attempts>>

\* Mutant: a failed publish finishes the row like a successful one.
MarkFailedAsPublished(r) ==
    /\ relayPc[r] = "failed"
    /\ FinishClaim(r, "published")
    /\ UNCHANGED <<streamVars, notifications, attempts>>

MarkFailed(r) ==
    /\ relayPc[r] = "failed"
    /\ FinishClaim(r, "pending")
    /\ UNCHANGED <<streamVars, notifications, attempts>>

-----------------------------------------------------------------------------
(***************************************************************************)
(* Crashes and the clock                                                   *)
(***************************************************************************)

Holds(r, e) == e \in claimed[r] \cup {relayEvent[r]}

\* The process dies and is restarted with nothing but its name.
RelayCrash(r) ==
    /\ \E e \in EventID : Holds(r, e)
    /\ Fault("relay_crash")
    /\ Return(r)
    /\ UNCHANGED <<storeVars, streamVars>>

\* An event's scheduled_at comes.
EventDue(e) ==
    /\ outbox[e].status # Absent
    /\ ~outbox[e].due
    /\ outbox' = [outbox EXCEPT ![e].due = TRUE]
    /\ UNCHANGED <<notifications, attempts, streamVars, relayVars, faults>>

\* A claim becomes five minutes old.
LockExpires(e) ==
    /\ outbox[e].status = "publishing"
    /\ ~outbox[e].lock_expired
    /\ PromptRelays => \A r \in Relay : ~Holds(r, e)
    /\ outbox' = [outbox EXCEPT ![e].lock_expired = TRUE]
    /\ UNCHANGED <<notifications, attempts, streamVars, relayVars, faults>>

RelayStep(r) ==
    ClaimDue(r) \/ Publish(r) \/ MarkPublished(r) \/ MarkFailed(r)
=============================================================================

-------------------------- MODULE DeliveryStream ---------------------------
(***************************************************************************)
(* The Redis stream notification-deliveries and its consumer group         *)
(* notification-workers, as internal/stream uses them.  Redis itself is    *)
(* external: its commands are modelled from the calls in                   *)
(* internal/stream/redis.go.                                               *)
(*                                                                         *)
(* Entry ids are the order of XADD.  An entry is "new" until the group     *)
(* hands it out, "pending" while it sits in the group's pending entries    *)
(* list, "acked" after XACK and "lost" once Redis has forgotten it.  The   *)
(* consumer an entry is pending for is left out: XAUTOCLAIM takes entries  *)
(* from every consumer, its caller included, and XACK does not look at it. *)
(* idle says that the entry's idle time has reached ClaimAndProcess's      *)
(* minIdle of 30 seconds.                                                  *)
(***************************************************************************)
EXTENDS NotificationStore, FaultBudget, FiniteSets

CONSTANTS
    MaxMessages,   \* bound: how many entries may be appended
    ReadCount      \* COUNT of XREADGROUP and XAUTOCLAIM (10 in cmd/worker)

ASSUME StreamAssumption ==
    /\ MaxMessages \in Nat
    /\ ReadCount \in Nat \ {0}

VARIABLES
    stream,   \* the entries
    lost      \* history: Redis has forgotten an entry that was not acked

streamVars == <<stream, lost>>

MessageID == 1..MaxMessages

Message ==
    [ outbox_event_id : EventID \cup {NoEvent},
      notification_id : Notification \cup {"none"},
      state           : {Absent, "new", "pending", "acked", "lost"},
      idle            : BOOLEAN ]

StreamTypeOK ==
    /\ stream \in [MessageID -> Message]
    /\ lost \in BOOLEAN

StreamInit ==
    /\ stream = [m \in MessageID |->
            [ outbox_event_id |-> NoEvent, notification_id |-> "none",
              state |-> Absent, idle |-> FALSE ]]
    /\ lost = FALSE

\* An entry the group still has to see acknowledged.
Unacked(m) == stream[m].state \in {"new", "pending"}

\* ParseDeliveryMessage accepts what BuildDeliveryMessage wrote, and rejects
\* an entry without the two ids.
Parses(m) == stream[m].outbox_event_id # NoEvent

-----------------------------------------------------------------------------
(***************************************************************************)
(* Redis commands                                                          *)
(***************************************************************************)

\* m is the id the next XADD gets.
NextMessage(m) ==
    /\ stream[m].state = Absent
    /\ \A x \in 1..(m - 1) : stream[x].state # Absent

XAdd(event, notification) ==
    \E m \in MessageID :
        /\ NextMessage(m)
        /\ stream' = [stream EXCEPT ![m] =
                [ outbox_event_id |-> event, notification_id |-> notification,
                  state |-> "new", idle |-> FALSE ]]

\* Publisher.Publish: BuildDeliveryMessage copies the event's two ids into
\* the entry.
PublishEvent(e) == XAdd(e, outbox[e].notification_id)

\* The COUNT lowest ids of a set, which is how both read commands page.
FirstEntries(entries) ==
    {m \in entries : Cardinality({x \in entries : x < m}) < ReadCount}

\* What XREADGROUP with id > hands out.
NewEntries == FirstEntries({m \in MessageID : stream[m].state = "new"})

\* What XAUTOCLAIM hands out when its scan starts at the given id.
IdleEntries(start) ==
    FirstEntries({m \in MessageID :
        stream[m].state = "pending" /\ stream[m].idle /\ m >= start})

\* The cursor XAUTOCLAIM returns: the next pending entry after a full page,
\* and 0 once the scan has reached the end of the list.
IsNextCursor(page, c) ==
    LET later == {m \in MessageID :
                    stream[m].state = "pending" /\ \A x \in page : x < m}
        full  == Cardinality(page) = ReadCount
    IN  \/ ~full /\ c = 0
        \/ full /\ later = {} /\ c = 0
        \/ full /\ c \in later /\ \A x \in later : c <= x

\* Delivering an entry, first or again, puts it in the pending list and
\* restarts its idle time.
Delivered(page) ==
    [m \in MessageID |->
        IF m \in page THEN [stream[m] EXCEPT !.state = "pending", !.idle = FALSE]
                      ELSE stream[m]]

\* XACK of an entry that is not pending changes nothing and is no error.
Acked(m) ==
    IF stream[m].state = "pending"
    THEN [stream EXCEPT ![m].state = "acked", ![m].idle = FALSE]
    ELSE stream

-----------------------------------------------------------------------------
(***************************************************************************)
(* What happens to the stream without the code's doing                     *)
(***************************************************************************)

\* An entry that nothing in this code wrote.
ForeignMessage ==
    /\ Fault("foreign_message")
    /\ XAdd(NoEvent, "none")
    /\ UNCHANGED lost

\* Redis restarts from an append-only file that misses its last commands
\* (appendfsync everysec): an XADD, a delivery or an XACK is undone.
RedisForgets(m) ==
    /\ Fault("redis_loss")
    /\ \/ /\ Unacked(m)
          /\ stream' = [stream EXCEPT ![m].state = "lost", ![m].idle = FALSE]
          /\ lost' = TRUE
       \/ /\ stream[m].state = "pending"
          /\ stream' = [stream EXCEPT ![m].state = "new", ![m].idle = FALSE]
          /\ UNCHANGED lost
       \/ /\ stream[m].state = "acked"
          /\ stream' = [stream EXCEPT ![m].state = "pending"]
          /\ UNCHANGED lost
=============================================================================

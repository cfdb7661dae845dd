-------------------------- MODULE NotifyImplements -------------------------
(***************************************************************************)
(* The service as an implementation of NotificationLifecycle.  A row in    *)
(* "delivering" stands for two stages: before the HTTP call, when every    *)
(* call has its audit row, and after it, when one has not.                 *)
(***************************************************************************)
EXTENDS NotifySystem

\* The stage of a row in "delivering".
Delivering(n) ==
    IF calls[n] = Len(attempts[n]) THEN "sending"
    ELSE IF n \in accepted THEN "taken" ELSE "refused"

LifeState(n) ==
    IF notifications[n].status \in {"pending", "retrying"} THEN "waiting"
    ELSE IF notifications[n].status = "delivering" THEN Delivering(n)
    ELSE notifications[n].status

Life == INSTANCE NotificationLifecycle WITH
    Limits <- MaxAttempts,
    state  <- [n \in Notification |-> LifeState(n)],
    limit  <- [n \in Notification |-> notifications[n].max_attempts],
    tries  <- [n \in Notification |-> notifications[n].attempt_count]

\* However relays, workers, duplicates, reclaims, crashes and manual retries
\* interleave, each notification goes through the life the README describes:
\* every recorded attempt is one HTTP call made within the limit, its
\* outcome is the vendor's answer to that call, and nothing is sent after a
\* 2xx or beside a delivery in progress (Processor.Process with
\* EntRepository's transactions).
ImplementsLifecycle == Life!Spec
=============================================================================

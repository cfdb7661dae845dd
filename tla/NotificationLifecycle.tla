----------------------- MODULE NotificationLifecycle -----------------------
(***************************************************************************)
(* What the service promises about one notification, without tables,       *)
(* stream, relays or workers: it is accepted once, tried at most as often  *)
(* as its limit allows, sent exactly once per recorded try, and finished   *)
(* by the vendor's answer.  A client may requeue a failure.  A try that is *)
(* cut off may stay where it is, and nothing else moves it.                *)
(***************************************************************************)
EXTENDS Naturals

CONSTANTS Notification, Limits

VARIABLES
    state,   \* where each notification is
    limit,   \* how many tries it has
    tries    \* how many of them were recorded since it was last queued

vars == <<state, limit, tries>>

Init ==
    /\ state = [n \in Notification |-> "absent"]
    /\ limit = [n \in Notification |-> 0]
    /\ tries = [n \in Notification |-> 0]

Move(n, from, to) == state[n] = from /\ state' = [state EXCEPT ![n] = to]

Accept(n) ==
    /\ Move(n, "absent", "waiting")
    /\ \E k \in Limits : limit' = [limit EXCEPT ![n] = k]
    /\ tries' = [tries EXCEPT ![n] = 0]

\* A try begins: at most one at a time, and only within the limit.
Begin(n) ==
    /\ tries[n] < limit[n]
    /\ Move(n, "waiting", "sending")
    /\ UNCHANGED <<limit, tries>>

\* The request goes out, once per try, and the vendor takes it or not.
Send(n) ==
    /\ Move(n, "sending", "taken") \/ Move(n, "sending", "refused")
    /\ UNCHANGED <<limit, tries>>

Recorded(n) == tries' = [tries EXCEPT ![n] = @ + 1]

Succeed(n)  == Move(n, "taken", "succeeded") /\ Recorded(n) /\ UNCHANGED limit
Fail(n)     == Move(n, "refused", "failed") /\ Recorded(n) /\ UNCHANGED limit
Postpone(n) ==
    /\ tries[n] + 1 < limit[n]
    /\ Move(n, "refused", "waiting") /\ Recorded(n) /\ UNCHANGED limit

Requeue(n) ==
    /\ Move(n, "failed", "waiting")
    /\ tries' = [tries EXCEPT ![n] = 0]
    /\ UNCHANGED limit

Next ==
    \E n \in Notification :
        \/ Accept(n) \/ Begin(n) \/ Send(n) \/ Succeed(n) \/ Fail(n) \/ Postpone(n)
        \/ Requeue(n)

Spec == Init /\ [][Next]_vars
=============================================================================

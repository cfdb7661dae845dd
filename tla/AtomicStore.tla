---------------------------- MODULE AtomicStore ----------------------------
(***************************************************************************)
(* What EntRepository promises to its callers: each writing call is one of *)
(* NotificationStore's transactions, all of it or nothing.  This is the    *)
(* specification RepositoryTx implements statement by statement, and the   *)
(* granularity NotifySystem relies on.                                     *)
(***************************************************************************)
EXTENDS NotificationStore

\* Attempts are numbered within validation's range of max_attempts.
StoreStep(n) ==
    \/ \E max \in MaxAttempts : CreateNotification(n, max)
    \/ RetryFailedNotification(n)
    \/ MarkDelivering(n)
    \/ \E number \in 1..20 :
            \/ RecordSuccess(n, number)
            \/ \E retry \in BOOLEAN : RecordFailure(n, number, retry)

StoreNext == \E n \in Notification : StoreStep(n)

StoreSpec == StoreInit /\ [][StoreNext]_storeVars
=============================================================================

-------------------------- MODULE MCNotifySystem ---------------------------
(***************************************************************************)
(* Small instances of NotifySystem.                                        *)
(***************************************************************************)
EXTENDS NotifyImplements, TLC

CONSTANTS n1, n2, w1, w2, r1, r2, hostA, hostB

\* One relay, two on different hosts, or two that share a host name and with
\* it the locker.
OneRelay   == [r \in {r1} |-> hostA]
TwoRelays  == (r1 :> hostA) @@ (r2 :> hostB)
SharedHost == (r1 :> hostA) @@ (r2 :> hostA)

\* Workers differ in nothing but their names.
WorkerSymmetry == Permutations({w1, w2})
=============================================================================

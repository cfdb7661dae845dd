-------------------------- MODULE MCRetrySchedule --------------------------
(***************************************************************************)
(* RetrySchedule with durations narrow enough that an unguarded doubling   *)
(* overflows within twenty attempts.                                       *)
(***************************************************************************)
EXTENDS RetrySchedule

MCPolicies ==
    { DefaultRetryPolicy,
      [BaseDelay |-> 0, MaxDelay |-> 0],          \* the zero value
      [BaseDelay |-> -1, MaxDelay |-> 64],
      [BaseDelay |-> 3, MaxDelay |-> 0],
      [BaseDelay |-> 1, MaxDelay |-> 1024],       \* as wide as may be
      [BaseDelay |-> 7, MaxDelay |-> 7] }

\* One status on each side of every boundary of Decide, and a transport error.
MCResults ==
    {[StatusCode |-> c, Err |-> FALSE] :
        c \in {101, 200, 299, 300, 400, 407, 408, 409, 410, 425, 429,
               499, 500, 599}}
    \cup {[StatusCode |-> 0, Err |-> TRUE]}
=============================================================================

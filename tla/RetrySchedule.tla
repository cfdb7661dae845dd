--------------------------- MODULE RetrySchedule ---------------------------
(***************************************************************************)
(* The retry policy over the life of one notification: Process asks Decide *)
(* after every failed attempt, waits for the delay it is given, and tries  *)
(* again until the policy gives up or an attempt succeeds.  The model      *)
(* checks internal/delivery/retry.go against the textbook definition of a  *)
(* capped exponential backoff and against the table of outcomes.           *)
(***************************************************************************)
EXTENDS RetryPolicy, FiniteSets

CONSTANTS
    Policies,      \* the RetryPolicy values, zero fields included
    Results,       \* the AttemptResult values
    MaxAttempts    \* the max_attempts values

\* A delay may still be doubled once: Go's 64 bits hold 146 years below the
\* overflow, in nanoseconds.
ASSUME ScheduleAssumption ==
    /\ MaxAttempts \subseteq Nat \ {0}
    /\ Policies \subseteq [BaseDelay : Int, MaxDelay : Int]
    /\ Results \subseteq [StatusCode : Int, Err : BOOLEAN]
    /\ \A p \in Policies :
        /\ WithDefaults(p).BaseDelay <= WithDefaults(p).MaxDelay
        /\ 2 * WithDefaults(p).BaseDelay < Half
        /\ 2 * WithDefaults(p).MaxDelay <= Half

VARIABLES
    policy, max,   \* fixed for the notification
    number,        \* the attempt that was just made
    result,        \* its result
    waited         \* the delay that preceded it, 0 before the first

vars == <<policy, max, number, result, waited>>

Init ==
    /\ policy \in Policies
    /\ max \in MaxAttempts
    /\ number = 1
    /\ result \in Results
    /\ waited = 0

\* What Process decides about the attempt just made.
Decision == Decide(policy, result, number, max)

\* Process's test of the result, made before the policy is asked.
Succeeded == ~result.Err /\ Is2xx(result.StatusCode)

\* The next attempt, after the delay.
NextAttempt ==
    /\ ~Succeeded
    /\ Decision.Retry
    /\ number' = number + 1
    /\ result' \in Results
    /\ waited' = Decision.Delay
    /\ UNCHANGED <<policy, max>>

Next == NextAttempt

Spec == Init /\ [][Next]_vars

-----------------------------------------------------------------------------

\* Reference: base * 2^(n-1), capped, in unbounded arithmetic.
CappedExponential(p, n) ==
    LET exact == WithDefaults(p).BaseDelay * Pow2[n - 1]
    IN  IF exact < WithDefaults(p).MaxDelay THEN exact ELSE WithDefaults(p).MaxDelay

\* The doubling loop never overflows its duration and computes exactly the
\* capped exponential, for as many attempts as validation allows.
DelayIsCappedExponential ==
    Decision.Retry => Decision.Delay = CappedExponential(policy, number)

\* A failed attempt is either retried or terminal, never both and never
\* neither (which would leave RecordFailure without a NextAttemptAt to
\* store): terminal exactly when the limit is reached or the vendor
\* answered with a status that is not worth repeating.
FailureDecided ==
    ~Succeeded =>
        /\ Decision.Retry # Decision.Terminal
        /\ Decision.Terminal <=>
               \/ number = max
               \/ ~result.Err /\ ~( \/ result.StatusCode \in 500..599
                                    \/ result.StatusCode \in {408, 409, 425, 429} )

\* Attempts are spaced further and further apart, and never more of them
\* are made than max_attempts.
BackoffGrows ==
    [][ waited' >= waited /\ waited' > 0 /\ number' <= max ]_vars
=============================================================================

---------------------------- MODULE RetryPolicy ----------------------------
(***************************************************************************)
(* internal/delivery/retry.go: what follows from one failed HTTP attempt.  *)
(*                                                                         *)
(* A policy is a record with fields BaseDelay and MaxDelay.  Durations are *)
(* whole numbers of an unspecified unit, held in DurationBits bits as Go's *)
(* time.Duration is held in 64.  An AttemptResult is a record with fields  *)
(* StatusCode (0 when there was no response) and Err (a Boolean: whether   *)
(* the transport reported an error).                                       *)
(***************************************************************************)
EXTENDS Integers

CONSTANT DurationBits    \* width of a duration, 64 in Go

ASSUME DurationAssumption == DurationBits \in Nat \ {0}

DefaultRetryPolicy == [BaseDelay |-> 2, MaxDelay |-> 300]      \* seconds

\* 2^n, as a function that proofs can unfold.
Pow2[n \in Nat] == IF n = 0 THEN 1 ELSE 2 * Pow2[n - 1]

\* Durations go from -Half to Half - 1.
Half == Pow2[DurationBits - 1]

\* Two's complement wrap-around of a product that overflows.
WrapDuration(d) == ((d + Half) % (2 * Half)) - Half

\* Mutant: the boundary of the 5xx range and 409 are missed.
retryableWithoutConflict(status) ==
    status \in {408, 425, 429} \cup (500..598)

isRetryableStatus(status) ==
    status \in {408, 409, 425, 429} \cup (500..599)

Is2xx(status) == status \in 200..299

\* A field that is not positive stands for its default.
WithDefaults(p) ==
    [ BaseDelay |-> IF p.BaseDelay <= 0 THEN 2 ELSE p.BaseDelay,
      MaxDelay  |-> IF p.MaxDelay <= 0 THEN 300 ELSE p.MaxDelay ]

\* Mutant: the cap is only applied once, to the last doubling.
delayCappedLate(p, attemptNumber) ==
    LET q == WithDefaults(p)
        last == WrapDuration(q.BaseDelay * Pow2[attemptNumber - 1])
    IN  IF last >= q.MaxDelay THEN q.MaxDelay ELSE last

\* The loop variable after i doublings of a base.
Doubled(base) ==
    LET d[i \in Nat] == IF i = 0 THEN base ELSE WrapDuration(2 * d[i - 1])
    IN  d

\* The loop doubles the base once for every attempt after the first, and
\* returns the cap as soon as a doubling reaches it.
delay(p, attemptNumber) ==
    LET q == WithDefaults(p)
        d == Doubled(q.BaseDelay)
    IN  IF \E i \in 1..(attemptNumber - 1) : d[i] >= q.MaxDelay
        THEN q.MaxDelay
        ELSE d[attemptNumber - 1]

\* Mutant: the limit is tested with > instead of >=.
DecideOneTooMany(p, result, attemptNumber, maxAttempts) ==
    LET exhausted == attemptNumber > maxAttempts
        retryable == result.Err \/ isRetryableStatus(result.StatusCode)
    IN  [ Retry    |-> ~exhausted /\ retryable,
          Terminal |-> exhausted \/ (~retryable /\ ~Is2xx(result.StatusCode)),
          Delay    |-> IF ~exhausted /\ retryable THEN delay(p, attemptNumber)
                                                  ELSE 0 ]

Decide(p, result, attemptNumber, maxAttempts) ==
    LET exhausted == attemptNumber >= maxAttempts
        retryable == result.Err \/ isRetryableStatus(result.StatusCode)
    IN  [ Retry    |-> ~exhausted /\ retryable,
          Terminal |-> exhausted \/ (~retryable /\ ~Is2xx(result.StatusCode)),
          Delay    |-> IF ~exhausted /\ retryable THEN delay(p, attemptNumber)
                                                  ELSE 0 ]
=============================================================================

\* The retry policy over all attempts a notification may have.
SPECIFICATION Spec
CONSTANTS
    DurationBits = 12
    Policies <- MCPolicies
    Results <- MCResults
    MaxAttempts = {1, 2, 5, 20}
INVARIANTS
    DelayIsCappedExponential
    FailureDecided
PROPERTIES
    BackoffGrows
CHECK_DEADLOCK FALSE

\* One failed XACK: the reclaimed entry is attempted before next_attempt_at.
SPECIFICATION Spec
CONSTANTS
    n1 = n1
    n2 = n2
    w1 = w1
    w2 = w2
    r1 = r1
    r2 = r2
    hostA = hostA
    hostB = hostB
    Notification = {n1}
    MaxAttempts = {3}
    MaxEvents = 3
    LockerID = {hostA}
    FaultKinds = {"redis_error"}
    MaxFaults = 1
    MaxMessages = 3
    ReadCount = 2
    Relay = {r1}
    Locker <- OneRelay
    BatchSize = 1
    PromptRelays = TRUE
    DurationBits = 30
    Worker = {w1}
    StatusCodes = {200}
    PromptWorkers = FALSE
    MaxManualRetries = 0
PROPERTIES
    BackoffRespected

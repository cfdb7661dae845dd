\* No failure at all, but a worker slower than minIdle: the result of an HTTP
\* call is discarded.
SPECIFICATION Spec
CONSTANTS
    n1 = n1
    n2 = n2
    w1 = w1
    w2 = w2
    r1 = r1
    r2 = r2
    hostA = hostA
    hostB = hostB
    Notification = {n1}
    MaxAttempts = {3}
    MaxEvents = 3
    LockerID = {hostA}
    FaultKinds = {}
    MaxFaults = 0
    MaxMessages = 3
    ReadCount = 2
    Relay = {r1}
    Locker <- OneRelay
    BatchSize = 1
    PromptRelays = TRUE
    DurationBits = 30
    Worker = {w1, w2}
    StatusCodes = {200}
    PromptWorkers = FALSE
    MaxManualRetries = 0
PROPERTIES
    FinishedCallRecorded

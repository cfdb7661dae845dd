\* Two notifications and two workers when nothing fails and nobody is slow.
SPECIFICATION FairSpec
CONSTANTS
    n1 = n1
    n2 = n2
    w1 = w1
    w2 = w2
    r1 = r1
    r2 = r2
    hostA = hostA
    hostB = hostB
    Notification = {n1, n2}
    MaxAttempts = {1, 2}
    MaxEvents = 4
    LockerID = {hostA}
    FaultKinds = {}
    MaxFaults = 0
    MaxMessages = 4
    ReadCount = 2
    Relay = {r1}
    Locker <- OneRelay
    BatchSize = 2
    PromptRelays = TRUE
    DurationBits = 30
    Worker = {w1, w2}
    StatusCodes = {200}
    PromptWorkers = TRUE
    MaxManualRetries = 0
PROPERTIES
    EventuallySettled
    BackoffRespected
    FinishedCallRecorded

\* One worker crash: the notification it was delivering is never settled.
SPECIFICATION FairSpec
CONSTANTS
    n1 = n1
    n2 = n2
    w1 = w1
    w2 = w2
    r1 = r1
    r2 = r2
    hostA = hostA
    hostB = hostB
    Notification = {n1}
    MaxAttempts = {1}
    MaxEvents = 1
    LockerID = {hostA}
    FaultKinds = {"worker_crash"}
    MaxFaults = 1
    MaxMessages = 1
    ReadCount = 2
    Relay = {r1}
    Locker <- OneRelay
    BatchSize = 1
    PromptRelays = TRUE
    DurationBits = 30
    Worker = {w1}
    StatusCodes = {200}
    PromptWorkers = TRUE
    MaxManualRetries = 0
PROPERTIES
    EventuallySettled

\* Two notifications and two slow relays of one host name, which take over and
\* finish each other's claims, with one failure of any kind.
SPECIFICATION Spec
CONSTANTS
    n1 = n1
    n2 = n2
    w1 = w1
    w2 = w2
    r1 = r1
    r2 = r2
    hostA = hostA
    hostB = hostB
    Notification = {n1, n2}
    MaxAttempts = {1}
    MaxEvents = 2
    LockerID = {hostA}
    FaultKinds = {"relay_crash", "worker_crash", "relay_db_error", "worker_db_error", "redis_error", "redis_loss", "foreign_message"}
    MaxFaults = 1
    MaxMessages = 3
    ReadCount = 1
    Relay = {r1, r2}
    Locker <- SharedHost
    BatchSize = 2
    PromptRelays = FALSE
    DurationBits = 30
    Worker = {w1}
    StatusCodes = {200}
    PromptWorkers = TRUE
    MaxManualRetries = 0
INVARIANTS
    NoLostWork
    PublishedReachedStream

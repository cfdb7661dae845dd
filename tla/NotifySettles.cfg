\* Two prompt relays and one prompt worker settle a notification although
\* relays crash and calls to PostgreSQL (by relays) and Redis fail.
SPECIFICATION FairSpec
CONSTANTS
    n1 = n1
    n2 = n2
    w1 = w1
    w2 = w2
    r1 = r1
    r2 = r2
    hostA = hostA
    hostB = hostB
    Notification = {n1}
    MaxAttempts = {2}
    MaxEvents = 2
    LockerID = {hostA, hostB}
    FaultKinds = {"relay_crash", "relay_db_error", "redis_error"}
    MaxFaults = 2
    MaxMessages = 4
    ReadCount = 1
    Relay = {r1, r2}
    Locker <- TwoRelays
    BatchSize = 2
    PromptRelays = TRUE
    DurationBits = 30
    Worker = {w1}
    StatusCodes = {200, 400}
    PromptWorkers = TRUE
    MaxManualRetries = 0
INVARIANTS
    DuplicatesNeedFailures
PROPERTIES
    EventuallySettled

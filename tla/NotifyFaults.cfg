\* One notification, one prompt relay and two workers of any speed, a retry by
\* hand, and one failure of a process, of a database call or of a Redis call at
\* any moment.
SPECIFICATION Spec
CONSTANTS
    n1 = n1
    n2 = n2
    w1 = w1
    w2 = w2
    r1 = r1
    r2 = r2
    hostA = hostA
    hostB = hostB
    Notification = {n1}
    MaxAttempts = {2}
    MaxEvents = 3
    LockerID = {hostA}
    FaultKinds = {"relay_crash", "worker_crash", "relay_db_error", "worker_db_error", "redis_error"}
    MaxFaults = 1
    MaxMessages = 3
    ReadCount = 2
    Relay = {r1}
    Locker <- OneRelay
    BatchSize = 1
    PromptRelays = TRUE
    DurationBits = 30
    Worker = {w1, w2}
    StatusCodes = {200}
    PromptWorkers = FALSE
    MaxManualRetries = 1
SYMMETRY WorkerSymmetry
INVARIANTS
    TypeOK
    SingleDelivery
    AttemptBudget
    AuditTrail
    CallsAudited
    NoLostWork
    AcceptedNeverResent
PROPERTIES
    OutcomesFinal
    ImplementsLifecycle

\* Three processes start together, a relay appends two entries and two
\* goroutines read them; three failures of any kind.
SPECIFICATION FairSpec
CONSTANTS
    NULL = NULL
    NoGroup = NoGroup
    api = api
    relay = relay
    worker = worker
    Process = {api, relay, worker}
    Tables = {"notifications", "delivery_attempts", "outbox_events"}
    Goroutine = {g1, g2}
    MaxEntries = 2
    FaultKinds = {"start_crash", "start_db_error", "session_loss", "redis_error", "worker_crash", "group_loss"}
    MaxFaults = 3
INVARIANTS
    PlanIsCurrent
    RunsOnFullSchema
    NothingSkipped
PROPERTIES
    StartsOrExits
    EntriesRead
CHECK_DEADLOCK FALSE

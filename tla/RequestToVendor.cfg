\* Two calls, two workers that start two deliveries, one change of DNS and
\* two failures at the API.
SPECIFICATION Spec
CONSTANTS
    NULL = NULL
    FaultKinds = {"api_db_error", "answer_lost", "api_exit"}
    MaxFaults = 2
    Requests <- SomeRequests
    MaxCalls = 2
    Worker = {w1, w2}
    Names <- LookedUp
    IDNA <- Conversions
    Answers <- SomeAnswers
    MaxChanges = 1
    MaxDeliveries = 2
INVARIANTS
    AnswersSayWhatHappened
    StoredInNormalForm
    ConnectionsPublic
    LayersAgree
SYMMETRY WorkerSymmetry
CHECK_DEADLOCK FALSE

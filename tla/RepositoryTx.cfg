\* Two goroutines make five repository calls on one notification, in any order
\* and interleaving, and one statement fails.
CONSTANTS
    NULL = NULL
    Notification = {n1}
    Session = {s1, s2}
    MaxCalls = 5
    MaxNumber = 2
    MaxErrors = 1
SPECIFICATION FairSpec
INVARIANTS
    OneEventPerDelivery
    AnswersTruthful
    ColumnsCoherent
    StatementsAccepted
PROPERTIES
    ImplementsAtomicStore
    CallsReturn
CHECK_DEADLOCK FALSE

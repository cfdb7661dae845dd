\* Every builder of every entity with up to three calls on any one field, and
\* every query builder with one clone, up to three calls and any predicate of
\* any one column.
SPECIFICATION Spec
CONSTANTS
    NULL = NULL
    MaxSetterCalls = 3
    Slot = {s1, s2}
    MaxQueryCalls = 3
INVARIANTS
    SavedAsAsked
    MalformedOnlyIfContradictory
    ChecksCoverTable
    UnreadBuilderReturnsAsked
    OnlyCountsExactly
CHECK_DEADLOCK FALSE

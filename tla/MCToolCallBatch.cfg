SPECIFICATION BatchSpec
CONSTANTS
    Segment <- MCSegment
    Fold <- MCFold
    Access <- MCAccess
    MaxTasks = 3
    Key <- MCKey
    Rejected = Rejected
    AccessOf <- MCAccessOf
CONSTRAINT ReadFirst
INVARIANTS
    NoConflictingExecution
    NoStrandedTask
    PairedWhenReturned
    NoDetachedTask
    DuplicatesShareResult
PROPERTIES
    ImplementsProviderOrder
    NothingStartsAborted
    AbortEndsBatch
CHECK_DEADLOCK FALSE

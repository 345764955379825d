SPECIFICATION Spec
CONSTANTS
    Procs = {p1, p2}
    MaxTokens = 3
    MaxTries = 2
    MaxCrashes = 1
    None = None
    Stale = Stale
    Missing = Missing
    Revoked = Revoked
    Error = Error
INVARIANTS
    SessionKept
    ForcedIsNew
PROPERTIES
    ImplementsTokenClient
CHECK_DEADLOCK FALSE

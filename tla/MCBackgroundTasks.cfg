SPECIFICATION Spec
CONSTANTS
    Tasks = {t1}
    Callers = {c1, c2}
    MaxRunning = 1
    MaxCrashes = 2
    MaxFailedWrites = 1
    MaxExchanges = 2
    None = None
INVARIANTS
    ReportedOnce
    ToldAsRecorded
    StoppedQuietly
PROPERTIES
    EndIsHandedOver
CHECK_DEADLOCK FALSE

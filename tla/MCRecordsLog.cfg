SPECIFICATION Spec
CONSTANTS
    MaxRecords = 4
    MaxCrashes = 2
    None = None
    Torn = Torn
    Corrupt = Corrupt
INVARIANTS
    DiskIsAPrefix
    FlushedIsDurable
PROPERTIES
    EveryRecordWritten
CHECK_DEADLOCK FALSE

SPECIFICATION HostSpec
CONSTANTS
    Children = {c1, c2, c3}
    Stored = {c1, c2}
    Explorers = {c2, c3}
    Runs = {r1, r2}
    Continuations = 1
    MaxOwnTurns = 2
    MaxFailedLoads = 2
    Own = Own
    None = None
INVARIANTS
    TurnsHaveRuns
    LoadedOnce
PROPERTIES
    StoppedRunsReturn
CHECK_DEADLOCK FALSE

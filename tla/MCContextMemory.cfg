SPECIFICATION ContextSpec
CONSTANTS
    MaxTurns = 2
    MaxReminders = 1
    MaxSteps = 2
    MaxCalls = 2
    MaxCompactions = 2
    MaxEdits = 1
    MaxRestarts = 1
    BusyCalls = {"prompt", "undo", "clear", "compact", "cancelGoal"}
    NoTurn = NoTurn
CONSTRAINT Small
INVARIANTS
    OrderlyRequests
    NothingTwice
PROPERTIES
    CompactionKeepsTheRest
CHECK_DEADLOCK FALSE

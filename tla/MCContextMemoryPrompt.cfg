SPECIFICATION ContextSpec
CONSTANTS
    MaxTurns = 2
    MaxReminders = 0
    MaxSteps = 2
    MaxCalls = 1
    MaxCompactions = 0
    MaxEdits = 0
    MaxRestarts = 0
    BusyCalls = {"prompt"}
    NoTurn = NoTurn
INVARIANTS
    RequestsWellFormed
CHECK_DEADLOCK FALSE

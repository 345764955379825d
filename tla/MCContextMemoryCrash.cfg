SPECIFICATION ContextSpec
CONSTANTS
    MaxTurns = 2
    MaxReminders = 0
    MaxSteps = 1
    MaxCalls = 1
    MaxCompactions = 0
    MaxEdits = 0
    MaxRestarts = 1
    BusyCalls = {}
    NoTurn = NoTurn
INVARIANTS
    PromptInRequest
CHECK_DEADLOCK FALSE

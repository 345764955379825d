SPECIFICATION Spec
CONSTANTS
    MaxInputs = 2
    MaxGoals = 1
    MaxTurns = 2
    TurnBudgets = {1}
    NoBudget = NoBudget
    GoalAtStart = {"none", "paused"}
    NoTurn = NoTurn
INVARIANTS
    ActiveTurnHeld
    InputsKeptOnce
PROPERTIES
    NeverClobbered
    CancelledWorkerEnds
CHECK_DEADLOCK FALSE

SPECIFICATION Spec
CONSTANTS
    Tasks = {often, once}
    Recurring = {often}
    Occurrences <- MCOccurrences
    Offset <- MCOffset
    MaxCoalesce = 2
    StaleAfter = 5
    MaxTime = 6
    MaxCreated = 1
    MaxTurns = 1
    MaxFaults = 1
    often = often
    once = once
    None = None
INVARIANTS
    CountedOnce
    GoneStaysGone
PROPERTIES
    FiresInOrder
    DueFires
CHECK_DEADLOCK FALSE

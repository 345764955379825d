SPECIFICATION Spec
CONSTANTS
    TaskCount = 3
    InitialLaunchLimit = 2
    InitialLaunchInterval = 1
    CapacityShrinkInterval = 1
    RetryBase = 2
    CapacityRecoveryInterval = 3
    MaxRateLimits = 2
    NoTimer = NoTimer
    NoResult = NoResult
INVARIANTS
    NeverStuck
    NoChildLeftRunning
PROPERTIES
    BatchEnds
    ImplementsTaskPool
CHECK_DEADLOCK FALSE

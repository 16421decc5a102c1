CONSTANTS
    TRIMMED_DECIMALS = 8
    rateLimitDuration = 3
    U64_MAX = 7
    Amount <- MCAmount
    Limit <- MCLimit
    MaxTime = 6
    MaxFlows = 3
SPECIFICATION Spec
INVARIANTS
    CapacityWithinLimit
    SetLimitNeverReverts
    WindowBound
    BackflowRestoresCapacity

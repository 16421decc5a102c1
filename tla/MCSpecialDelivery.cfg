CONSTANTS
    Price = {2, 3}
    messageFee = 1
    standardCost = 5
    validity = 1
    rateLimitDuration = 2
    MaxTransfers = 2
    MaxQuotes = 2
    MaxTime = 3
SPECIFICATION Spec
INVARIANTS
    NothingStaysBehind
    RequestsAreCurrent
    SkippedCanBeReleased

CONSTANTS
    Event = {e1}
    Worker = {w1}
    MaxRetries = 2
    MaxNonce = 2
    MaxSends = 4
    MaxCopies = 1
    MaxFaults = 3
    LocksFail = FALSE
SPECIFICATION FairSpec
PROPERTIES
    SettlesUnlessReverted
CHECK_DEADLOCK FALSE

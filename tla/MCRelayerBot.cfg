CONSTANTS
    Event = {e1, e2}
    Worker = {w1, w2}
    MaxRetries = 1
    MaxNonce = 1
    MaxSends = 2
    MaxCopies = 1
    MaxFaults = 2
    LocksFail = TRUE
SPECIFICATION Spec
SYMMETRY MCSymmetry
INVARIANTS
    ConfirmedIsDelivered
    LiveNoncesDiffer
    PooledIsTracked
PROPERTIES
    TerminalIsFinal
CHECK_DEADLOCK FALSE

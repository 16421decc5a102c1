CONSTANTS
    hub = hub
    spoke = spoke
    alice = alice
    TRIMMED_DECIMALS = 2
    U64_MAX = 60
    rateLimitDuration = 1
    Chain = {hub, spoke}
    Locking = {hub}
    User = {alice}
    tokenDecimals <- MCDecimals
    TransferFee <- MCFee
    InitialBalance <- MCInitialBalance
    Amount <- MCAmount
    InboundLimit <- MCInboundLimit
    Limit <- MCLimit
    MaxSequence <- MCMaxSequence
    MaxLimitTime = 1
SPECIFICATION FairSpec
INVARIANTS
    SupplyConserved
    FullyBacked
    NothingGetsStuck
PROPERTIES
    ImplementsBridge
    SentIsPaid
    QueuedIsSentOrCancelled

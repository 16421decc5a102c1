CONSTANTS
    t1 = t1
    t2 = t2
    t3 = t3
    Transceiver = {t1, t2}
    TRIMMED_DECIMALS = 1
    U64_MAX = 60
    SolanaMode = "Locking"
    SuiMode = "Burning"
    solana_decimals = 2
    sui_decimals = 2
    RATE_LIMIT_DURATION = 2
    BITS = 2
    SolanaBalance = 25
    SuiBalance = 40
    SolanaCustody = 40
    SolanaLimit = 40
    SuiLimit = 40
    SolanaAmount = {15}
    SuiAmount = {40}
    SolanaLimits = {5}
    SuiLimits = {5}
    SolanaItems = 1
    SuiItems = 1
    MaxOwnerTime = 0
    MaxTime = 2
SPECIFICATION Spec
PROPERTIES
    SuiApprovedByEnabled

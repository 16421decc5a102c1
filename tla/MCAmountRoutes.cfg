CONSTANTS
    TRIMMED_DECIMALS = 2
    U64_MAX = 65535
    Decimals = {1, 2, 3, 4}
    Held <- MCHeld
SPECIFICATION RoutesSpec
INVARIANTS
    ValuePreserved
    DustIsMinimal
CHECK_DEADLOCK FALSE

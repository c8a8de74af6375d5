SPECIFICATION TourSpec
CONSTANTS
    t = t
    x1 = x1
    x2 = x2
    x3 = x3
    x4 = x4
    NoTransfer = NoTransfer
    Chains = {"main", "side", "third"}
    Tokens = {t}
    Home <- MCHome
    Decimals <- MCDecimals
    TxHashes = {x1, x2, x3, x4}
    Blocks = {h1}
    Events <- MCTour
    Amounts = {25, 85, 95}
    RelayerFees = {0}
    Fees = {0, 1}
CHECK_DEADLOCK FALSE
INVARIANTS
    Backed
    ClaimedOnceAtDestination

SPECIFICATION MCSpec
CONSTANTS
    t = t
    x1 = x1
    x2 = x2
    x3 = x3
    x4 = x4
    NoTransfer = NoTransfer
    Chains = {"main", "side"}
    Tokens = {t}
    Home <- MCHome
    Decimals <- MCDecimals
    TxHashes = {x1, x2, x3}
    Blocks = {h1, h2}
    Events <- MCEvents
    Amounts = {25, 95}
    RelayerFees = {0, 1}
    Fees = {0, 999}
SYMMETRY Symmetry
INVARIANTS
    TypeOK
    Backed
PROPERTIES
    ImplementsCrossTransfer

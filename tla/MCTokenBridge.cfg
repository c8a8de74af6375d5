SPECIFICATION SystemSpec
CONSTANTS
    t = t
    there = there
    back = back
    f1 = f1
    f2 = f2
    f3 = f3
    NoTransfer = NoTransfer
    Chains = {"main", "side"}
    Tokens = {t}
    Home <- MCHome
    Decimals <- MCDecimals
    TxHashes = {there, back}
    Blocks = {h1, h2}
    Events <- MCEvents
    Amounts = {25, 95}
    RelayerFees = {0}
    Fees = {0}
    Federators <- MCFederators
    Required = 1
    Misled = {f3}
SYMMETRY Symmetry
INVARIANTS
    ProcessedIsAccepted
PROPERTIES
    ImplementsIdealBridge

\* Two NFTs travel there and back, in reorganised blocks, under all administration.
SPECIFICATION Spec
CONSTANTS
    tok = tok
    NoTransfer = NoTransfer
    Chains = {"main", "side"}
    Tokens = {tok}
    Nfts = {n1, n2}
    Contract <- MCContract
    Home <- MCHome
    TxHashes = {x1, x2, x3}
    Blocks = {h1, h2}
    MaxLogs = 1
    Values = {0, 1}
    FixedFees = {0, 1}
SYMMETRY Symmetry
INVARIANTS
    TypeOK
    OneHolder
    AcceptedCanBeClaimed
PROPERTIES
    ImplementsNFTTravel

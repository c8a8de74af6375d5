SPECIFICATION Spec
CONSTANTS
    event = event
    misread = misread
    legacy = legacy
    Chains = {"side"}
    Addresses = {a1, a2, a3, a4}
    MaxMembers = 4
    Txs = {event, misread}
    LegacyIds = {legacy}
    LegacyOf <- MCLegacyOf
    TokenTypes = {"COIN", "NFT"}
    Bridges = {b1, b2}
SYMMETRY Symmetry
INVARIANTS
    MembersConsistent
    DeliveredOnce
    NoReplayAfterUpgrade
PROPERTIES
    QuorumBehindDelivery
    OnlyGovernanceStrands

\* Two transactions of any kind.
SPECIFICATION Spec
CONSTANTS
    Addresses = {o1, o2, o3}
    Null = Null
    MaxOwners = 3
    MaxTxs = 2
    Offered <- AllCalls
SYMMETRY Symmetry
INVARIANTS
    OwnersConsistent
    ExecutedOnce
    ConfirmedCanBeExecuted
PROPERTIES
    QuorumBehindExecution
CHECK_DEADLOCK FALSE

SPECIFICATION FairSpec
CONSTANTS
    first = first
    second = second
    Events = {first, second}
    ReorgDepth = 2
    MaxHeight = 5
    MaxReorgs = 1
    ChainId = 31
    Retries = 3
    RecordsPerPage = 1
    MaxFaults = 2
CHECK_DEADLOCK FALSE
INVARIANTS
    NothingSkipped
    VotesAreFinal
PROPERTIES
    EventuallyHandled

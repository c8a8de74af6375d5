SPECIFICATION FairSpec
CONSTANTS
    Gwei = 1000
    UseNft = FALSE
    RecordsPerPage = 1
    MaxBlocks = 3
    MaxSends = 2
    MaxFaults = 1
CHECK_DEADLOCK FALSE
INVARIANTS
    TypeOK
    OnePollAtATime
    OnlyHeartbeatsCollide
    NothingUnread
PROPERTIES
    EveryJobRuns

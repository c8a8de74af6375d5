SPECIFICATION FairSpec
CONSTANTS
    minor = minor
    major = major
    Events = {minor, major}
    Amount <- MCAmount
    Unit <- MCUnit
    MediumAmount = 10
    LargeAmount = 100
    SmallConf = 1
    MediumConf = 2
    LargeConf = 3
    RecordsPerPage = 1
    V0Conf = 2
    ReorgDepth = 2
    MaxHeight = 6
    MaxReorgs = 1
    MaxFaults = 1
CHECK_DEADLOCK FALSE
INVARIANTS
    NothingSkipped
    VotesAreFinal
PROPERTIES
    EventuallyHandled

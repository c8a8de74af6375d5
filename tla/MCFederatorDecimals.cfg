SPECIFICATION Spec
CONSTANTS
    minor = minor
    major = major
    Events = {minor, major}
    Amount <- MCAmountOf16
    Unit <- MCUnitOf16
    MediumAmount = 10
    LargeAmount = 100
    SmallConf = 1
    MediumConf = 2
    LargeConf = 3
    RecordsPerPage = 2
    V0Conf = 2
    ReorgDepth = 0
    MaxHeight = 7
    MaxReorgs = 0
    MaxFaults = 1
CHECK_DEADLOCK FALSE
INVARIANTS
    LimitsAreIn18Decimals

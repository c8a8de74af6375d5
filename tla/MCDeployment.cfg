SPECIFICATION DeploySpec
CONSTANTS
    MaxRuns = 3
    MaxStops = 1
    MaxEdits = 1
INVARIANTS
    DeployTypeOK
    HandedOver
    CanBeRepeated
    OnlyStopsAndRepeatsHarm
    NamedIsProtected
CHECK_DEADLOCK FALSE

\* Crossings over several days, with changes of types and limits.
SPECIFICATION Spec
CONSTANTS
    Tokens = {t1}
    Amounts = {1, 2}
    LimitChoices <- MCLimits
    Confirmations <- MCConfirmations
    OwnerInfos <- MCInfos
    MaxTypes = 2
    Day = 3
    MaxTime = 10
    MaxDaily = 3
INVARIANTS
    SetupOrdered
    AllowedHasType
    SpentIsWhatCrossed
    TwoDaysAtMost

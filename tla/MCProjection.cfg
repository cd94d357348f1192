SPECIFICATION Spec
CONSTANTS
    none = none
    Scale = 10000
    BpsScale = 10
    MsPerHour = 2
    HoursPerYear = 2
    Curves <- MCCurves
    NoCurve <- none
    Skews <- MCSkews
    Amounts <- MCAmounts
    MaxTime = 8
    MaxMoves = 2
    InitialPools <- MCPools
CHECK_DEADLOCK FALSE
INVARIANTS
    TypeOK
    ExactWhenUndisturbed
    NeverBelowStored
    NoInterestTwice
    LocalClockCostsAnHour

CONSTANTS
    x = x
    y = y
    Columns <- MCColumns
    RootLower <- MCLower
    RootUpper <- MCUpper
    Feasible <- MCFeasible
    Objective <- MCNear
    BoundValues <- MCNearBounds
    Infinity = 9
    ObjectiveTolerance = 1
    NodeLimit = 5
    TimeLimited = TRUE
    WarmStart = TRUE
    MaxPendingBases = 2
    Features = {"cuts", "gmi", "rounding", "slack", "rens", "pump", "dive"}
    Faults = {"UNBOUNDED", "FAILURE", "REJECTED", "NONFINITE"}
    NoPoint = NoPoint
    NoNode = NoNode
SPECIFICATION FairSpec
INVARIANTS NodeLimitBoundHolds
PROPERTIES ImplementsContract Termination

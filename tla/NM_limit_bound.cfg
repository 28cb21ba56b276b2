CONSTANTS
    x = x
    y = y
    Columns <- MCColumns
    RootLower <- MCLower
    RootUpper <- MCUpper
    Feasible <- MCFeasible
    Models <- MCModel
    Objective <- MCObjective
    BoundValues <- MCBounds
    Infinity = 9
    GapAbs = 0
    GapPercent = 0
    NodeLimit = 3
    TimeLimited = FALSE
    Heuristics = TRUE
    HeuristicPeriod = 2
    Faults = {}
    NoPoint = NoPoint
    NoNode = NoNode
SPECIFICATION Spec
INVARIANTS TruncatedBoundValid

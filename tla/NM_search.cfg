CONSTANTS
    x = x
    y = y
    Columns <- MCColumns
    RootLower <- MCLower
    RootUpper <- MCUpper
    Feasible <- MCFeasible
    Models <- MCModels
    Objective <- MCObjective
    BoundValues <- MCBounds
    Infinity = 9
    GapAbs = 1
    GapPercent = 50
    NodeLimit = 4
    TimeLimited = TRUE
    Heuristics = TRUE
    HeuristicPeriod = 2
    Faults = {"UNBOUNDED", "NUMERIC_FAILURE", "REJECTED"}
    NoPoint = NoPoint
    NoNode = NoNode
SPECIFICATION FairSpec
INVARIANTS
  SearchInvariant
  VerdictIsProven
  BoundsHold
PROPERTIES
  Decides

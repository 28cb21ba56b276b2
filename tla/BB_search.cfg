CONSTANTS
    x = x
    y = y
    Columns <- MCColumns
    RootLower <- MCLower
    RootUpper <- MCUpper
    Feasible <- MCFeasible
    Objective <- MCObjective
    BoundValues <- MCBounds
    Infinity = 9
    ObjectiveTolerance = 0
    NodeLimit = 0
    TimeLimited = FALSE
    WarmStart = TRUE
    MaxPendingBases = 3
    Features = {"cuts", "gmi", "rounding", "slack", "rens", "pump", "dive"}
    Faults = {}
    NoPoint = NoPoint
    NoNode = NoNode
SPECIFICATION FairSpec
INVARIANTS
  TypeOK
  NothingLost
  InheritedBoundValid
  VerdictProven
  BasisTableUsable
PROPERTIES
  DualBoundNeverRetreats
  Decides

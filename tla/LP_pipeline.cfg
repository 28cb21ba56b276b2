SPECIFICATION LpSpec
CONSTANTS
  MaxIterations = 5
  RestartPeriod = 2
  GridN = 1
  GridMax = 2
  Levels <- MCLevels
  Diverged = 9
  Sufficient = 3
  Necessary = 1
  ArtificialPercent = 61
  Modes = {TRUE, FALSE}
  Requests <- MCRequests
INVARIANTS
  StreamConsistent
  ExtrapolationIsCurrent
  AverageIsMean
  ConvergedPointAnswered
  HybridIsComplete

SPECIFICATION SolveSpec
CONSTANTS
  NRows = 2
  NCols = 2
  Problems <- MCProblems
  Infinite = 99
  Forgiven = 1
  Span <- MCSpan
  RefactorInterval = 2
  StallDantzig = 1
  StallBland = 2
  Sample <- MCSample
  Calls <- MCCalls
  Patterns = 3
  ClockEvery = 2
  Budget = 3
  CheckEvery = 2
  WorkSteps = 5
  Measures <- MCMeasures
  Cold <- MCCold
  Factor = 2
  PolishBound = 4
INVARIANTS
  BasisConsistent
  AnswerIsProven
  OptimumAccepted
  LoopPointKept
  WorkingSetConsistent
PROPERTIES
  StepsImprove

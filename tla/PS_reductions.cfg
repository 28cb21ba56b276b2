SPECIFICATION Spec
CONSTANTS
  NRows = 2
  NCols = 2
  Problems <- MCProblems
  MaxPasses = 3
  Infinity = Infinity
  InfeasTol = 1
  Sample <- MCSample
INVARIANTS
  WorkingModelConsistent
  SameOptimum
  PostsolveFeasible
  VerdictIsProven

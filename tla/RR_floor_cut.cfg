SPECIFICATION NodeSpec
CONSTANTS
  Columns = {1, 2, 3}
  Inf = 1000
  Horizon = 10
  ExactLimit = 7
  MaxCuts = 2
  MaxRounds = 2
  MaxDepth = 2
  Problems <- MCProblems
INVARIANT FloorCutsKeepEveryPoint

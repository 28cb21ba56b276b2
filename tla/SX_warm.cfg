SPECIFICATION Spec
CONSTANTS
  NRows = 2
  NStruct = 2
  BoundShapes <- MCTwoShapes
  Algorithms = {"AUTO"}
  MaxIterations = 3
  RefactorizeEvery = 1
  TimeCheckStride = 2
  HasTimeBudget = TRUE
INVARIANTS
  BasisConsistent
  RepairNeverRefused
  NonbasicAtABound
  OptimalIsVerified
  FlagsNameThePath

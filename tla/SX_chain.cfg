SPECIFICATION Spec
CONSTANTS
  NRows = 2
  NStruct = 1
  BoundShapes <- MCBoundShapes
  Algorithms = {"PRIMAL", "DUAL"}
  MaxIterations = 2
  RefactorizeEvery = 2
  TimeCheckStride = 2
  HasTimeBudget = FALSE
INVARIANTS
  FactorRepresentsBasis
  DeviceCurrentInPrimal
  DualConcludesOnFreshValues
PROPERTIES
  Returns

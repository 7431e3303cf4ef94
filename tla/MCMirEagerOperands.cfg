SPECIFICATION SuiteSpec
CONSTANTS
  Functions <- MCFunctions
  Programs <- EagerPrograms
  IntMin <- MCIntMin
  IntMax = 3
  MaxSteps = 150
  MaxCallDepth = 4
  Simple <- MCSimple
  Compound <- MCCompound
  ConditionsMove = FALSE
  BlocksYield = FALSE
  MaxStatements = 3
  MaxIterations = 2
INVARIANT ErrorsPropagateAsInSource
CHECK_DEADLOCK FALSE

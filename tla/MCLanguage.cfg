SPECIFICATION SuiteSpec
CONSTANTS
  Functions <- MCFunctions
  Programs <- MCPrograms
  IntMin <- MCIntMin
  IntMax = 3
  MaxSteps = 150
  MaxCallDepth = 4
  Simple <- MCSimple
  Compound <- MCCompound
  ConditionsMove = FALSE
  BlocksYield = FALSE
  MaxStatements = 3
  MaxIterations = 2
INVARIANTS
  LoweringIsExhaustive
  MirMeansSource
  AcceptedIsAffine
  RefusedIsMisused
PROPERTIES
  BudgetEndsEveryRun
CHECK_DEADLOCK FALSE

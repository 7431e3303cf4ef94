SPECIFICATION SuiteSpec
CONSTANTS
  p1 = p1
  p2 = p2
  o1 = o1
  o2 = o2
  v1 = v1
  v2 = v2
  x1 = x1
  x2 = x2
  Procs <- MCProcs
  MaxCommits = 3
  Builders <- MCProcs
  Outputs <- MCOutputs
  MaxFailures = 2
  MaxDeaths = 1
  Builds <- MCProcs
  Versions <- MCVersions
  LiveEdits = TRUE
  Object <- MCObject
  Alias <- MCAlias
  Admitted <- MCAdmitted
  Stranger <- D
  Plans <- MCPlans
  MaxFaults = 3
INVARIANTS
  BuiltFromLock

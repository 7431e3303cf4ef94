SPECIFICATION SuiteSpec
CONSTANTS
  p1 = p1
  p2 = p2
  r1 = r1
  r2 = r2
  w1 = w1
  w2 = w2
  a1 = a1
  h1 = h1
  h2 = h2
  m1 = m1
  m2 = m2
  k1 = k1
  s1 = s1
  x1 = x1
  x2 = x2
  NoHara = NoHara
  NoRequest = NoRequest
  Plan <- MCPlan
  Request <- MCRequest
  PlanOf <- MCPlanOf
  EpochOf <- MCEpochOf
  Worker <- MCWorker
  MaxEpoch = 2
  Aevra <- MCAevra
  AevraOf <- MCAevraOf
  Hara <- MCHara
  HaraAevra <- MCHaraAevra
  HaraMatrix <- MCHaraMatrix
  HaraEpoch <- MCHaraEpoch
  Handle <- MCHandle
  HandleRequest <- MCHandleRequest
  NoSubject = NoSubject
  NoPermit = NoPermit
  Subject <- MCSubject
  Constraint <- MCConstraint
  Ceiling <- MCCeilingOf
  MaxStateEpoch = 3
  Permit <- MCPermit
  SubjectOf <- MCSubjectOf
  ValidEpoch <- MCValidEpoch
  ScopeOf <- MCScopeOf
  Admin <- MCWorker
  Executor <- MCExecutor
SYMMETRY MCSymmetry
INVARIANTS
  AtMostOnceEffect
  RecordTellsEffect
  ClaimWithinHorizon
  StaleHaraStaysBehind
  JournalIsHistory
  ClaimsAreLawful
  AtMostOncePerPermit
PROPERTIES
  DeadEpochStaysClosed
  MorthIsFinal
  KeepsOneShotPromise
  OldPermitsStayOut

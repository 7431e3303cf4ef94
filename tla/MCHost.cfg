SPECIFICATION SuiteSpec
CONSTANTS
  t1 = t1
  t2 = t2
  r1 = r1
  r2 = r2
  r3 = r3
  c1 = c1
  c2 = c2
  c3 = c3
  pAllow = pAllow
  pDeny = pDeny
  pContain = pContain
  root = root
  mid = mid
  wide = wide
  flat = flat
  below = below
  owner = owner
  broker = broker
  user = user
  w1 = w1
  w2 = w2
  x1 = x1
  NoTenant = NoTenant
  NoUsage = NoUsage
  NoLink = NoLink
  NoStep = NoStep
  NoTxn = NoTxn
  NoProof = NoLink
  Tenant <- MCTenant
  Run <- MCRun
  Seeds <- MCSeeds
  Durations <- MCDurations
  Caller <- MCCaller
  Request <- MCRequest
  Proof <- MCProof
  DecisionOf <- MCDecisionOf
  Link <- MCLink
  LinkOf <- MCLinkOf
  Revocable <- MCRequest
  Principal = user
  Constraint <- MCConstraint
  Permit <- MCCaller
  PermitOf <- MCPermitOf
  MaxEpoch = 3
  MaxChain = 3
  MaxHistory = 3
  Roots <- MCRoots
  EdgeSpace <- MCEdgeSpace
  Budgets <- MCBudgets
  MaxGen = 2
  MaxScenarios = 2
  Threshold = 2
  Writers <- MCWriters
  Replicas <- MCReplicas
  Txns <- MCTxns
  Evidence <- MCTxns
  Steps <- MCSteps
  FencedWriters <- MCFenced
  Keys <- MCTxns
  Ops <- MCTenant
  Observers <- MCFenced
  Domain <- MCDomain
  Life = 1
  MaxLeaseEpoch = 2
  MaxTick = 1
  MaxCheckpoint = 1
  None = NoTxn
  Threads <- MCReplicas
  Values <- MCTenant
  Capacity = 2
  Empty = NoTxn
SYMMETRY MCSymmetry
INVARIANTS
  Conservation
  FinalityTellsEffect
  CutsSeparate
  CheckpointsAgree
  OneEffectPerKey
  OneWriterPerEpoch
PROPERTIES
  SettledIsFinal
  RevocationBindsNextEpoch
  IsBoundedFifo

SPECIFICATION SuiteSpec
CONSTANTS
  h1 = h1
  h2 = h2
  ve = ve
  sa = sa
  e1 = e1
  ka = ka
  NoEvidence = NoEvidence
  NoToken = NoToken
  Sigil <- MCSigil
  Holder <- MCHolder
  Evidence <- MCEvidence
  MaxEpoch = 3
  MaxRevokedTokens = 1
  NoReceipt = NoEvidence
  Object <- MCObject
  Root = ka
  Capsule = sa
  Writer <- MCHolder
  NoWriter = NoEvidence
  Version <- MCVersion
  MaxRealityEpoch = 3
  MaxAttempt = 3
  FsyncMayFail = FALSE
  SpaceObject <- MCObject
  Pending = sa
  MaxObjects = 2
  Reserve = 1
  MaxSpaceEpoch = 3
  MaxGen = 4
  RootSyncMayFail = FALSE
  Programs = {"plain", "full", "foreign", "reversed", "twice"}
  Source <- MCSource
  Failures <- MCFailures
  Faults = {"none", "missing", "twice", "misbound", "extra"}
  Requests <- MCRequests
  Roots <- MCRoots
  Delegates <- MCDelegates
  MaxProofs = 2
  MaxRequests = 2
  MaxGrants = 3
  Anchors = {"k"}
  Manifests <- MCManifests
  Builders = {"x", "y"}
  Profile <- MCProfile
  Pairs <- MCPairs
  AbiArtifact = "v"
  AbiToolchain = "t"
  Lifetimes = {1, 2}
  WitnessLife = 1
  MaxTrustEpoch = 2
  MaxChallenges = 2
  Grants <- MCGrants
  Actions = {"a"}
  EffectRequests <- MCEffects
  Outcomes <- MCOutcomes
  Results = {"p", "q"}
  MaxChainEpoch = 1
  MaxGeneration = 1
  MaxEvidence = 2
  MaxDecisions = 2
  MaxNative = 1
SYMMETRY MCSymmetry
INVARIANTS
  KilledEpochStaysDead
  FenceIsALadder
  
  SpaceIsAtomic
  EffectsAreLawful
  UsedUnderNewestTrust
  FinalityTellsOneEffect
PROPERTIES
  NoResurrection
CHECK_DEADLOCK FALSE

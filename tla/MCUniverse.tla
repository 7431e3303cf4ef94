----------------------------- MODULE MCUniverse -----------------------------
(***************************************************************************)
(* The Universe, its storage and its evidence, side by side: a behaviour   *)
(* exercises one component.                                                *)
(* Lifecycle, revocation, fence: two holders, two sigils, three epochs.    *)
(* Reality: a graph of two objects, or one object with two texts. Space:   *)
(* two objects. In both, no sync of the directory of the switched file     *)
(* fails; the run reality_sync_failure has that failure for the first.     *)
(* Sigil world: five programs (one whose authority has no identity of its  *)
(* own, one in the wrong order, one with a sigil twice), three ways for    *)
(* proof obligations to fail and five for receipts to be wrong. Trust      *)
(* anchors: two generations of one anchor, the newer of which retires a    *)
(* root, over three epochs; with a witness, both generations within one    *)
(* epoch and two challenges. Execution evidence: two grants, three         *)
(* requests, two epochs, two trust generations.                            *)
(***************************************************************************)
EXTENDS AuthorityRevocation, EpochFence, NativeReality, ObjectSpace,
        SigilWorld, TrustAnchors, ExecutionEvidence, TLC

CONSTANTS
  h1, h2, ve, sa, e1

VARIABLE part  \* the component that this behaviour exercises

MCSigil == {ka, ve}
MCHolder == {h1, h2}
MCEvidence == {e1}
MCObject == {ka, ve}
MCVersion == 1 .. 2

\* Bounds beside the two stores: transitions of the genesis sigil only, the other
\* one is contained and reborn with it; tokens are minted in two epochs.
GenesisOnly == \A h \in Holder : universe[h][ve].state \in {"inactive", "contained"}
TwoEpochs == \A h \in Holder : universe[h][ka].epoch <= 2
MCSymmetry == Permutations(MCHolder)

D(g, s) == [sigil |-> g, subject |-> s]
MCSource ==
  [plain |-> <<D("ka", "s"), D("vor", "s")>>,
   full |-> <<D("ka", "s"), D("vor", "s"), D("shi", "s"), D("thal", "s"), D("nur", "s")>>,
   foreign |-> <<D("ka", "s"), D("vor", "t")>>,
   reversed |-> <<D("vor", "s"), D("ka", "s")>>,
   twice |-> <<D("ka", "s"), D("ka", "t"), D("vor", "t")>>]
MCFailures == {{}, {"deny-ambient-authority"}, {"fence-stale-writers", "seal-effect-contract"}}
Q(s, o, a, e) == [subject |-> s, operation |-> o, actor |-> a, epoch |-> e]
MCRequests == {Q("s", "write", "x", 1), Q("t", "read", "x", 2)}
MCRoots == {[subject |-> "s", actor |-> "y", epoch |-> 1, operations |-> {"read", "write"}],
            [subject |-> "t", actor |-> "x", epoch |-> 1, operations |-> {"read"}]}
MCDelegates == {[actor |-> "z", operations |-> {"read"}],
                [actor |-> "x", operations |-> {"read", "write"}]}

Manifest(g, allowed, revoked, before) ==
  [anchor |-> "k", generation |-> g, allowed |-> allowed, revokedRoots |-> revoked,
   from |-> 0, before |-> before, revoked |-> FALSE]
Builder(root, where) ==
  [anchor |-> "k", root |-> root, environment |-> where, artifact |-> "v", toolchain |-> "t"]
MCProfile == [x |-> Builder("r", "d"), y |-> Builder("s", "e")]
MCPair(a, b, policy) == [a |-> a, b |-> b, policy |-> policy]
MCPairs == {MCPair("x", "y", TRUE), MCPair("x", "x", FALSE)}

MCGrants == {[subject |-> "s", actions |-> {"a"}, from |-> 0, before |-> 1],
             [subject |-> "t", actions |-> {"a"}, from |-> 0, before |-> 2]}
MCEffects == {[subject |-> "s", operation |-> "read", epoch |-> 0],
              [subject |-> "t", operation |-> "write", epoch |-> 1],
              [subject |-> "t", operation |-> "write", epoch |-> 0]}
MCOutcomes == [q \in MCEffects |-> IF q.epoch = 1 THEN {"allow", "contain"} ELSE {"allow"}]

MCManifests == {Manifest(1, {"r", "s"}, {}, 2), Manifest(2, {"r"}, {"s"}, 3)}

storageVars == <<realityVars, spaceVars>>
evidenceVars == <<vars, trustVars, chainVars>>
suiteVars == <<part, universe, revocationVars, fenceVars, storageVars, evidenceVars>>

\* Each component is in an initial state; of a component that is not exercised,
\* in one fixed initial state.
SuiteInit ==
  /\ part \in {"life", "revoke", "fence", "reality", "space",
               "sigil", "trust", "witness", "chain"}
  /\ LifecycleInit
  /\ RevocationInit
  /\ FenceInit
  /\ RealityInit
  /\ part # "reality" => ~ graph
  /\ SpaceInit
  /\ Init
  /\ TrustInit
  /\ ChainInit

\* The variables of the two stores beside the lifecycle.
registers == <<token, nuclear, revokedEpoch, revokedToken, killed>>
ladder == <<reborn, fenceHead, tombstones, firstHead, ended>>

LifeStep ==
  /\ part = "life" /\ LifecycleNext
  /\ UNCHANGED <<part, registers, ladder, storageVars, evidenceVars>>

RevokeStep ==
  /\ part = "revoke" /\ RevocationNext /\ GenesisOnly' /\ TwoEpochs'
  /\ UNCHANGED <<part, ladder, storageVars, evidenceVars>>

FenceStep ==
  /\ part = "fence" /\ FenceNext /\ GenesisOnly'
  /\ UNCHANGED <<part, registers, storageVars, evidenceVars>>

RealityStep ==
  /\ part = "reality" /\ RealityNext
  /\ UNCHANGED <<part, universe, registers, ladder, spaceVars, evidenceVars>>

SpaceStep ==
  /\ part = "space" /\ SpaceNext
  /\ UNCHANGED <<part, universe, registers, ladder, realityVars, evidenceVars>>

\* What the parts below leave alone.
Elsewhere == UNCHANGED <<part, universe, registers, ladder, storageVars>>

SigilStep == part = "sigil" /\ Next /\ Elsewhere /\ UNCHANGED <<trustVars, chainVars>>

\* Trust over several epochs, without a witness.
TrustStep ==
  /\ part = "trust" /\ TrustNext /\ UNCHANGED witnessVars
  /\ Elsewhere /\ UNCHANGED <<vars, chainVars>>

\* Bound: remote evidence that outlives the epoch it was observed in.
LongLived == \A b \in Builders : \A e \in evidence[b] : e.expires > trustEpoch + 1

\* Trust with a witness, within one epoch.
WitnessStep ==
  /\ part = "witness" /\ TrustNext /\ LongLived' /\ UNCHANGED trustEpoch
  /\ Elsewhere /\ UNCHANGED <<vars, chainVars>>

ChainStep == part = "chain" /\ ChainNext /\ Elsewhere /\ UNCHANGED <<vars, trustVars>>

SuiteNext ==
  \/ LifeStep \/ RevokeStep \/ FenceStep \/ RealityStep \/ SpaceStep
  \/ SigilStep \/ TrustStep \/ WitnessStep \/ ChainStep

SuiteSpec == SuiteInit /\ [][SuiteNext]_suiteVars
=============================================================================

-------------------------- MODULE ExecutionProofs ---------------------------
(***************************************************************************)
(* Theorems about the execution boundary (SathraExecution) and the Galaxy  *)
(* gate in front of it (GalaxyExecution), for any sets of plans, requests  *)
(* and workers; and about the bounded queue that threads of the native     *)
(* runtime share (BoundedQueue), for any capacity and any threads.         *)
(***************************************************************************)
EXTENDS GalaxyExecution, BoundedQueue, TLAPS

-----------------------------------------------------------------------------
(* The invariant of the execution boundary adds to the stated properties   *)
(* who holds a CLAIMED row (ClaimOwnership): the row alone does not say    *)
(* whether its effect has run.  The one of the gate adds what a worker has *)
(* read there (GateReads): its checks are made before the claim and in     *)
(* other databases, and still bound what is claimed.                       *)

IInv ==
  /\ TypeOK
  /\ FrozenIffTombstoned
  /\ AtMostOnceEffect
  /\ RecordTellsEffect
  /\ ClaimOwnership

GInv ==
  /\ IInv
  /\ GateTypeOK
  /\ StaleHaraStaysBehind
  /\ ClaimWithinHorizon
  /\ GateReads
  /\ HandleIsOneShot

-----------------------------------------------------------------------------
(* The steps of the gate.                                                  *)

\* Every step of the gate is a step of the execution boundary or leaves it
\* alone.
LEMMA GateStepIsBoundaryStep ==
  ASSUME GateTypeOK, [GalaxyNext]_galaxyVars
  PROVE  [Next]_vars
<1>1. CASE StoreStep
  BY Zenon, <1>1 DEF StoreStep
<1>2. CASE RegistryStep
  BY Zenon, <1>2 DEF RegistryStep
<1>3. ASSUME NEW w \in Worker, EntryStep(w) \/ CheckStep(w)
      PROVE  [Next]_vars
  BY Zenon, <1>3 DEF EntryStep, CheckStep
<1>4. ASSUME NEW w \in Worker, PassStep(w)
      PROVE  Next
  <2>1. PICK d \in Decisions : PassGate(w, d)
    BY Zenon, <1>4 DEF PassStep
  <2>2. gateReq[w] \in Request
    BY Zenon, <2>1 DEF PassGate, GateTypeOK
  <2> QED BY Zenon, <2>1, <2>2 DEF PassGate, Next
<1>5. CASE BoundaryStep
  BY Zenon, <1>5 DEF BoundaryStep, Next
<1>6. CASE UNCHANGED galaxyVars
  BY Zenon, <1>6 DEF galaxyVars
<1> QED BY Zenon, <1>1, <1>2, <1>3, <1>4, <1>5, <1>6 DEF GalaxyNext

\* The horizon of an Aevra only moves forward.
LEMMA HorizonAdvances ==
  ASSUME GateTypeOK, StaleHaraStaysBehind, [GalaxyNext]_galaxyVars
  PROVE  \A a \in Aevra : HorizonEpoch[a] <= HorizonEpoch'[a]
<1> USE GalaxyAssumption
<1>0. \A a \in Aevra : HorizonEpoch[a] \in Int
  BY DEF GateTypeOK, HorizonEpoch
<1>1. CASE StoreStep
  <2>1. ASSUME NEW a \in Aevra, EnterEventHorizon(a)
        PROVE  UNCHANGED horizon
    BY Zenon, <2>1 DEF EnterEventHorizon
  <2>2. ASSUME NEW h \in Hara, InitializeHorizon(h)
        PROVE  \A a \in Aevra : HorizonEpoch[a] <= HorizonEpoch'[a]
    BY <2>2 DEF InitializeHorizon, GateTypeOK, HorizonEpoch
  <2>3. ASSUME NEW p \in Hara, NEW s \in Hara, Advance(p, s)
        PROVE  \A a \in Aevra : HorizonEpoch[a] <= HorizonEpoch'[a]
    BY <2>3 DEF Advance, GateTypeOK, HorizonEpoch
  <2>4. UNCHANGED horizon => \A a \in Aevra : HorizonEpoch[a] <= HorizonEpoch'[a]
    BY <1>0 DEF HorizonEpoch
  <2> QED BY Zenon, <1>1, <2>1, <2>2, <2>3, <2>4 DEF StoreStep
<1>2. CASE ~StoreStep
  <2>1. UNCHANGED horizon
    BY Zenon, <1>2
    DEF GalaxyNext, RegistryStep, EntryStep, CheckStep, PassStep, BoundaryStep,
        storeVars, galaxyVars
  <2> QED BY <1>0, <2>1 DEF HorizonEpoch
<1> QED BY Zenon, <1>1, <1>2

\* The types of stores, registry and gate; a worker at the gate is in no call
\* of the execution boundary.
LEMMA GateTypes ==
  ASSUME TypeOK, GateTypeOK, [GalaxyNext]_galaxyVars
  PROVE  GateTypeOK'
<1> USE GalaxyAssumption
<1>1. CASE StoreStep
  BY <1>1
  DEF StoreStep, EnterEventHorizon, InitializeHorizon, Advance, GateTypeOK,
      vars, handleVars, gateVars
<1>2. CASE RegistryStep
  BY Zenon, <1>2
  DEF RegistryStep, Mint, Restart, GateTypeOK, vars, storeVars, gateVars
<1>3. ASSUME NEW w \in Worker, EntryStep(w)
      PROVE  GateTypeOK'
  <2>1. ASSUME NEW h \in Hara, NEW r \in Request, EnterGate(w, r, h)
        PROVE  GateTypeOK'
    BY Zenon, <1>3, <2>1
    DEF EntryStep, EnterGate, Idle, Present, GateTypeOK, vars, storeVars,
        handleVars
  <2>2. ASSUME NEW h \in Hara, NEW k \in Handle, NEW c \in 0 .. MaxEpoch,
               Materialize(w, k, h, c)
        PROVE  GateTypeOK'
    BY <1>3, <2>2
    DEF EntryStep, Materialize, Idle, Present, GateTypeOK, vars, storeVars
  <2> QED BY Zenon, <1>3, <2>1, <2>2 DEF EntryStep
<1>4. ASSUME NEW w \in Worker, CheckStep(w)
      PROVE  GateTypeOK'
  BY <1>4
  DEF CheckStep, RequireLiving, ReadHead, QuitGate, GateTo, LeaveGate,
      GateTypeOK, vars, storeVars, handleVars
<1>5. ASSUME NEW w \in Worker, PassStep(w)
      PROVE  GateTypeOK'
  BY <1>5
  DEF PassStep, PassGate, Bind, LeaveGate, GateTypeOK, TypeOK, storeVars,
      handleVars
<1>6. CASE BoundaryStep
  <2>1. \A w \in Worker : pc[w] = "idle" => pc'[w] = "idle"
    BY <1>6
    DEF BoundaryStep, workerVars, WorkerStep, Claim, ClaimRefused,
        FinalizeDenied, RunEffect, FinalizeRun, Abandon, Goto, Leave, TypeOK
  <2> QED
    BY Zenon, <1>6, <2>1 DEF BoundaryStep, GateTypeOK, storeVars, handleVars, gateVars
<1>7. CASE UNCHANGED galaxyVars
  BY Zenon, <1>7 DEF galaxyVars, GateTypeOK, vars, storeVars, handleVars, gateVars
<1> QED BY Zenon, <1>1, <1>2, <1>3, <1>4, <1>5, <1>6, <1>7 DEF GalaxyNext

\* advance puts the Hara it leaves below the new head; a Hara further down
\* stays there.
LEMMA StaleStays ==
  ASSUME GateTypeOK, GateTypeOK', StaleHaraStaysBehind, [GalaxyNext]_galaxyVars
  PROVE  StaleHaraStaysBehind'
<1> USE GalaxyAssumption
<1>1. CASE StoreStep
  <2>1. ASSUME NEW a \in Aevra, EnterEventHorizon(a)
        PROVE  StaleHaraStaysBehind'
    BY Zenon, <2>1 DEF EnterEventHorizon, StaleHaraStaysBehind, HorizonEpoch
  <2>a. \A a \in Aevra : HorizonEpoch[a] \in Int /\ HorizonEpoch'[a] \in Int
    BY DEF GateTypeOK, HorizonEpoch
  <2>b. \A h \in haraTombs : HaraEpoch[h] < HorizonEpoch'[HaraAevra[h]]
    BY <2>a, HorizonAdvances DEF StaleHaraStaysBehind, GateTypeOK
  <2>2. ASSUME NEW h \in Hara, InitializeHorizon(h)
        PROVE  StaleHaraStaysBehind'
    <3>1. \A a \in Aevra : horizon'[a] # NoHara => HaraAevra[horizon'[a]] = a
      BY <2>2 DEF InitializeHorizon, StaleHaraStaysBehind, GateTypeOK
    <3> QED BY Zenon, <2>2, <2>b, <3>1 DEF InitializeHorizon, StaleHaraStaysBehind
  <2>3. ASSUME NEW p \in Hara, NEW s \in Hara, Advance(p, s)
        PROVE  StaleHaraStaysBehind'
    <3>1. \A a \in Aevra : horizon'[a] # NoHara => HaraAevra[horizon'[a]] = a
      BY Zenon, <2>3 DEF Advance, StaleHaraStaysBehind, GateTypeOK
    <3>2. HaraEpoch[p] < HorizonEpoch'[HaraAevra[p]]
      BY <2>3 DEF Advance, HorizonEpoch, GateTypeOK
    <3> QED BY Zenon, <2>3, <2>b, <3>1, <3>2 DEF Advance, StaleHaraStaysBehind
  <2> QED BY Zenon, <1>1, <2>1, <2>2, <2>3 DEF StoreStep
<1>2. CASE ~StoreStep
  <2>1. UNCHANGED <<horizon, haraTombs>>
    BY Zenon, <1>2
    DEF GalaxyNext, RegistryStep, EntryStep, CheckStep, PassStep, BoundaryStep,
        storeVars, galaxyVars
  <2> QED BY Zenon, <2>1 DEF StaleHaraStaysBehind, HorizonEpoch
<1> QED BY Zenon, <1>1, <1>2

\* Resolving a handle deletes its entry, and an id is minted once.
LEMMA OneShotStays ==
  ASSUME GateTypeOK, HandleIsOneShot, [GalaxyNext]_galaxyVars
  PROVE  HandleIsOneShot'
<1>1. CASE RegistryStep
  BY <1>1 DEF RegistryStep, Mint, Restart, HandleIsOneShot, GateTypeOK
<1>2. ASSUME NEW w \in Worker, EntryStep(w)
      PROVE  HandleIsOneShot'
  BY <1>2
  DEF EntryStep, EnterGate, Materialize, HandleIsOneShot, GateTypeOK, handleVars
<1>3. CASE ~RegistryStep /\ \A w \in Worker : ~EntryStep(w)
  <2>1. UNCHANGED handleVars
    BY Zenon, <1>3
    DEF GalaxyNext, StoreStep, CheckStep, PassStep, BoundaryStep, galaxyVars
  <2> QED BY Zenon, <2>1 DEF handleVars, HandleIsOneShot
<1> QED BY Zenon, <1>1, <1>2, <1>3

\* What a worker read at the gate, and the request it carries, stay within the
\* horizon.
LEMMA ReadsStay ==
  ASSUME GInv, GateTypeOK', [GalaxyNext]_galaxyVars
  PROVE  GateReads'
<1> USE GalaxyAssumption, RequestAssumption
<1>a. \A a \in Aevra : HorizonEpoch[a] <= HorizonEpoch'[a]
  BY Zenon, HorizonAdvances DEF GInv
<1>b. \A a \in Aevra : HorizonEpoch[a] \in Int /\ HorizonEpoch'[a] \in Int
  BY DEF GInv, GateTypeOK, HorizonEpoch
<1>c. TypeOK /\ GateTypeOK /\ GateReads /\ StaleHaraStaysBehind
  BY Zenon DEF GInv, IInv
<1> SUFFICES ASSUME NEW w \in Worker
             PROVE  /\ gate'[w] # "off" =>
                         HaraAevra[admission'[w]] = AevraOf[gateReq'[w]]
                    /\ gate'[w] = "tomb" =>
                         /\ headRead'[w] # NoHara
                         /\ HaraEpoch[headRead'[w]]
                              <= HorizonEpoch'[AevraOf[gateReq'[w]]]
                    /\ pc'[w] # "idle" =>
                         EpochOf[req'[w]] <= HorizonEpoch'[AevraOf[req'[w]]]
  BY Zenon DEF GateReads
<1> DEFINE Same == /\ gate'[w] = gate[w] /\ gateReq'[w] = gateReq[w]
                   /\ admission'[w] = admission[w] /\ headRead'[w] = headRead[w]
           Kept == /\ pc'[w] # "idle" => pc[w] # "idle" /\ req'[w] = req[w]
<1>1. CASE Same /\ Kept
  BY SMTT(30), <1>1, <1>a, <1>b, <1>c DEF GateReads, TypeOK, GateTypeOK
<1>2. CASE StoreStep \/ RegistryStep \/ UNCHANGED galaxyVars
  <2>1. Same /\ Kept
    BY Zenon, <1>2 DEF StoreStep, RegistryStep, galaxyVars, vars, gateVars
  <2> QED BY Zenon, <1>1, <2>1
<1>3. CASE BoundaryStep
  <2>1. Same
    BY Zenon, <1>3 DEF BoundaryStep, gateVars
  <2>2. Kept
    BY <1>3, <1>c
    DEF BoundaryStep, workerVars, WorkerStep, Claim, ClaimRefused,
        FinalizeDenied, RunEffect, FinalizeRun, Abandon, Goto, Leave, TypeOK
  <2> QED BY Zenon, <1>1, <2>1, <2>2
<1>4. ASSUME NEW v \in Worker, v # w,
             EntryStep(v) \/ CheckStep(v) \/ PassStep(v)
      PROVE  Same /\ Kept
  BY <1>4, <1>c
  DEF EntryStep, CheckStep, PassStep, EnterGate, Materialize, Present,
      RequireLiving, ReadHead, QuitGate, PassGate, GateTo, LeaveGate, Bind,
      vars, TypeOK, GateTypeOK
<1>5. CASE EntryStep(w)
  <2>1. gate'[w] = "living" /\ HaraAevra[admission'[w]] = AevraOf[gateReq'[w]]
    BY SMTT(30), <1>5, <1>c
    DEF EntryStep, EnterGate, Materialize, Present, GateTypeOK
  <2>2. Kept
    BY Zenon, <1>5 DEF EntryStep, vars
  <2> QED BY <2>1, <2>2, <1>a, <1>b, <1>c DEF GateReads, TypeOK
<1>6. CASE CheckStep(w)
  <2>1. Kept /\ UNCHANGED horizon
    BY Zenon, <1>6 DEF CheckStep, vars, storeVars
  <2>2. /\ gate'[w] # "off" => /\ gate[w] # "off"
                               /\ admission'[w] = admission[w]
                               /\ gateReq'[w] = gateReq[w]
        /\ gate'[w] = "tomb" =>
             /\ horizon[AevraOf[gateReq[w]]] # NoHara
             /\ headRead'[w] = horizon[AevraOf[gateReq[w]]]
    BY <1>6, <1>c
    DEF CheckStep, RequireLiving, ReadHead, QuitGate, GateTo, LeaveGate,
        GateTypeOK
  <2>3. gate'[w] = "tomb" => HaraEpoch[headRead'[w]]
                               <= HorizonEpoch'[AevraOf[gateReq'[w]]]
    BY <2>1, <2>2, <1>c DEF HorizonEpoch, GateTypeOK
  <2> QED BY SMTT(30), <2>1, <2>2, <2>3, <1>a, <1>b, <1>c DEF GateReads, TypeOK
<1>7. CASE PassStep(w)
  <2>1. UNCHANGED horizon
    BY Zenon, <1>7 DEF PassStep, storeVars
  <2>2. /\ gate'[w] = "off" /\ gate[w] = "tomb"
        /\ req'[w] = gateReq[w] /\ HaraAccepted(w)
    BY SMTT(30), <1>7, <1>c DEF PassStep, PassGate, LeaveGate, Bind, GateTypeOK, TypeOK
  <2>3. EpochOf[req'[w]] <= HorizonEpoch[AevraOf[req'[w]]]
    BY Zenon, <2>2, <1>c DEF HaraAccepted, GateReads
  <2> QED BY Zenon, <2>1, <2>2, <2>3 DEF HorizonEpoch
<1> QED BY Zenon, <1>1, <1>2, <1>3, <1>4, <1>5, <1>6, <1>7 DEF GalaxyNext

\* A claim is made for a request some worker carries within the horizon.
LEMMA ClaimsStay ==
  ASSUME GInv, GateTypeOK', [GalaxyNext]_galaxyVars
  PROVE  ClaimWithinHorizon'
<1> USE GalaxyAssumption, RequestAssumption
<1>a. \A a \in Aevra : HorizonEpoch[a] <= HorizonEpoch'[a]
  BY Zenon, HorizonAdvances DEF GInv
<1>b. \A a \in Aevra : HorizonEpoch[a] \in Int /\ HorizonEpoch'[a] \in Int
  BY DEF GInv, GateTypeOK, HorizonEpoch
<1>c. TypeOK /\ GateReads /\ ClaimWithinHorizon
  BY Zenon DEF GInv, IInv
<1> SUFFICES ASSUME NEW r \in Request, claims'[r] # "none"
             PROVE  EpochOf[r] <= HorizonEpoch[AevraOf[r]]
  BY <1>a, <1>b DEF ClaimWithinHorizon
<1>1. CASE claims[r] # "none"
  BY Zenon, <1>1, <1>c DEF ClaimWithinHorizon
<1>2. CASE claims[r] = "none"
  <2>1. Next
    BY Zenon, <1>2, GateStepIsBoundaryStep DEF GInv, vars
  <2>2. PICK w \in Worker : Claim(w)
    BY Zenon, <1>2, <2>1, <1>c
    DEF Next, Governance, Initialize, ApplyNuclearContainment, AdvanceRebirth,
        Bind, WorkerStep, ClaimRefused, FinalizeDenied, RunEffect, FinalizeRun,
        FinalizeClaim, Abandon, TypeOK, CoordinatorTypeOK
  <2>3. r = req[w] /\ pc[w] = "bound"
    BY Zenon, <1>2, <2>2, <1>c DEF Claim, AtomicClaim, TypeOK, CoordinatorTypeOK
  <2> QED BY Zenon, <2>3, <1>c DEF GateReads
<1> QED BY Zenon, <1>1, <1>2

\* A step leaves a dead Aevra dead and lets no call of it past the Black Hole.
LEMMA MorthStep ==
  ASSUME GInv, GalaxyNext, NEW r \in Request, AevraOf[r] \in morth,
         NoneInFlight(r)
  PROVE  /\ AevraOf[r] \in morth'
         /\ NoneInFlight(r)'
         /\ claims[r] = "none" => claims'[r] = "none"
<1> USE GalaxyAssumption
<1>a. TypeOK /\ GateTypeOK
  BY SMTT(30) DEF GInv, IInv
<1>1. AevraOf[r] \in morth'
  BY Zenon DEF GalaxyNext, StoreStep, EnterEventHorizon, InitializeHorizon, Advance,
      RegistryStep, EntryStep, CheckStep, PassStep, BoundaryStep, storeVars
<1>2. ASSUME NEW w \in Worker, gate'[w] \in {"head", "tomb"}, gateReq'[w] = r
      PROVE  FALSE
  <2>1. gate[w] \notin {"head", "tomb"} \/ gateReq[w] # r
    BY Zenon DEF NoneInFlight
  <2>2. gate'[w] # gate[w] \/ gateReq'[w] # gateReq[w]
    BY Zenon, <1>2, <2>1
  <2>3. PICK v \in Worker : EntryStep(v) \/ CheckStep(v) \/ PassStep(v)
    BY Zenon, <2>2 DEF GalaxyNext, StoreStep, RegistryStep, BoundaryStep, gateVars
  <2>4. CASE EntryStep(v)
    BY <1>2, <1>a, <2>2, <2>4
    DEF EntryStep, EnterGate, Materialize, Present, GateTypeOK
  <2>5. CASE CheckStep(v)
    BY <1>2, <1>a, <2>1, <2>2, <2>5
    DEF CheckStep, RequireLiving, ReadHead, QuitGate, GateTo, LeaveGate,
        GateTypeOK
  <2>6. CASE PassStep(v)
    BY Zenon, <1>2, <1>a, <2>2, <2>6 DEF PassStep, PassGate, LeaveGate, GateTypeOK
  <2> QED BY Zenon, <2>3, <2>4, <2>5, <2>6
<1>3. ASSUME NEW w \in Worker, pc'[w] = "bound", req'[w] = r
      PROVE  FALSE
  <2>1. pc[w] # "bound" \/ req[w] # r
    BY Zenon DEF NoneInFlight
  <2>2. CASE PassStep(w)
    BY Zenon, <1>3, <1>a, <2>2
    DEF PassStep, PassGate, Bind, TypeOK, GateTypeOK, NoneInFlight
  <2>3. ASSUME NEW v \in Worker, v # w, PassStep(v)
        PROVE  FALSE
    BY Zenon, <1>3, <1>a, <2>1, <2>3 DEF PassStep, PassGate, Bind, TypeOK
  <2>4. CASE BoundaryStep
    BY <1>3, <1>a, <2>1, <2>4
    DEF BoundaryStep, workerVars, WorkerStep, Claim, ClaimRefused,
        FinalizeDenied, RunEffect, FinalizeRun, Abandon, Goto, Leave, TypeOK
  <2>5. CASE UNCHANGED vars
    BY SMTT(30), <1>3, <2>1, <2>5 DEF vars
  <2> QED
    BY Zenon, <2>2, <2>3, <2>4, <2>5
    DEF GalaxyNext, StoreStep, RegistryStep, EntryStep, CheckStep
<1>4. claims[r] = "none" => claims'[r] = "none"
  <2>1. [Next]_vars
    BY Zenon, GateStepIsBoundaryStep, <1>a
  <2> QED
    BY ZenonT(30), <2>1, <1>a
    DEF vars, Next, Governance, Initialize, ApplyNuclearContainment,
        AdvanceRebirth, Bind, WorkerStep, Claim, AtomicClaim, ClaimRefused,
        FinalizeDenied, RunEffect, FinalizeRun, FinalizeClaim, Abandon,
        TypeOK, CoordinatorTypeOK, NoneInFlight
<1> QED BY Zenon, <1>1, <1>2, <1>3, <1>4 DEF NoneInFlight

-----------------------------------------------------------------------------
(* The steps of the execution boundary, and what holds of it.              *)

\* The initial state: empty tables, idle workers.
LEMMA InitIInv == Init => IInv
  BY RequestAssumption, NoRequestAssumption
  DEF Init, IInv, TypeOK, CoordinatorTypeOK, CoordinatorInit, HeadRow, NoRow,
      ClaimStates, FinalStates, Decisions, InClaim, FrozenIffTombstoned,
      AtMostOnceEffect, RecordTellsEffect, ClaimOwnership

\* The governance operations touch neither claims nor workers and move head
\* and tombstones together.
LEMMA GovernanceIInv ==
  IInv /\ Governance /\ UNCHANGED workerVars => IInv'
<1> SUFFICES ASSUME IInv, UNCHANGED workerVars,
                    NEW p \in Plan, NEW e \in 1 .. MaxEpoch,
                    Initialize(p, e) \/ ApplyNuclearContainment(p, e)
                      \/ AdvanceRebirth(p, e)
             PROVE  IInv'
  BY Zenon DEF Governance
<1> USE DEF IInv
<1>e. e \in Nat /\ e >= 1
  BY RequestAssumption
<1>1. UNCHANGED claims
  BY Zenon DEF Initialize, ApplyNuclearContainment, AdvanceRebirth
<1>2. AtMostOnceEffect' /\ RecordTellsEffect' /\ ClaimOwnership'
  BY Zenon, <1>1 DEF workerVars, AtMostOnceEffect, RecordTellsEffect, ClaimOwnership
<1>3. CASE Initialize(p, e)
  <2>1. CoordinatorTypeOK'
    BY Zenon, <1>3, <1>e DEF Initialize, TypeOK, CoordinatorTypeOK, HeadRow
  <2>2. FrozenIffTombstoned'
    BY <1>3, <1>e
    DEF Initialize, TypeOK, CoordinatorTypeOK, HeadRow, FrozenIffTombstoned
  <2> QED BY Zenon, <1>2, <2>1, <2>2 DEF TypeOK, workerVars
<1>4. CASE ApplyNuclearContainment(p, e)
  <2>1. CoordinatorTypeOK'
    BY <1>4, <1>e
    DEF ApplyNuclearContainment, TypeOK, CoordinatorTypeOK, HeadRow
  <2>2. FrozenIffTombstoned'
    BY <1>4, <1>e
    DEF ApplyNuclearContainment, TypeOK, CoordinatorTypeOK, HeadRow,
        FrozenIffTombstoned
  <2> QED BY Zenon, <1>2, <2>1, <2>2 DEF TypeOK, workerVars
<1>5. CASE AdvanceRebirth(p, e)
  <2>1. CoordinatorTypeOK'
    BY <1>5, <1>e DEF AdvanceRebirth, TypeOK, CoordinatorTypeOK, HeadRow
  <2>2. FrozenIffTombstoned'
    BY <1>5, <1>e
    DEF AdvanceRebirth, TypeOK, CoordinatorTypeOK, HeadRow, FrozenIffTombstoned
  <2> QED BY Zenon, <1>2, <2>1, <2>2 DEF TypeOK, workerVars
<1> QED BY Zenon, <1>3, <1>4, <1>5

\* A step of a worker leaves head and tombstones alone.
LEMMA WorkerIInv ==
  ASSUME IInv, NEW w \in Worker,
         \/ \E r \in Request, d \in Decisions : Bind(w, r, d)
         \/ WorkerStep(w)
         \/ Abandon(w)
  PROVE  IInv'
<1> USE DEF IInv
<1>0. UNCHANGED <<heads, tombstones>>
  BY Zenon DEF Bind, WorkerStep, Abandon, Claim, ClaimRefused, FinalizeDenied,
         RunEffect, FinalizeRun, AtomicClaim, FinalizeClaim
<1>1. FrozenIffTombstoned'
  BY Zenon, <1>0 DEF FrozenIffTombstoned
<1>2. ASSUME NEW r \in Request, NEW d \in Decisions, Bind(w, r, d)
      PROVE  IInv'
  BY SMTT(30), <1>0, <1>1, <1>2
  DEF Bind, TypeOK, CoordinatorTypeOK, InClaim, AtMostOnceEffect,
      RecordTellsEffect, ClaimOwnership
<1>3. CASE Claim(w)
  BY <1>0, <1>1, <1>3
  DEF Claim, AtomicClaim, ClaimAdmissible, Goto, TypeOK, CoordinatorTypeOK,
      ClaimStates, InClaim, AtMostOnceEffect, RecordTellsEffect, ClaimOwnership
<1>4. CASE ClaimRefused(w)
  BY <1>0, <1>1, <1>4
  DEF ClaimRefused, Leave, TypeOK, CoordinatorTypeOK, InClaim, AtMostOnceEffect,
      RecordTellsEffect, ClaimOwnership
<1>5. CASE FinalizeDenied(w)
  BY <1>0, <1>1, <1>5
  DEF FinalizeDenied, FinalizeClaim, FinalStates, Leave, TypeOK,
      CoordinatorTypeOK, ClaimStates, InClaim, AtMostOnceEffect,
      RecordTellsEffect, ClaimOwnership
<1>6. CASE RunEffect(w)
  BY <1>0, <1>1, <1>6
  DEF RunEffect, Goto, TypeOK, CoordinatorTypeOK, ClaimStates, InClaim,
      AtMostOnceEffect, RecordTellsEffect, ClaimOwnership
<1>7. CASE FinalizeRun(w)
  BY <1>0, <1>1, <1>7
  DEF FinalizeRun, FinalizeClaim, FinalStates, Leave, TypeOK, CoordinatorTypeOK,
      ClaimStates, InClaim, AtMostOnceEffect, RecordTellsEffect, ClaimOwnership
<1>8. CASE Abandon(w)
  BY <1>0, <1>1, <1>8
  DEF Abandon, Leave, TypeOK, CoordinatorTypeOK, InClaim, AtMostOnceEffect,
      RecordTellsEffect, ClaimOwnership
<1> QED BY Zenon, <1>2, <1>3, <1>4, <1>5, <1>6, <1>7, <1>8 DEF WorkerStep

\* Every step preserves the inductive invariant.
LEMMA NextIInv == IInv /\ [Next]_vars => IInv'
<1>1. IInv /\ Next => IInv'
  BY Zenon, GovernanceIInv, WorkerIInv DEF Next
<1>2. IInv /\ UNCHANGED vars => IInv'
  BY DEF IInv, vars, TypeOK, CoordinatorTypeOK, FrozenIffTombstoned,
         AtMostOnceEffect, RecordTellsEffect, ClaimOwnership
<1> QED BY Zenon, <1>1, <1>2

\* The inductive invariant holds in every reachable state.
THEOREM Inductive == Spec => []IInv
  BY InitIInv, NextIInv, PTL DEF Spec

\* The tables and the workers' state stay within their types.
THEOREM TypeCorrect == Spec => []TypeOK
<1>1. IInv => TypeOK
  BY Zenon DEF IInv
<1> QED BY <1>1, Inductive, PTL

\* A plan is frozen exactly while its current epoch is tombstoned.
THEOREM FreezeMatchesTombstone == Spec => []FrozenIffTombstoned
<1>1. IInv => FrozenIffTombstoned
  BY Zenon DEF IInv
<1> QED BY <1>1, Inductive, PTL

\* No request's effect ever runs twice.
THEOREM AtMostOnce == Spec => []AtMostOnceEffect
<1>1. IInv => AtMostOnceEffect
  BY Zenon DEF IInv
<1> QED BY <1>1, Inductive, PTL

\* The durable claim row never misreports the effect.
THEOREM RecordIsTruthful == Spec => []RecordTellsEffect
<1>1. IInv => RecordTellsEffect
  BY Zenon DEF IInv
<1> QED BY <1>1, Inductive, PTL

\* No request of a tombstoned epoch is ever claimed again.
THEOREM DeadEpochClosed == Spec => DeadEpochStaysClosed
<1> DEFINE Closed ==
      /\ tombstones \subseteq tombstones'
      /\ \A r \in Request :
           <<PlanOf[r], EpochOf[r]>> \in tombstones /\ claims[r] = "none"
             => claims'[r] = "none"
<1>1. ASSUME IInv, Next PROVE Closed
  <2>1. CASE Governance /\ UNCHANGED workerVars
    BY SMTT(30), <2>1 DEF Governance, Initialize, ApplyNuclearContainment, AdvanceRebirth
  <2>2. ASSUME NEW w \in Worker,
               \/ \E r \in Request, d \in Decisions : Bind(w, r, d)
               \/ WorkerStep(w)
               \/ Abandon(w)
        PROVE  Closed
    BY Zenon, <1>1, <2>2
    DEF IInv, TypeOK, CoordinatorTypeOK, ClaimStates, WorkerStep, Bind, Abandon,
        Claim, ClaimRefused, FinalizeDenied, RunEffect, FinalizeRun,
        AtomicClaim, ClaimAdmissible, FinalizeClaim
  <2> QED BY Zenon, <1>1, <2>1, <2>2 DEF Next
<1>2. IInv /\ [Next]_vars => [Closed]_vars
  BY Zenon, <1>1
<1> QED BY <1>2, Inductive, PTL DEF Spec, DeadEpochStaysClosed

\* Each governance operation grants or ends one (plan, epoch).
LEMMA GovernanceIsOneShot ==
  ASSUME IInv, Governance, UNCHANGED workerVars
  PROVE  OneShot!Next
<1> USE DEF IInv
<1>0. UNCHANGED <<claims, effects>>
  BY Zenon DEF Governance, Initialize, ApplyNuclearContainment, AdvanceRebirth, workerVars
<1>1. PICK p \in Plan, e \in 1 .. MaxEpoch :
        \/ Initialize(p, e)
        \/ ApplyNuclearContainment(p, e)
        \/ e < MaxEpoch /\ AdvanceRebirth(p, e)
  BY Zenon DEF Governance
<1>e. e \in 0 .. MaxEpoch /\ e # 0
  BY RequestAssumption
<1> DEFINE Auth == Plan \X (0 .. MaxEpoch)
<1>t. \A a \in Auth : a[1] \in Plan /\ a[2] \in 0 .. MaxEpoch /\ a = <<a[1], a[2]>>
  OBVIOUS
<1>h. \A q \in Plan : heads[q].epoch \in Nat /\ heads[q].frozen \in BOOLEAN
  BY Zenon DEF TypeOK, CoordinatorTypeOK, HeadRow
<1>2. CASE Initialize(p, e)
  <2>0. <<p, e>> \notin tombstones
    <3>1. <<p, e>> \in tombstones => <<p, e>>[2] <= heads[p].epoch
      BY Zenon DEF FrozenIffTombstoned
    <3> QED BY <3>1, <1>2, <1>e, RequestAssumption DEF Initialize
  <2>1. \A a \in Auth : Standing'[a] = IF a = <<p, e>> THEN "live" ELSE Standing[a]
    BY <2>0, <1>2, <1>e, <1>t, <1>h
    DEF Initialize, Standing, TypeOK, CoordinatorTypeOK
  <2>2. Standing[<<p, e>>] = "absent"
    BY Zenon, <2>0, <1>2, <1>e, <1>h DEF Initialize, Standing
  <2>3. Standing' = [Standing EXCEPT ![<<p, e>>] = "live"]
    BY Zenon, <2>1, <1>e DEF Standing
  <2>4. OneShot!Grant(<<p, e>>)
    BY Zenon, <1>0, <2>2, <2>3 DEF OneShot!Grant, OneShot!Move
  <2> QED BY Zenon, <2>4, <1>e DEF OneShot!Next
<1>3. CASE ApplyNuclearContainment(p, e)
  <2>1. \A a \in Auth : Standing'[a] = IF a = <<p, e>> THEN "ended" ELSE Standing[a]
    BY Zenon, <1>3, <1>e, <1>t, <1>h
    DEF ApplyNuclearContainment, Standing, TypeOK, CoordinatorTypeOK
  <2>2. Standing[<<p, e>>] = "live"
    BY Zenon, <1>3, <1>e DEF ApplyNuclearContainment, Standing
  <2>3. Standing' = [Standing EXCEPT ![<<p, e>>] = "ended"]
    BY Zenon, <2>1, <1>e DEF Standing
  <2>4. OneShot!End(<<p, e>>)
    BY Zenon, <1>0, <2>2, <2>3 DEF OneShot!End, OneShot!Move
  <2> QED BY Zenon, <2>4, <1>e DEF OneShot!Next
<1>4. CASE e < MaxEpoch /\ AdvanceRebirth(p, e)
  <2>e. e + 1 \in 0 .. MaxEpoch /\ e + 1 # 0
    BY <1>4, <1>e, RequestAssumption
  <2>0. <<p, e>> \in tombstones /\ <<p, e + 1>> \notin tombstones
    BY <1>4, <1>e, <1>h DEF AdvanceRebirth, FrozenIffTombstoned
  <2>1. \A a \in Auth :
          Standing'[a] = IF a = <<p, e + 1>> THEN "live" ELSE Standing[a]
    BY <1>4, <1>e, <2>e, <2>0, <1>t, <1>h
    DEF AdvanceRebirth, Standing, TypeOK, CoordinatorTypeOK
  <2>2. Standing[<<p, e + 1>>] = "absent"
    BY Zenon, <1>4, <1>e, <2>e, <2>0, <1>h DEF AdvanceRebirth, Standing
  <2>3. Standing' = [Standing EXCEPT ![<<p, e + 1>>] = "live"]
    BY Zenon, <2>1, <2>e DEF Standing
  <2>4. OneShot!Grant(<<p, e + 1>>)
    BY Zenon, <1>0, <2>2, <2>3 DEF OneShot!Grant, OneShot!Move
  <2> QED BY Zenon, <2>4, <2>e DEF OneShot!Next
<1> QED BY Zenon, <1>1, <1>2, <1>3, <1>4

\* A worker's claim admits its request, its callback performs it, and every
\* other step of a worker is invisible.
LEMMA WorkerIsOneShot ==
  ASSUME IInv, NEW w \in Worker,
         \/ \E r \in Request, d \in Decisions : Bind(w, r, d)
         \/ WorkerStep(w)
         \/ Abandon(w)
  PROVE  OneShot!Next \/ UNCHANGED OneShot!vars
<1> USE DEF IInv
<1> DEFINE admitted == {r \in Request : claims[r] # "none"}
<1>0. UNCHANGED <<heads, tombstones>> /\ UNCHANGED Standing
  BY Zenon DEF Bind, WorkerStep, Abandon, Claim, ClaimRefused, FinalizeDenied, RunEffect,
         FinalizeRun, AtomicClaim, FinalizeClaim, Standing
<1>1. CASE Claim(w)
  <2>1. req[w] \in Request /\ ClaimAdmissible(req[w])
    BY Zenon, <1>1 DEF Claim, AtomicClaim, TypeOK
  <2>2. admitted' = admitted \cup {req[w]} /\ req[w] \notin admitted
    BY ZenonT(30), <1>1, <2>1
    DEF Claim, AtomicClaim, ClaimAdmissible, TypeOK, CoordinatorTypeOK
  <2>3. <<PlanOf[req[w]], EpochOf[req[w]]>> \in Plan \X (0 .. MaxEpoch)
    BY Zenon, <2>1, RequestAssumption
  <2>4. Standing[<<PlanOf[req[w]], EpochOf[req[w]]>>] = "live"
    BY SMTT(30), <2>1, <2>3 DEF ClaimAdmissible, Standing
  <2>5. OneShot!Admit(req[w])
    BY Zenon, <1>0, <1>1, <2>1, <2>2, <2>4 DEF Claim, OneShot!Admit
  <2>6. \E t \in Request : OneShot!Admit(t)
    BY Zenon, <2>1, <2>5 DEF OneShot!Admit
  <2> QED BY Zenon, <2>6 DEF OneShot!Next
<1>2. CASE RunEffect(w)
  <2>0. req[w] \in Request /\ claims[req[w]] = "CLAIMED" /\ effects[req[w]] = 0
    BY Zenon, <1>2 DEF RunEffect, TypeOK, ClaimOwnership, InClaim
  <2>1. effects' = [effects EXCEPT ![req[w]] = 1] /\ UNCHANGED claims
    BY SMTT(30), <1>2, <2>0 DEF RunEffect
  <2>2. OneShot!Perform(req[w])
    BY Zenon, <1>0, <2>0, <2>1 DEF OneShot!Perform
  <2>3. \E t \in Request : OneShot!Perform(t)
    BY SMTT(30), <2>0, <2>2
  <2> QED BY Zenon, <2>3 DEF OneShot!Next
<1>3. CASE FinalizeDenied(w) \/ FinalizeRun(w)
  <2>1. PICK state \in FinalStates : FinalizeClaim(req[w], state)
    BY Zenon, <1>3 DEF FinalizeDenied, FinalizeRun, FinalizeClaim
  <2>2. req[w] \in Request /\ effects' = effects
    BY Zenon, <1>3 DEF FinalizeDenied, FinalizeRun, TypeOK
  <2>3. admitted' = admitted
    BY Zenon, <2>1, <2>2 DEF FinalizeClaim, FinalStates, TypeOK, CoordinatorTypeOK
  <2> QED BY SMTT(30), <1>0, <2>2, <2>3 DEF OneShot!vars
<1>4. CASE \/ ClaimRefused(w) \/ Abandon(w)
           \/ \E r \in Request, d \in Decisions : Bind(w, r, d)
  <2>1. UNCHANGED <<claims, effects>>
    BY Zenon, <1>4 DEF ClaimRefused, Abandon, Bind
  <2> QED BY Zenon, <1>0, <2>1 DEF OneShot!vars
<1> QED BY SMTT(30), <1>1, <1>2, <1>3, <1>4 DEF WorkerStep

\* Every behaviour of the boundary, whatever the plans, requests and workers,
\* is one that OneShotAuthority allows.
THEOREM BoundaryKeepsPromise == Spec => KeepsOneShotPromise
<1>1. Init => OneShot!Init
  BY RequestAssumption
  DEF Init, CoordinatorInit, NoRow, Standing, OneShot!Init
<1>2. IInv /\ [Next]_vars => [OneShot!Next]_(OneShot!vars)
  <2>1. CASE Next
    BY Zenon, <2>1, GovernanceIsOneShot, WorkerIsOneShot DEF Next
  <2>2. CASE UNCHANGED vars
    BY Zenon, <2>2 DEF vars, Standing, OneShot!vars
  <2> QED BY Zenon, <2>1, <2>2
<1> QED BY <1>1, <1>2, Inductive, PTL DEF Spec, KeepsOneShotPromise, OneShot!Spec

-----------------------------------------------------------------------------
(* What holds of the gate.  It only restricts the execution boundary, so   *)
(* the theorems above hold behind it.                                      *)

\* The initial state: empty stores, no worker at the gate.
LEMMA GalaxyInitGInv == GalaxyInit => GInv
<1> SUFFICES ASSUME GalaxyInit PROVE GInv
  BY Zenon
<1>1. IInv
  BY Zenon, InitIInv DEF GalaxyInit
<1>2. GateTypeOK
  BY SMTT(30) DEF GalaxyInit, GateTypeOK
<1>3. StaleHaraStaysBehind /\ ClaimWithinHorizon /\ GateReads /\ HandleIsOneShot
  BY DEF GalaxyInit, Init, CoordinatorInit, StaleHaraStaysBehind,
         ClaimWithinHorizon, GateReads, HandleIsOneShot
<1> QED BY Zenon, <1>1, <1>2, <1>3 DEF GInv

\* Every step preserves the inductive invariant.
LEMMA GalaxyNextGInv == GInv /\ [GalaxyNext]_galaxyVars => GInv'
<1> SUFFICES ASSUME GInv, [GalaxyNext]_galaxyVars
             PROVE  GInv'
  BY Zenon
<1>1. IInv'
  BY Zenon, GateStepIsBoundaryStep, NextIInv DEF GInv
<1>2. GateTypeOK'
  BY Zenon, GateTypes DEF GInv, IInv
<1> QED BY Zenon, <1>1, <1>2, StaleStays, OneShotStays, ReadsStay, ClaimsStay DEF GInv

\* The inductive invariant holds in every reachable state.
THEOREM GalaxyInductive == GalaxySpec => []GInv
  BY GalaxyInitGInv, GalaxyNextGInv, PTL DEF GalaxySpec

\* The gate implements the execution boundary: whatever is proved of
\* SathraExecution, at-most-once included, holds behind the gate.
THEOREM GalaxyImplementsBoundary == GalaxySpec => Spec
<1>1. GalaxyInit => Init
  BY Zenon DEF GalaxyInit
<1>2. GInv /\ [GalaxyNext]_galaxyVars => [Next]_vars
  BY Zenon, GateStepIsBoundaryStep DEF GInv
<1> QED BY <1>1, <1>2, GalaxyInductive, PTL DEF GalaxySpec, Spec

\* A tombstoned Hara never becomes current again.
THEOREM StaleHaraNeverReturns == GalaxySpec => []StaleHaraStaysBehind
<1>1. GInv => StaleHaraStaysBehind
  BY Zenon DEF GInv
<1> QED BY <1>1, GalaxyInductive, PTL

\* What is claimed lies within the horizon of its Aevra.
THEOREM ClaimsWithinHorizon == GalaxySpec => []ClaimWithinHorizon
<1>1. GInv => ClaimWithinHorizon
  BY Zenon DEF GInv
<1> QED BY <1>1, GalaxyInductive, PTL

\* A materialization handle is resolved at most once.
THEOREM HandlesAreOneShot == GalaxySpec => []HandleIsOneShot
<1>1. GInv => HandleIsOneShot
  BY Zenon DEF GInv
<1> QED BY <1>1, GalaxyInductive, PTL

\* A dead Aevra whose calls in flight are over is out of critical execution
\* for good.
THEOREM MorthFinal == GalaxySpec => MorthIsFinal
<1> DEFINE Final ==
      \A r \in Request :
        AevraOf[r] \in morth /\ NoneInFlight(r)
          => /\ AevraOf[r] \in morth'
             /\ NoneInFlight(r)'
             /\ claims[r] = "none" => claims'[r] = "none"
<1>1. ASSUME GInv, GalaxyNext PROVE Final
  BY Zenon, <1>1, MorthStep
<1>2. GInv /\ [GalaxyNext]_galaxyVars => [Final]_galaxyVars
  BY Zenon, <1>1
<1> QED BY <1>2, GalaxyInductive, PTL DEF GalaxySpec, MorthIsFinal

-----------------------------------------------------------------------------
(* The bounded queue.                                                      *)

\* Where an index ends up in the ring.
LEMMA RingIndex ==
  ASSUME NEW n \in 0 .. 2 * Capacity - 1
  PROVE  n % Capacity = IF n < Capacity THEN n ELSE n - Capacity
<1>1. CASE n < Capacity
  BY <1>1, QueueAssumption
<1>2. CASE n >= Capacity
  BY <1>2, QueueAssumption
<1> QED BY <1>1, <1>2, QueueAssumption

\* The statements under the lock.
Inside == {"send-full", "send-tail", "send-count",
           "recv-empty", "recv-clear", "recv-head", "recv-count"}

Sending == {"send", "send-full", "send-tail", "send-count"}

RingTypes ==
  /\ buffer \in [Slots -> Values \cup {Empty}]
  /\ head \in Slots /\ tail \in Slots
  /\ count \in 0 .. Capacity
  /\ stage \in [Threads -> Statements]
  /\ held \in [Threads -> Values \cup {Empty}]
  /\ \A t \in Threads : stage[t] \in Sending => held[t] \in Values

\* The lock holds the thread that is inside, and there is at most one.
RingLockInv ==
  /\ lock = {t \in Threads : stage[t] \in Inside}
  /\ \A t, u \in lock : t = u

\* What the indices say at each statement of the thread inside the lock.
IndexInv ==
  /\ lock = {} => tail = (head + count) % Capacity
  /\ \A t \in Threads :
       /\ stage[t] \in {"send-full", "send-tail", "recv-empty", "recv-clear", "recv-head"}
            => tail = (head + count) % Capacity
       /\ stage[t] \in {"send-tail", "send-count"} =>
            count < Capacity /\ buffer[(head + count) % Capacity] = held[t]
       /\ stage[t] = "send-count" => tail = (head + count + 1) % Capacity
       /\ stage[t] \in {"recv-clear", "recv-head", "recv-count"} => count > 0
       /\ stage[t] = "recv-clear" => held[t] = buffer[head]
       /\ stage[t] = "recv-count" => tail = (head + count - 1) % Capacity

QueueInv == RingTypes /\ RingLockInv /\ IndexInv

\* The thread inside the lock is alone there.
LEMMA Alone ==
  ASSUME RingLockInv, NEW t \in Threads, stage[t] \in Inside
  PROVE  lock = {t} /\ \A u \in Threads : stage[u] \in Inside => u = t
  BY Zenon DEF RingLockInv

\* The invariant of the ring is inductive for any threads, values and capacity.
LEMMA QueueInductive == QueueInit /\ [][QueueNext]_queueVars => []QueueInv
<1> USE QueueAssumption
<1>1. QueueInit => QueueInv
  <2> SUFFICES ASSUME QueueInit PROVE QueueInv
    BY Zenon
  <2>1. RingTypes
    BY DEF QueueInit, RingTypes, Slots, Statements, Sending
  <2>2. RingLockInv /\ IndexInv
    BY DEF QueueInit, RingLockInv, IndexInv, Inside
  <2> QED BY Zenon, <2>1, <2>2 DEF QueueInv
<1>2. QueueInv /\ [QueueNext]_queueVars => QueueInv'
  <2> SUFFICES ASSUME QueueInv, [QueueNext]_queueVars PROVE QueueInv'
    BY Zenon
  <2> USE DEF QueueInv
  <2>1. ASSUME NEW t \in Threads, Call(t) PROVE QueueInv'
    <3>1. PICK s \in {"send", "recv", "look"} : stage' = [stage EXCEPT ![t] = s]
      BY Zenon, <2>1 DEF Call, Proceed
    <3>2. RingTypes'
      BY <2>1 DEF Call, Proceed, RingTypes, Statements, Sending
    <3>3. RingLockInv'
      BY <2>1, <3>1 DEF Call, RingLockInv, RingTypes, Inside
    <3>4. \A u \in Threads : stage'[u] \in Inside => stage'[u] = stage[u] /\ held'[u] = held[u]
      BY Zenon, <2>1, <3>1 DEF Call, Proceed, RingTypes, Inside
    <3>5. IndexInv'
      BY <2>1, <3>4 DEF Call, IndexInv, Inside
    <3> QED BY Zenon, <3>2, <3>3, <3>5
  <2>2. ASSUME NEW t \in Threads, NEW s \in {"send-full", "recv-empty"},
               Acquire(t, s),
               \/ stage[t] = "send" /\ s = "send-full"
               \/ stage[t] = "recv" /\ s = "recv-empty",
               UNCHANGED <<buffer, head, tail, count, held>>
        PROVE  QueueInv'
    <3>1. RingTypes'
      BY Zenon, <2>2 DEF Acquire, Proceed, RingTypes, Statements, Sending
    <3>2. RingLockInv'
      BY <2>2 DEF Acquire, Proceed, RingLockInv, RingTypes, Inside
    <3>3. \A u \in Threads : u # t => stage'[u] \notin Inside
      BY Zenon, <2>2 DEF Acquire, Proceed, RingLockInv, RingTypes
    <3>4. stage'[t] = s /\ lock = {} /\ lock' = {t}
      BY Zenon, <2>2 DEF Acquire, Proceed, RingTypes
    <3>5. IndexInv'
      BY Zenon, <2>2, <3>3, <3>4 DEF IndexInv, Inside
    <3> QED BY Zenon, <3>1, <3>2, <3>5
  <2>3. ASSUME NEW t \in Threads, NEW a, stage[t] \in Inside, Release(t, a),
               buffer' = buffer, head' = head, tail' = tail, count' \in 0 .. Capacity,
               tail = (head + count') % Capacity
        PROVE  QueueInv'
    <3>1. RingTypes'
      BY Zenon, <2>3 DEF Release, Proceed, RingTypes, Statements, Sending
    <3>2. \A u \in Threads : stage'[u] \notin Inside
      BY Zenon, <2>3, Alone DEF Release, Proceed, RingTypes, Inside
    <3>3. lock' = {}
      BY Zenon, <2>3, Alone DEF Release
    <3>4. RingLockInv'
      BY Zenon, <3>2, <3>3 DEF RingLockInv
    <3>5. IndexInv'
      BY Zenon, <2>3, <3>2, <3>3 DEF IndexInv, Inside
    <3> QED BY Zenon, <3>1, <3>4, <3>5
  <2>4. ASSUME NEW t \in Threads, NEW s \in Inside, stage[t] \in Inside, Proceed(t, s),
               lock' = lock, RingTypes'
        PROVE  /\ RingLockInv' /\ lock' # {}
               /\ stage'[t] = s
               /\ \A u \in Threads : u # t => stage'[u] \notin Inside
    <3>1. \A u \in Threads : u # t => stage'[u] \notin Inside
      BY Zenon, <2>4, Alone DEF Proceed, RingTypes
    <3>2. stage'[t] = s
      BY Zenon, <2>4 DEF Proceed, RingTypes
    <3>3. lock' = {t}
      BY Zenon, <2>4, Alone
    <3> QED BY Zenon, <2>4, <3>1, <3>2, <3>3 DEF RingLockInv
  <2>5. ASSUME NEW t \in Threads, SendStore(t) PROVE QueueInv'
    <3>0. stage[t] = "send-full" /\ stage[t] \in Inside
      BY SMTT(30), <2>5 DEF SendStore, Inside
    <3>1. CASE count = Capacity
      BY Zenon, <2>3, <2>5, <3>0, <3>1 DEF SendStore, IndexInv, RingTypes
    <3>2. CASE count # Capacity
      <4>1. /\ buffer' = [buffer EXCEPT ![tail] = held[t]]
            /\ Proceed(t, "send-tail")
            /\ UNCHANGED <<lock, held, head, tail, count>>
        BY Zenon, <2>5, <3>2 DEF SendStore
      <4>2. RingTypes'
        BY Zenon, <3>0, <4>1 DEF Proceed, RingTypes, Statements, Sending
      <4>3. /\ RingLockInv' /\ lock' # {} /\ stage'[t] = "send-tail"
            /\ \A u \in Threads : u # t => stage'[u] \notin Inside
        BY Zenon, <2>4, <3>0, <4>1, <4>2 DEF Inside
      <4>4. tail = (head + count) % Capacity /\ count < Capacity /\ tail \in Slots
        BY <3>0, <3>2 DEF IndexInv, RingTypes
      <4>5. buffer'[tail] = held[t]
        BY Zenon, <4>1, <4>4 DEF RingTypes
      <4>6. IndexInv'
        BY Zenon, <4>1, <4>3, <4>4, <4>5 DEF IndexInv, Inside
      <4> QED BY Zenon, <4>2, <4>3, <4>6
    <3> QED BY Zenon, <3>1, <3>2
  <2>6. ASSUME NEW t \in Threads, SendTail(t) PROVE QueueInv'
    <3>0. stage[t] = "send-tail" /\ stage[t] \in Inside
      BY Zenon, <2>6 DEF SendTail, Inside
    <3>1. /\ head \in 0 .. Capacity - 1 /\ tail \in 0 .. Capacity - 1
          /\ count \in 0 .. Capacity /\ count < Capacity
          /\ tail = (head + count) % Capacity
          /\ buffer[(head + count) % Capacity] = held[t]
      BY Zenon, <3>0 DEF RingTypes, IndexInv, Slots
    <3>2. (tail + 1) % Capacity = (head + count + 1) % Capacity
      <4>1. tail = IF head + count < Capacity THEN head + count ELSE head + count - Capacity
        BY <3>1, RingIndex
      <4>2. (tail + 1) % Capacity = IF tail + 1 < Capacity THEN tail + 1 ELSE tail + 1 - Capacity
        <5>1. tail \in 0 .. Capacity - 1
          BY Zenon, <3>1
        <5>2. tail + 1 \in 0 .. 2 * Capacity - 1
          BY <5>1
        <5> QED BY <5>1, <5>2, RingIndex
      <4>3. (head + count + 1) % Capacity =
              IF head + count + 1 < Capacity THEN head + count + 1 ELSE head + count + 1 - Capacity
        BY <3>1, RingIndex
      <4> QED BY <3>1, <4>1, <4>2, <4>3
    <3>3. (tail + 1) % Capacity \in Slots
      BY <3>1 DEF Slots
    <3>4. RingTypes'
      BY SMTT(30), <2>6, <3>0, <3>3 DEF SendTail, Proceed, RingTypes, Statements, Sending
    <3>5. /\ RingLockInv' /\ lock' # {} /\ stage'[t] = "send-count"
          /\ \A u \in Threads : u # t => stage'[u] \notin Inside
      BY Zenon, <2>4, <2>6, <3>0, <3>4 DEF SendTail, Inside
    <3>6. IndexInv'
      BY Zenon, <2>6, <3>1, <3>2, <3>5 DEF SendTail, IndexInv, Inside
    <3> QED BY Zenon, <3>4, <3>5, <3>6
  <2>7. ASSUME NEW t \in Threads, SendCount(t) PROVE QueueInv'
    <3>1. /\ stage[t] = "send-count" /\ stage[t] \in Inside
          /\ count \in 0 .. Capacity /\ count < Capacity
          /\ tail = (head + count + 1) % Capacity
      BY Zenon, <2>7 DEF SendCount, Inside, IndexInv, RingTypes
    <3>2. count + 1 \in 0 .. Capacity /\ tail = (head + (count + 1)) % Capacity
      <4>1. head \in Int
        BY DEF RingTypes, Slots
      <4>2. head + count + 1 = head + (count + 1)
        BY <3>1, <4>1
      <4> QED BY <3>1, <4>2
    <3> QED BY Zenon, <2>3, <2>7, <3>1, <3>2 DEF SendCount
  <2>8. ASSUME NEW t \in Threads, RecvLoad(t) PROVE QueueInv'
    <3>0. stage[t] = "recv-empty" /\ stage[t] \in Inside
      BY SMTT(30), <2>8 DEF RecvLoad, Inside
    <3>1. CASE count = 0
      BY Zenon, <2>3, <2>8, <3>0, <3>1 DEF RecvLoad, IndexInv, RingTypes
    <3>2. CASE count # 0
      <4>1. /\ held' = [held EXCEPT ![t] = buffer[head]]
            /\ Proceed(t, "recv-clear")
            /\ UNCHANGED <<lock, buffer, head, tail, count>>
        BY Zenon, <2>8, <3>2 DEF RecvLoad
      <4>2. RingTypes'
        BY Zenon, <3>0, <4>1 DEF Proceed, RingTypes, Statements, Sending
      <4>3. /\ RingLockInv' /\ lock' # {} /\ stage'[t] = "recv-clear"
            /\ \A u \in Threads : u # t => stage'[u] \notin Inside
        BY Zenon, <2>4, <3>0, <4>1, <4>2 DEF Inside
      <4>4. tail = (head + count) % Capacity /\ count > 0 /\ held'[t] = buffer[head]
        BY <3>0, <3>2, <4>1 DEF IndexInv, RingTypes
      <4>5. IndexInv'
        BY Zenon, <4>1, <4>3, <4>4 DEF IndexInv, Inside
      <4> QED BY Zenon, <4>2, <4>3, <4>5
    <3> QED BY Zenon, <3>1, <3>2
  <2>9. ASSUME NEW t \in Threads, RecvClear(t) PROVE QueueInv'
    <3>0. stage[t] = "recv-clear" /\ stage[t] \in Inside
      BY Zenon, <2>9 DEF RecvClear, Inside
    <3>1. RingTypes'
      BY Zenon, <2>9, <3>0 DEF RecvClear, Proceed, RingTypes, Statements, Sending
    <3>2. /\ RingLockInv' /\ lock' # {} /\ stage'[t] = "recv-head"
          /\ \A u \in Threads : u # t => stage'[u] \notin Inside
      BY Zenon, <2>4, <2>9, <3>0, <3>1 DEF RecvClear, Inside
    <3>3. tail = (head + count) % Capacity /\ count > 0
      BY Zenon, <3>0 DEF IndexInv
    <3>4. IndexInv'
      BY Zenon, <2>9, <3>2, <3>3 DEF RecvClear, IndexInv, Inside
    <3> QED BY Zenon, <3>1, <3>2, <3>4
  <2>10. ASSUME NEW t \in Threads, RecvHead(t) PROVE QueueInv'
    <3>0. stage[t] = "recv-head" /\ stage[t] \in Inside
      BY Zenon, <2>10 DEF RecvHead, Inside
    <3>1. /\ head \in 0 .. Capacity - 1 /\ count \in 1 .. Capacity
          /\ tail = (head + count) % Capacity
      BY <3>0 DEF RingTypes, IndexInv, Slots
    <3> DEFINE h == (head + 1) % Capacity
    <3>2. h \in 0 .. Capacity - 1 /\ (h + count - 1) % Capacity = (head + count) % Capacity
      <4>1. h = IF head + 1 < Capacity THEN head + 1 ELSE head + 1 - Capacity
        BY <3>1, RingIndex
      <4>2. (head + count) % Capacity =
              IF head + count < Capacity THEN head + count ELSE head + count - Capacity
        BY <3>1, RingIndex
      <4> HIDE DEF h
      <4>3. h \in 0 .. Capacity - 1
        BY <3>1, <4>1
      <4>4. (h + count - 1) % Capacity =
              IF h + count - 1 < Capacity THEN h + count - 1 ELSE h + count - 1 - Capacity
        BY <3>1, <4>3, RingIndex
      <4> QED BY <3>1, <4>1, <4>2, <4>3, <4>4
    <3> HIDE DEF h
    <3>3. head' = h
      BY Zenon, <2>10 DEF RecvHead, h
    <3>4. RingTypes'
      BY SMTT(30), <2>10, <3>0, <3>2, <3>3 DEF RecvHead, Proceed, RingTypes, Statements, Sending, Slots
    <3>5. /\ RingLockInv' /\ lock' # {} /\ stage'[t] = "recv-count"
          /\ \A u \in Threads : u # t => stage'[u] \notin Inside
      BY Zenon, <2>4, <2>10, <3>0, <3>4 DEF RecvHead, Inside
    <3>6. tail' = tail /\ count' = count
      BY Zenon, <2>10 DEF RecvHead
    <3>7. IndexInv'
      BY <3>1, <3>2, <3>3, <3>5, <3>6 DEF IndexInv, Inside
    <3> QED BY Zenon, <3>4, <3>5, <3>7
  <2>11. ASSUME NEW t \in Threads, RecvCount(t) PROVE QueueInv'
    <3>1. /\ stage[t] = "recv-count" /\ stage[t] \in Inside
          /\ count \in 1 .. Capacity
          /\ tail = (head + count - 1) % Capacity
      BY <2>11 DEF RecvCount, Inside, IndexInv, RingTypes
    <3>2. count - 1 \in 0 .. Capacity /\ tail = (head + (count - 1)) % Capacity
      <4>1. head \in Int
        BY DEF RingTypes, Slots
      <4>2. head + count - 1 = head + (count - 1)
        BY Zenon, <3>1, <4>1
      <4> QED BY <3>1, <4>2
    <3> QED BY Zenon, <2>3, <2>11, <3>1, <3>2 DEF RecvCount
  <2>12. ASSUME NEW t \in Threads, Look(t) PROVE QueueInv'
    <3>1. RingTypes'
      BY Zenon, <2>12 DEF Look, Proceed, RingTypes, Statements, Sending
    <3>2. \A u \in Threads : stage'[u] \in Inside <=> stage[u] \in Inside
      BY Zenon, <2>12 DEF Look, Proceed, RingTypes, Inside
    <3>3. RingLockInv'
      BY Zenon, <2>12, <3>2 DEF Look, RingLockInv
    <3>4. \A u \in Threads : stage'[u] \notin Inside
      BY Zenon, <2>12, <3>2 DEF Look, RingLockInv
    <3>5. IndexInv'
      BY Zenon, <2>12, <3>4 DEF Look, IndexInv, Inside
    <3> QED BY Zenon, <3>1, <3>3, <3>5
  <2>13. ASSUME NEW t \in Threads, SendLock(t) PROVE QueueInv'
    BY Zenon, <2>2, <2>13 DEF SendLock
  <2>14. ASSUME NEW t \in Threads, RecvLock(t) PROVE QueueInv'
    BY SMTT(30), <2>2, <2>14 DEF RecvLock
  <2>15. CASE UNCHANGED queueVars
    BY Zenon, <2>15 DEF queueVars, RingTypes, RingLockInv, IndexInv
  <2> QED
    BY Zenon, <2>1, <2>5, <2>6, <2>7, <2>8, <2>9, <2>10, <2>11, <2>12, <2>13, <2>14, <2>15
    DEF QueueNext, Step
<1> QED BY <1>1, <1>2, PTL

\* The thread that owes a value is the one the contents name.
LEMMA OwedIsInside ==
  ASSUME QueueInv
  PROVE  /\ \A t \in Threads : stage[t] \in {"recv-clear", "recv-head", "recv-count"} =>
              Owed = {t} /\ (CHOOSE u \in Owed : TRUE) = t
         /\ \A t \in Threads : stage[t] \in Inside => \A u \in Owed : u = t
         /\ lock = {} => Owed = {}
         /\ Advanced = 1 => Owed # {}
<1>1. ASSUME NEW t \in Threads, stage[t] \in Inside PROVE \A u \in Owed : u = t
  BY Zenon, <1>1, Alone DEF QueueInv, Owed, Inside
<1>2. ASSUME NEW t \in Threads, stage[t] \in {"recv-clear", "recv-head", "recv-count"}
      PROVE  Owed = {t}
  BY Zenon, <1>1, <1>2 DEF Owed, Inside
<1>3. lock = {} => Owed = {}
  BY Zenon DEF QueueInv, RingLockInv, Owed, Inside
<1>4. Advanced = 1 => Owed # {}
  BY DEF Advanced, Owed
<1>5. \A t : (CHOOSE u \in {t} : TRUE) = t
  BY Zenon
<1> QED BY Zenon, <1>1, <1>2, <1>3, <1>4, <1>5

\* Two occupied places of the ring, or an occupied and the next free one, are
\* different slots.
LEMMA SlotsDiffer ==
  ASSUME NEW h \in 0 .. Capacity - 1, NEW m \in 0 .. Capacity - 1, NEW n \in 0 .. Capacity - 1,
         m # n
  PROVE  (h + m) % Capacity # (h + n) % Capacity
<1> USE QueueAssumption
<1>1. (h + m) % Capacity = IF h + m < Capacity THEN h + m ELSE h + m - Capacity
  BY RingIndex
<1>2. (h + n) % Capacity = IF h + n < Capacity THEN h + n ELSE h + n - Capacity
  BY RingIndex
<1> QED BY <1>1, <1>2

\* Every item of the contents is a value or what a slot holds.
LEMMA ItemType ==
  ASSUME QueueInv PROVE Contents \in [1 .. count -> Values \cup {Empty}]
<1> SUFFICES ASSUME NEW i \in 1 .. count PROVE Item(i) \in Values \cup {Empty}
  BY Zenon DEF Contents
<1>1. CASE i = 1 /\ Owed # {}
  <2>1. (CHOOSE t \in Owed : TRUE) \in Threads
    BY Zenon, <1>1 DEF Owed
  <2> QED BY Zenon, <1>1, <2>1 DEF Item, QueueInv, RingTypes
<1>2. CASE ~(i = 1 /\ Owed # {})
  <2>1. head - Advanced + i - 1 \in Int
    BY DEF QueueInv, RingTypes, Slots, Advanced
  <2>2. (head - Advanced + i - 1) % Capacity \in Slots
    BY <2>1, QueueAssumption DEF Slots
  <2> QED BY Zenon, <1>2, <2>2 DEF Item, QueueInv, RingTypes
<1> QED BY Zenon, <1>1, <1>2

\* A step that leaves the ring and the owed value alone leaves the contents alone.
LEMMA ContentsUnmoved ==
  ASSUME UNCHANGED <<buffer, head, count>>, Owed' = Owed, Advanced' = Advanced,
         \A u \in Owed : held'[u] = held[u]
  PROVE  Contents' = Contents
<1>1. Owed # {} => held'[CHOOSE t \in Owed : TRUE] = held[CHOOSE t \in Owed : TRUE]
  BY Zenon
<1> QED BY Zenon, <1>1 DEF Contents, Item

\* A step that only moves thread t between statements outside recv-clear,
\* recv-head and recv-count changes neither who owes a value nor the advance.
LEMMA OwedUnmoved ==
  ASSUME QueueInv, NEW t \in Threads, NEW s, Proceed(t, s),
         stage[t] \notin {"recv-clear", "recv-head", "recv-count"},
         s \notin {"recv-clear", "recv-head", "recv-count"}
  PROVE  Owed' = Owed /\ Advanced' = Advanced /\ t \notin Owed
<1>1. stage' = [stage EXCEPT ![t] = s] /\ stage \in [Threads -> Statements]
  BY Zenon DEF Proceed, QueueInv, RingTypes
<1>2. Owed' = Owed /\ t \notin Owed
  BY Zenon, <1>1 DEF Owed
<1>3. (\E u \in Threads : stage'[u] = "recv-count") <=> (\E u \in Threads : stage[u] = "recv-count")
  BY Zenon, <1>1
<1> QED BY Zenon, <1>2, <1>3 DEF Advanced

\* Where no value is owed the contents are the slots from the head on; where one
\* is, the rest is read before or behind the advanced head.
LEMMA ItemCases ==
  ASSUME QueueInv, NEW t \in Threads
  PROVE  /\ stage[t] \in {"send-full", "send-tail", "send-count", "recv-empty"} =>
              Owed = {} /\ Advanced = 0
         /\ stage[t] \in {"recv-clear", "recv-head"} =>
              Owed = {t} /\ Advanced = 0 /\ (CHOOSE u \in Owed : TRUE) = t
         /\ stage[t] = "recv-count" =>
              Owed = {t} /\ Advanced = 1 /\ (CHOOSE u \in Owed : TRUE) = t
<1>1. ASSUME stage[t] \in Inside PROVE \A u \in Threads : stage[u] \in Inside => u = t
  BY Zenon, <1>1, Alone DEF QueueInv
<1>2. stage[t] \in {"send-full", "send-tail", "send-count", "recv-empty"} => Owed = {}
  BY Zenon, <1>1 DEF Owed, Inside
<1>3. stage[t] \in Inside /\ stage[t] # "recv-count" => Advanced = 0
  BY Zenon, <1>1 DEF Advanced, Inside
<1>4. stage[t] = "recv-count" => Advanced = 1
  BY Zenon DEF Advanced
<1> QED BY Zenon, <1>2, <1>3, <1>4, OwedIsInside DEF Inside

\* The ring is a queue, for any threads, values and capacity: under every
\* interleaving of the statements of try_send and try_recv the ring buffer under
\* its lock loses, duplicates, reorders and invents no value and never holds more
\* than its capacity; an operation takes effect where it changes the count.
THEOREM QueueIsFifo == QueueSpec => IsBoundedFifo
<1> USE QueueAssumption
<1>1. QueueInit => Fifo!FifoInit
  <2> SUFFICES ASSUME QueueInit PROVE Contents = << >>
    BY Zenon DEF Fifo!FifoInit
  <2>1. count = 0
    BY Zenon DEF QueueInit
  <2> QED BY <2>1 DEF Contents
<1>2. QueueInv /\ QueueInv' /\ [QueueNext]_queueVars => [Fifo!FifoNext]_Contents
  <2> SUFFICES ASSUME QueueInv, QueueInv', [QueueNext]_queueVars
               PROVE  Fifo!FifoNext \/ Contents' = Contents
    BY Zenon
  <2>0. /\ head \in 0 .. Capacity - 1 /\ count \in 0 .. Capacity
        /\ buffer \in [0 .. Capacity - 1 -> Values \cup {Empty}]
    BY SMTT(30) DEF QueueInv, RingTypes, Slots
  <2>1. ASSUME NEW t \in Threads, Call(t) PROVE Contents' = Contents
    <3>1. PICK s \in {"send", "recv", "look"} : Proceed(t, s)
      BY Zenon, <2>1 DEF Call
    <3>2. Owed' = Owed /\ Advanced' = Advanced /\ t \notin Owed
      BY Zenon, <2>1, <3>1, OwedUnmoved DEF Call
    <3>3. \A u \in Owed : held'[u] = held[u]
      BY Zenon, <2>1, <3>2 DEF Call, Owed, QueueInv, RingTypes
    <3> QED BY Zenon, <2>1, <3>2, <3>3, ContentsUnmoved DEF Call
  <2>2. ASSUME NEW t \in Threads, SendLock(t) \/ RecvLock(t) \/ SendTail(t) \/ Look(t)
        PROVE  Contents' = Contents
    <3>1. PICK s \in {"send-full", "recv-empty", "send-count", "idle"} : Proceed(t, s)
      BY Zenon, <2>2 DEF SendLock, RecvLock, SendTail, Look, Acquire
    <3>2. stage[t] \notin {"recv-clear", "recv-head", "recv-count"} /\ held' = held
          /\ UNCHANGED <<buffer, head, count>>
      BY Zenon, <2>2 DEF SendLock, RecvLock, SendTail, Look
    <3>3. Owed' = Owed /\ Advanced' = Advanced
      BY Zenon, <3>1, <3>2, OwedUnmoved
    <3> QED BY Zenon, <3>2, <3>3, ContentsUnmoved
  <2>3. ASSUME NEW t \in Threads, NEW a, Release(t, a), stage[t] \in {"send-full", "recv-empty"},
               UNCHANGED <<buffer, head, count>>
        PROVE  Contents' = Contents
    <3>1. Proceed(t, "idle")
      BY Zenon, <2>3 DEF Release
    <3>2. Owed' = Owed /\ Advanced' = Advanced /\ t \notin Owed
      BY Zenon, <2>3, <3>1, OwedUnmoved
    <3>3. \A u \in Owed : held'[u] = held[u]
      BY Zenon, <2>3, <3>2 DEF Release, Owed, QueueInv, RingTypes
    <3> QED BY Zenon, <2>3, <3>2, <3>3, ContentsUnmoved
  <2>4. ASSUME NEW t \in Threads, SendStore(t) PROVE Contents' = Contents
    <3>1. CASE count = Capacity
      BY SMTT(30), <2>3, <2>4, <3>1 DEF SendStore
    <3>2. CASE count # Capacity
      <4>1. /\ buffer' = [buffer EXCEPT ![tail] = held[t]]
            /\ Proceed(t, "send-tail") /\ stage[t] = "send-full"
            /\ head' = head /\ count' = count
        BY Zenon, <2>4, <3>2 DEF SendStore
      <4>2. Owed = {} /\ Advanced = 0
        BY Zenon, <4>1, ItemCases
      <4>3. Owed' = Owed /\ Advanced' = Advanced
        BY Zenon, <4>1, OwedUnmoved
      <4>4. tail = (head + count) % Capacity /\ count < Capacity
        BY <2>0, <3>2, <4>1 DEF QueueInv, IndexInv
      <4>5. ASSUME NEW i \in 1 .. count
            PROVE  buffer'[(head - 0 + i - 1) % Capacity] = buffer[(head - 0 + i - 1) % Capacity]
        <5>1. head - 0 + i - 1 = head + (i - 1) /\ i - 1 \in 0 .. Capacity - 1
              /\ count \in 0 .. Capacity - 1 /\ i - 1 # count
          BY <2>0, <4>4
        <5>2. (head + (i - 1)) % Capacity # tail
          BY <2>0, <4>4, <5>1, SlotsDiffer, Zenon
        <5>3. (head + (i - 1)) % Capacity \in 0 .. Capacity - 1
          BY <2>0, <5>1
        <5> QED BY Zenon, <2>0, <4>1, <5>1, <5>2, <5>3
      <4> QED BY SMTT(30), <4>1, <4>2, <4>3, <4>5 DEF Contents, Item
    <3> QED BY SMTT(30), <3>1, <3>2
  <2>5. ASSUME NEW t \in Threads, SendCount(t) PROVE Fifo!FifoNext
    <3>1. /\ stage[t] = "send-count" /\ Proceed(t, "idle")
          /\ count' = count + 1 /\ buffer' = buffer /\ head' = head
      BY Zenon, <2>5 DEF SendCount, Release
    <3>2. Owed = {} /\ Advanced = 0 /\ Owed' = {} /\ Advanced' = 0
      BY Zenon, <3>1, ItemCases, OwedUnmoved
    <3>3. /\ count < Capacity
          /\ buffer[(head + count) % Capacity] = held[t]
          /\ held[t] \in Values
      BY Zenon, <3>1 DEF QueueInv, IndexInv, RingTypes, Sending
    <3>4. Contents = [i \in 1 .. count |-> buffer[(head - 0 + i - 1) % Capacity]]
      BY SMTT(30), <3>2 DEF Contents, Item
    <3>5. Contents' = [i \in 1 .. count + 1 |-> buffer[(head - 0 + i - 1) % Capacity]]
      BY Zenon, <3>1, <3>2 DEF Contents, Item
    <3>6. Contents \in [1 .. count -> Values \cup {Empty}]
          /\ Contents' \in [1 .. count + 1 -> Values \cup {Empty}]
      <4>1. \A i \in 1 .. count + 1 : (head - 0 + i - 1) % Capacity \in 0 .. Capacity - 1
        BY <2>0
      <4> QED BY Zenon, <2>0, <3>5, <4>1, ItemType
    <3>7. Contents'[count + 1] = held[t]
      <4>1. head - 0 + (count + 1) - 1 = head + count
        BY <2>0
      <4> QED BY <2>0, <3>3, <3>5, <4>1
    <3>8. \A i \in 1 .. count : Contents'[i] = Contents[i]
      BY <2>0, <3>4, <3>5
    <3>9. Len(Contents) = count /\ Contents' = Append(Contents, held[t])
      BY <2>0, <3>3, <3>6, <3>7, <3>8
    <3>10. Fifo!Accept(held[t])
      BY Zenon, <3>3, <3>9 DEF Fifo!Accept
    <3> QED BY Zenon, <3>3, <3>10 DEF Fifo!FifoNext
  <2>6. ASSUME NEW t \in Threads, RecvLoad(t) PROVE Contents' = Contents
    <3>1. CASE count = 0
      BY Zenon, <2>3, <2>6, <3>1 DEF RecvLoad
    <3>2. CASE count # 0
      <4>1. /\ held' = [held EXCEPT ![t] = buffer[head]]
            /\ Proceed(t, "recv-clear") /\ stage[t] = "recv-empty"
            /\ buffer' = buffer /\ head' = head /\ count' = count
        BY Zenon, <2>6, <3>2 DEF RecvLoad
      <4>2. Owed = {} /\ Advanced = 0
        BY Zenon, <4>1, ItemCases
      <4>3. stage' = [stage EXCEPT ![t] = "recv-clear"]
        BY Zenon, <4>1 DEF Proceed
      <4>4. Owed' = {t}
        BY <4>2, <4>3 DEF Owed, QueueInv, RingTypes
      <4>5. Advanced' = 0
        BY Zenon, <4>2, <4>3 DEF Advanced, QueueInv, RingTypes
      <4>6. held'[CHOOSE u \in Owed' : TRUE] = buffer[(head - 0 + 1 - 1) % Capacity]
        <5>1. (CHOOSE u \in Owed' : TRUE) = t
          BY Zenon, <4>4
        <5>2. held'[t] = buffer[head]
          BY Zenon, <4>1 DEF QueueInv, RingTypes
        <5>3. (head - 0 + 1 - 1) % Capacity = head
          BY <2>0
        <5> QED BY <5>1, <5>2, <5>3, Zenon
      <4> QED BY Zenon, <4>1, <4>2, <4>4, <4>5, <4>6 DEF Contents, Item
    <3> QED BY Zenon, <3>1, <3>2
  <2>7. ASSUME NEW t \in Threads, RecvClear(t) PROVE Contents' = Contents
    <3>1. /\ buffer' = [buffer EXCEPT ![head] = Empty]
          /\ stage' = [stage EXCEPT ![t] = "recv-head"] /\ stage[t] = "recv-clear"
          /\ held' = held /\ head' = head /\ count' = count
      BY Zenon, <2>7 DEF RecvClear, Proceed
    <3>2. Owed = {t} /\ Advanced = 0
      BY Zenon, <3>1, ItemCases
    <3>3. Owed' = Owed
      BY Zenon, <3>1 DEF Owed, QueueInv, RingTypes
    <3>4. Advanced' = 0
      BY Zenon, <3>1, <3>2 DEF Advanced, QueueInv, RingTypes
    <3>5. ASSUME NEW i \in 2 .. count
          PROVE  buffer'[(head - 0 + i - 1) % Capacity] = buffer[(head - 0 + i - 1) % Capacity]
      <4>1. /\ head - 0 + i - 1 = head + (i - 1) /\ i - 1 \in 0 .. Capacity - 1
            /\ i - 1 # 0 /\ 0 \in 0 .. Capacity - 1
        BY <2>0
      <4>2. (head + (i - 1)) % Capacity # (head + 0) % Capacity
        BY <2>0, <4>1, SlotsDiffer, Zenon
      <4>3. (head + 0) % Capacity = head /\ (head + (i - 1)) % Capacity \in 0 .. Capacity - 1
        BY <2>0
      <4> QED BY Zenon, <2>0, <3>1, <4>1, <4>2, <4>3
    <3>6. ASSUME NEW i \in 1 .. count PROVE i = 1 \/ i \in 2 .. count
      BY <2>0
    <3> QED BY <3>1, <3>2, <3>3, <3>4, <3>5, <3>6 DEF Contents, Item
  <2>8. ASSUME NEW t \in Threads, RecvHead(t) PROVE Contents' = Contents
    <3>1. /\ head' = (head + 1) % Capacity
          /\ stage' = [stage EXCEPT ![t] = "recv-count"] /\ stage[t] = "recv-head"
          /\ held' = held /\ buffer' = buffer /\ count' = count
      BY Zenon, <2>8 DEF RecvHead, Proceed
    <3>2. Owed = {t} /\ Advanced = 0
      BY Zenon, <3>1, ItemCases
    <3>3. Owed' = Owed
      BY Zenon, <3>1 DEF Owed, QueueInv, RingTypes
    <3>4. Advanced' = 1
      BY Zenon, <3>1 DEF Advanced, QueueInv, RingTypes
    <3>5. ASSUME NEW i \in 2 .. count
          PROVE  (head' - 1 + i - 1) % Capacity = (head - 0 + i - 1) % Capacity
      <4> DEFINE h == (head + 1) % Capacity
                 m == head - 0 + i - 1
                 n == h - 1 + i - 1
      <4>1. h = IF head + 1 < Capacity THEN head + 1 ELSE head + 1 - Capacity
        <5>1. head \in Int /\ head + 1 \in 0 .. 2 * Capacity - 1
          BY <2>0
        <5> QED BY <5>1, RingIndex
      <4> HIDE DEF h
      <4>2. /\ m \in 0 .. 2 * Capacity - 1
            /\ n \in 0 .. 2 * Capacity - 1
            /\ m < Capacity => n = m
            /\ m >= Capacity => n = m \/ n = m - Capacity
        BY <2>0, <4>1
      <4>3. head' = h
        BY Zenon, <3>1 DEF h
      <4> HIDE DEF m, n
      <4>4. /\ m % Capacity = IF m < Capacity THEN m ELSE m - Capacity
            /\ n % Capacity = IF n < Capacity THEN n ELSE n - Capacity
        BY Zenon, <4>2, RingIndex
      <4>5. m % Capacity = n % Capacity
        BY <4>2, <4>4
      <4> QED BY Zenon, <4>3, <4>5 DEF m, n
    <3>6. ASSUME NEW i \in 1 .. count PROVE i = 1 \/ i \in 2 .. count
      BY <2>0
    <3> QED BY Zenon, <3>1, <3>2, <3>3, <3>4, <3>5, <3>6 DEF Contents, Item
  <2>9. ASSUME NEW t \in Threads, RecvCount(t) PROVE Fifo!FifoNext
    <3>1. /\ count' = count - 1 /\ stage' = [stage EXCEPT ![t] = "idle"] /\ stage[t] = "recv-count"
          /\ buffer' = buffer /\ head' = head
      BY Zenon, <2>9 DEF RecvCount, Release, Proceed
    <3>2. Owed = {t} /\ Advanced = 1
      BY Zenon, <3>1, ItemCases
    <3>3. Owed' = {}
      BY Zenon, <3>1, <3>2 DEF Owed, QueueInv, RingTypes
    <3>4. Advanced' = 0
      <4>1. \A u \in Threads : stage[u] = "recv-count" => u = t
        BY Zenon, <3>2 DEF Owed
      <4> QED BY Zenon, <3>1, <4>1 DEF Advanced, QueueInv, RingTypes
    <3>5. count \in 1 .. Capacity
      BY <2>0, <3>1 DEF QueueInv, IndexInv
    <3>6. Contents' = [i \in 1 .. count - 1 |-> buffer[(head - 0 + i - 1) % Capacity]]
      BY Zenon, <3>1, <3>3, <3>4 DEF Contents, Item
    <3>7. Contents \in [1 .. count -> Values \cup {Empty}]
          /\ Contents' \in [1 .. count - 1 -> Values \cup {Empty}]
      <4>1. \A i \in 1 .. count - 1 : (head - 0 + i - 1) % Capacity \in 0 .. Capacity - 1
        BY <2>0
      <4> QED BY Zenon, <2>0, <3>6, <4>1, ItemType
    <3>8. ASSUME NEW i \in 1 .. count - 1 PROVE Contents'[i] = Contents[i + 1]
      <4>1. i + 1 \in 1 .. count /\ i + 1 # 1 /\ head - 1 + (i + 1) - 1 = head - 0 + i - 1
        BY <2>0, <3>5
      <4>2. Contents[i + 1] = buffer[(head - 1 + (i + 1) - 1) % Capacity]
        BY Zenon, <3>2, <4>1 DEF Contents, Item
      <4> QED BY Zenon, <3>6, <4>1, <4>2
    <3>9. Contents # << >> /\ Contents' = Tail(Contents)
      BY <3>5, <3>7, <3>8
    <3> QED BY Zenon, <3>9 DEF Fifo!FifoNext, Fifo!Deliver
  <2>10. CASE UNCHANGED queueVars
    BY Zenon, <2>10 DEF queueVars, Contents, Item, Owed, Advanced
  <2> QED
    BY Zenon, <2>1, <2>2, <2>4, <2>5, <2>6, <2>7, <2>8, <2>9, <2>10 DEF QueueNext, Step
<1> QED BY <1>1, <1>2, QueueInductive, PTL DEF QueueSpec, IsBoundedFifo, Fifo!FifoSpec
=============================================================================

--------------------------- MODULE EvidenceProofs ---------------------------
(***************************************************************************)
(* What holds of the evidence chain of an effect (ExecutionEvidence) and   *)
(* of the trust in the verifiers of providers (TrustAnchors), for any      *)
(* number of grants, requests, executions, manifests, builders, challenges *)
(* and epochs.                                                             *)
(***************************************************************************)
EXTENDS TrustAnchors, ExecutionEvidence, TLAPS

-----------------------------------------------------------------------------
(* The evidence chain.                                                     *)

EvidenceSet == [grant : Grants, action : Actions, epoch : 0 .. MaxChainEpoch]
DecisionSet == [evidence : EvidenceSet, basis : Bases]
PermitSet == [decision : DecisionSet]
ReceiptSet ==
  [consumption : [permit : PermitSet], outcome : {"effect-completed", "effect-failed"},
   result : Results \cup {"error"}]
RunSet == [permit : PermitSet, effect : ReceiptSet, epoch : 0 .. MaxChainEpoch]

ChainTypes ==
  /\ chainEpoch \in 0 .. MaxChainEpoch
  /\ admitted \subseteq EvidenceSet /\ decisions \subseteq DecisionSet
  /\ permits \subseteq PermitSet /\ consumed \subseteq permits
  /\ runs \in Seq(RunSet)

\* Every object up to the permit was issued by a step that checked it.
IssuedInv ==
  /\ \A e \in admitted : e.grant.from <= e.epoch /\ e.epoch < e.grant.before
  /\ \A d \in decisions : d.evidence \in admitted /\ DecisionBinds(d.evidence, d.basis)
  /\ \A p \in permits : p.decision \in decisions /\ Allows(p.decision)

\* Callbacks run under different, consumed permits, and seal their own receipt.
RunInv ==
  /\ \A i \in 1 .. Len(runs) :
       /\ runs[i].permit \in consumed
       /\ runs[i].effect.consumption.permit = runs[i].permit
       /\ runs[i].epoch = runs[i].permit.decision.basis.request.epoch
  /\ \A i, j \in 1 .. Len(runs) : runs[i].permit = runs[j].permit => i = j
  /\ \A x \in effects : \E i \in 1 .. Len(runs) : runs[i].effect = x

\* Every proof object links the ones it was sealed over.
SealedInv ==
  /\ \A b \in bases : /\ BaseLinks(b.basis, b.decision, b.permit, b.consumption)
                      /\ b.permit \in permits
  /\ \A v \in envelopes : /\ v.base \in bases /\ v.effect \in effects
                          /\ EffectLinks(v.base, v.effect)
  /\ \A n \in natives : /\ n.envelope \in envelopes
                        /\ n.envelope.effect.outcome = "effect-completed"
                        /\ n.reference = n.envelope.effect.result
                        /\ n.envelope.base.basis.request.epoch <= n.epoch
  /\ \A f \in finals : /\ f.native \in natives
                       /\ FinalLinks(f.envelope, f.native, f.attestation)

ChainInv == ChainTypes /\ IssuedInv /\ RunInv /\ SealedInv

\* The invariant of the chain is inductive.
LEMMA ChainInductive == ChainSpec => []ChainInv
<1>1. ChainInit => ChainInv
  <2> SUFFICES ASSUME ChainInit PROVE ChainInv
    OBVIOUS
  <2>1. ChainTypes
    BY ChainAssumption DEF ChainInit, ChainTypes
  <2>2. IssuedInv
    BY Zenon DEF ChainInit, IssuedInv
  <2>3. RunInv
    BY DEF ChainInit, RunInv
  <2>4. SealedInv
    BY Zenon DEF ChainInit, SealedInv
  <2> QED BY Zenon, <2>1, <2>2, <2>3, <2>4 DEF ChainInv
<1>2. ChainInv /\ [ChainNext]_chainVars => ChainInv'
  <2> SUFFICES ASSUME ChainInv, [ChainNext]_chainVars PROVE ChainInv'
    OBVIOUS
  <2>t. ChainTypes /\ IssuedInv /\ RunInv /\ SealedInv
    BY Zenon DEF ChainInv
  <2>1. ASSUME NEW g \in SealedGrants, NEW action \in Actions, AdmitEvidence(g, action)
        PROVE  ChainInv'
    <3> DEFINE e == [grant |-> g, action |-> action, epoch |-> chainEpoch]
    <3>1. /\ admitted' = admitted \cup {e} /\ g \in Grants
          /\ e.grant = g /\ e.epoch = chainEpoch
          /\ g.from <= chainEpoch /\ chainEpoch < g.before
      BY <2>1 DEF AdmitEvidence, Permits, SealedGrants
    <3>2. e \in EvidenceSet
      BY <2>t, <3>1 DEF ChainTypes, EvidenceSet
    <3> HIDE DEF e
    <3>3. ChainTypes'
      BY <2>t, <2>1, <3>1, <3>2, Zenon DEF AdmitEvidence, ChainTypes
    <3>4. IssuedInv'
      BY <2>t, <2>1, <3>1, Zenon DEF AdmitEvidence, IssuedInv, DecisionBinds, Allows
    <3>5. RunInv' /\ SealedInv'
      BY <2>t, <2>1, Zenon DEF AdmitEvidence, proofVars, RunInv, SealedInv
    <3> QED BY Zenon, <3>3, <3>4, <3>5 DEF ChainInv
  <2>2. ASSUME NEW e \in admitted, NEW b \in Bases, IssueDecision(e, b)
        PROVE  ChainInv'
    <3> DEFINE d == [evidence |-> e, basis |-> b]
    <3>1. /\ decisions' = decisions \cup {d}
          /\ d.evidence = e /\ d.basis = b /\ DecisionBinds(e, b)
      BY <2>2 DEF IssueDecision
    <3>2. d \in DecisionSet
      BY <2>t DEF ChainTypes, DecisionSet
    <3> HIDE DEF d
    <3>3. ChainTypes'
      BY <2>t, <2>2, <3>1, <3>2, Zenon DEF IssueDecision, ChainTypes
    <3>4. IssuedInv'
      BY <2>t, <2>2, <3>1, Zenon DEF IssueDecision, IssuedInv
    <3>5. RunInv' /\ SealedInv'
      BY <2>t, <2>2, Zenon DEF IssueDecision, proofVars, RunInv, SealedInv
    <3> QED BY Zenon, <3>3, <3>4, <3>5 DEF ChainInv
  <2>3. ASSUME NEW d \in decisions, MintPermit(d)
        PROVE  ChainInv'
    <3> DEFINE p == [decision |-> d]
    <3>1. permits' = permits \cup {p} /\ p.decision = d /\ Allows(d)
      BY <2>3 DEF MintPermit
    <3>2. p \in PermitSet
      BY <2>t DEF ChainTypes, PermitSet
    <3> HIDE DEF p
    <3>3. ChainTypes'
      BY <2>t, <2>3, <3>1, <3>2, Zenon DEF MintPermit, ChainTypes
    <3>4. IssuedInv'
      BY <2>t, <2>3, <3>1, Zenon DEF MintPermit, IssuedInv
    <3>5. RunInv' /\ SealedInv'
      BY <2>t, <2>3, <3>1, Zenon DEF MintPermit, proofVars, RunInv, SealedInv
    <3> QED BY Zenon, <3>3, <3>4, <3>5 DEF ChainInv
  <2>4. ASSUME NEW p \in permits, NEW q \in EffectRequests, ExecuteEffect(p, q)
        PROVE  ChainInv'
    <3>1. PICK x : /\ x \in {[consumption |-> [permit |-> p], outcome |-> "effect-completed",
                             result |-> r] : r \in Results}
                       \cup {[consumption |-> [permit |-> p], outcome |-> "effect-failed",
                              result |-> "error"]}
                   /\ effects' = effects \cup {x}
                   /\ runs' = Append(runs, [permit |-> p, effect |-> x, epoch |-> chainEpoch])
      BY <2>4, Zenon DEF ExecuteEffect
    <3> DEFINE r == [permit |-> p, effect |-> x, epoch |-> chainEpoch]
    <3>2. /\ p.decision.basis.request.epoch = chainEpoch /\ p \notin consumed
          /\ consumed' = consumed \cup {p}
      BY <2>4, Zenon DEF ExecuteEffect, PermitLive
    <3>3. x \in ReceiptSet /\ x.consumption.permit = p
      BY <2>t, <3>1 DEF ChainTypes, ReceiptSet
    <3>4. r \in RunSet /\ r.permit = p /\ r.effect = x /\ r.epoch = chainEpoch
      BY <2>t, <3>3 DEF ChainTypes, RunSet
    <3>5. runs' = Append(runs, r)
      BY <3>1
    <3> HIDE DEF r
    <3>6. /\ runs' \in Seq(RunSet) /\ Len(runs') = Len(runs) + 1 /\ Len(runs) \in Nat
          /\ \A i \in 1 .. Len(runs) : runs'[i] = runs[i]
          /\ runs'[Len(runs) + 1] = r
      BY <2>t, <3>4, <3>5 DEF ChainTypes
    <3>7. 1 .. Len(runs') = (1 .. Len(runs)) \cup {Len(runs) + 1} /\ Len(runs) + 1 \notin 1 .. Len(runs)
      BY <3>6
    <3>8. ChainTypes'
      BY <2>t, <2>4, <3>2, <3>6, Zenon DEF ExecuteEffect, ChainTypes
    <3>9. IssuedInv'
      BY <2>t, <2>4, Zenon DEF ExecuteEffect, IssuedInv
    <3>10. RunInv'
      <4>1. ASSUME NEW i \in 1 .. Len(runs')
            PROVE  /\ runs'[i].permit \in consumed'
                   /\ runs'[i].effect.consumption.permit = runs'[i].permit
                   /\ runs'[i].epoch = runs'[i].permit.decision.basis.request.epoch
        BY <2>t, <3>2, <3>3, <3>4, <3>6, <3>7, Zenon DEF RunInv
      <4>2. ASSUME NEW i \in 1 .. Len(runs'), NEW j \in 1 .. Len(runs'),
                   runs'[i].permit = runs'[j].permit
            PROVE  i = j
        <5>1. ASSUME NEW k \in 1 .. Len(runs) PROVE runs'[k].permit # p
          <6>1. runs'[k] = runs[k]
            BY <3>6, Zenon
          <6>2. runs[k].permit \in consumed
            BY <2>t, Zenon DEF RunInv
          <6> QED BY <3>2, <6>1, <6>2, Zenon
        <5>2. CASE i \in 1 .. Len(runs) /\ j \in 1 .. Len(runs)
          <6>1. runs'[i] = runs[i] /\ runs'[j] = runs[j]
            BY <3>6, <5>2, Zenon
          <6>2. runs[i].permit = runs[j].permit
            BY <4>2, <6>1, Zenon
          <6> QED BY <2>t, <5>2, <6>2, Zenon DEF RunInv
        <5>3. CASE i = Len(runs) + 1 \/ j = Len(runs) + 1
          BY <3>4, <3>6, <3>7, <4>2, <5>1, <5>3, Zenon
        <5> QED BY <3>7, <5>2, <5>3, Zenon
      <4>3. ASSUME NEW y \in effects' PROVE \E i \in 1 .. Len(runs') : runs'[i].effect = y
        <5>1. CASE y = x
          BY <3>4, <3>6, <3>7, <5>1, Zenon
        <5>2. CASE y \in effects
          <6>1. PICK i \in 1 .. Len(runs) : runs[i].effect = y
            BY <2>t, <5>2, Zenon DEF RunInv
          <6> QED BY <3>6, <3>7, <6>1, Zenon
        <5> QED BY <3>1, <5>1, <5>2, Zenon
      <4> QED BY <4>1, <4>2, <4>3, Zenon DEF RunInv
    <3>11. SealedInv'
      BY <2>t, <2>4, <3>1, Zenon DEF ExecuteEffect, proofVars, SealedInv
    <3> QED BY Zenon, <3>8, <3>9, <3>10, <3>11 DEF ChainInv
  <2>5. ASSUME NEW b \in Bases, NEW d \in decisions, NEW p \in permits,
               NEW c \in Consumptions, SealBase(b, d, p, c)
        PROVE  ChainInv'
    <3> DEFINE o == [basis |-> b, decision |-> d, permit |-> p, consumption |-> c]
    <3>1. /\ bases' = bases \cup {o} /\ BaseLinks(b, d, p, c)
          /\ o.basis = b /\ o.decision = d /\ o.permit = p /\ o.consumption = c
      BY <2>5 DEF SealBase
    <3> HIDE DEF o
    <3>2. ChainTypes' /\ IssuedInv' /\ RunInv'
      BY <2>t, <2>5, Zenon DEF SealBase, linkVars, ChainTypes, IssuedInv, RunInv
    <3>3. SealedInv'
      BY <2>t, <2>5, <3>1, Zenon DEF SealBase, linkVars, SealedInv
    <3> QED BY Zenon, <3>2, <3>3 DEF ChainInv
  <2>6. ASSUME NEW base \in bases, NEW x \in effects, SealEnvelope(base, x)
        PROVE  ChainInv'
    <3> DEFINE v == [base |-> base, effect |-> x]
    <3>1. envelopes' = envelopes \cup {v} /\ EffectLinks(base, x) /\ v.base = base /\ v.effect = x
      BY <2>6 DEF SealEnvelope
    <3> HIDE DEF v
    <3>2. ChainTypes' /\ IssuedInv' /\ RunInv'
      BY <2>t, <2>6, Zenon DEF SealEnvelope, linkVars, ChainTypes, IssuedInv, RunInv
    <3>3. SealedInv'
      BY <2>t, <2>6, <3>1, Zenon DEF SealEnvelope, linkVars, SealedInv
    <3> QED BY Zenon, <3>2, <3>3 DEF ChainInv
  <2>7. ASSUME NEW v \in envelopes, NEW x \in effects, NEW result \in Results,
               NEW state \in {"pending", "finalized", "rejected"},
               VerifyNative(v, x, result, state)
        PROVE  ChainInv'
    <3> DEFINE n == [envelope |-> v, reference |-> result, state |-> state,
                     epoch |-> chainEpoch, generation |-> generation]
    <3>1. /\ natives' = natives \cup {n} /\ EffectBinds(v, x, result)
          /\ v.base.basis.request.epoch <= chainEpoch
          /\ n.envelope = v /\ n.reference = result /\ n.epoch = chainEpoch
      BY <2>7 DEF VerifyNative
    <3> HIDE DEF n
    <3>2. ChainTypes' /\ IssuedInv' /\ RunInv'
      BY <2>t, <2>7, Zenon DEF VerifyNative, linkVars, ChainTypes, IssuedInv, RunInv
    <3>3. SealedInv'
      BY <2>t, <2>7, <3>1, Zenon DEF VerifyNative, EffectBinds, linkVars, SealedInv
    <3> QED BY Zenon, <3>2, <3>3 DEF ChainInv
  <2>8. ASSUME NEW n \in natives, NEW v \in envelopes, AttestFinality(n, v)
        PROVE  ChainInv'
    <3>1. ChainTypes' /\ IssuedInv' /\ RunInv'
      BY <2>t, <2>8, Zenon DEF AttestFinality, linkVars, ChainTypes, IssuedInv, RunInv
    <3>2. SealedInv'
      BY <2>t, <2>8, Zenon DEF AttestFinality, linkVars, SealedInv
    <3> QED BY Zenon, <3>1, <3>2 DEF ChainInv
  <2>9. ASSUME NEW v \in envelopes, NEW n \in natives, NEW t \in attested, SealFinal(v, n, t)
        PROVE  ChainInv'
    <3> DEFINE f == [envelope |-> v, native |-> n, attestation |-> t]
    <3>1. /\ finals' = finals \cup {f} /\ FinalLinks(v, n, t)
          /\ f.envelope = v /\ f.native = n /\ f.attestation = t
      BY <2>9 DEF SealFinal
    <3> HIDE DEF f
    <3>2. ChainTypes' /\ IssuedInv' /\ RunInv'
      BY <2>t, <2>9, Zenon DEF SealFinal, linkVars, ChainTypes, IssuedInv, RunInv
    <3>3. SealedInv'
      BY <2>t, <2>9, <3>1, Zenon DEF SealFinal, linkVars, SealedInv
    <3> QED BY Zenon, <3>2, <3>3 DEF ChainInv
  <2>10. CASE AdvanceEpoch
    <3>1. ChainTypes'
      BY <2>t, <2>10, ChainAssumption DEF AdvanceEpoch, linkVars, ChainTypes
    <3>2. IssuedInv' /\ RunInv'
      BY <2>t, <2>10, Zenon DEF AdvanceEpoch, linkVars, IssuedInv, RunInv
    <3>3. SealedInv'
      BY <2>t, <2>10, Zenon DEF AdvanceEpoch, linkVars, proofVars, SealedInv
    <3> QED BY Zenon, <3>1, <3>2, <3>3 DEF ChainInv
  <2>11. CASE AdvanceGeneration \/ UNCHANGED chainVars
    <3>1. UNCHANGED <<chainEpoch, linkVars, proofVars, runs>>
      BY <2>11, Zenon DEF AdvanceGeneration, chainVars
    <3>2. ChainTypes' /\ IssuedInv' /\ RunInv'
      BY <2>t, <3>1, Zenon DEF linkVars, ChainTypes, IssuedInv, RunInv
    <3>3. SealedInv'
      BY <2>t, <3>1, Zenon DEF linkVars, proofVars, SealedInv
    <3> QED BY Zenon, <3>2, <3>3 DEF ChainInv
  <2> QED
    BY <2>1, <2>2, <2>3, <2>4, <2>5, <2>6, <2>7, <2>8, <2>9, <2>10, <2>11, Zenon DEF ChainNext
<1> QED BY <1>1, <1>2, PTL DEF ChainSpec

\* A finality envelope tells of exactly one effect callback: the one that ran
\* under its permit, for the allowed request of its decision; objects of two
\* executions are never sealed together.
THEOREM FinalityIsOneEffect == ChainSpec => []FinalityTellsOneEffect
<1>1. ChainInv => FinalityTellsOneEffect
  <2> SUFFICES ASSUME ChainInv, NEW f \in finals
               PROVE  LET v == f.envelope
                          d == v.base.decision
                          q == v.base.basis.request
                      IN  /\ \E i \in 1 .. Len(runs) :
                               /\ \A j \in 1 .. Len(runs) :
                                    runs[j].permit = v.base.permit <=> j = i
                               /\ runs[i].effect = v.effect
                               /\ runs[i].epoch = q.epoch
                          /\ v.effect.outcome = "effect-completed"
                          /\ f.native.reference = v.effect.result
                          /\ d.evidence.epoch = q.epoch
                          /\ v.base.permit.decision = d /\ d.basis = v.base.basis
                          /\ d.basis.outcome = "allow"
                          /\ d.evidence.grant.subject = q.subject
                          /\ d.evidence.grant.from <= q.epoch
                          /\ q.epoch < d.evidence.grant.before
                          /\ f.native.envelope = v /\ f.attestation.envelope = v
                          /\ f.attestation.state = f.native.state
                          /\ q.epoch <= f.native.epoch
    BY Zenon DEF FinalityTellsOneEffect
  <2> DEFINE v == f.envelope
             d == v.base.decision
             q == v.base.basis.request
  <2>t. ChainTypes /\ IssuedInv /\ RunInv /\ SealedInv
    BY Zenon DEF ChainInv
  <2>1. /\ f.native \in natives /\ f.native.envelope = v /\ f.attestation.envelope = v
        /\ f.attestation.state = f.native.state
    BY <2>t, Zenon DEF SealedInv, FinalLinks
  <2>2. /\ v \in envelopes /\ v.effect.outcome = "effect-completed"
        /\ f.native.reference = v.effect.result /\ q.epoch <= f.native.epoch
    BY <2>t, <2>1, Zenon DEF SealedInv
  <2>3. /\ v.base \in bases /\ v.effect \in effects
        /\ v.effect.consumption.permit = v.base.permit
    BY <2>t, <2>2, Zenon DEF SealedInv, EffectLinks
  <2>4. /\ v.base.permit \in permits /\ v.base.permit.decision = d /\ d.basis = v.base.basis
        /\ d.basis.outcome = "allow"
    BY <2>t, <2>3, Zenon DEF SealedInv, BaseLinks, Allows
  <2>5. d \in decisions /\ d.evidence \in admitted /\ DecisionBinds(d.evidence, d.basis)
    BY <2>t, <2>4, Zenon DEF IssuedInv
  <2>6. /\ d.evidence.epoch = q.epoch /\ d.evidence.grant.subject = q.subject
        /\ d.evidence.grant.from <= q.epoch /\ q.epoch < d.evidence.grant.before
    BY <2>t, <2>4, <2>5, Zenon DEF IssuedInv, DecisionBinds
  <2>7. PICK i \in 1 .. Len(runs) : runs[i].effect = v.effect
    BY <2>t, <2>3, Zenon DEF RunInv
  <2>8. runs[i].permit = v.base.permit /\ runs[i].epoch = q.epoch
    <3>1. /\ runs[i].effect.consumption.permit = runs[i].permit
          /\ runs[i].epoch = runs[i].permit.decision.basis.request.epoch
      BY <2>t, <2>7, Zenon DEF RunInv
    <3>2. runs[i].permit = v.base.permit
      BY <2>3, <2>7, <3>1, Zenon
    <3> QED BY <2>4, <3>1, <3>2, Zenon
  <2>9. \A j \in 1 .. Len(runs) : runs[j].permit = v.base.permit <=> j = i
    <3>1. ASSUME NEW j \in 1 .. Len(runs), runs[j].permit = v.base.permit PROVE j = i
      <4>1. runs[j].permit = runs[i].permit
        BY <2>8, <3>1, Zenon
      <4> QED BY <2>t, <2>7, <4>1, Zenon DEF RunInv
    <3> QED BY <2>8, <3>1, Zenon
  <2> QED BY <2>1, <2>2, <2>4, <2>6, <2>7, <2>8, <2>9, Zenon
<1> QED BY <1>1, ChainInductive, PTL

-----------------------------------------------------------------------------
(* Trust in a verifier.                                                    *)

TrustTypes ==
  /\ trustEpoch \in Nat
  /\ store \in [Anchors -> Seq(Manifests)]
  /\ highest \in [Anchors -> SUBSET Manifests]
  /\ DOMAIN admission = Anchors /\ DOMAIN evidence = Builders
  /\ witness \in [Anchors -> SUBSET Manifests]
  /\ DOMAIN challenge = Anchors /\ DOMAIN answer = Anchors /\ DOMAIN confirmed = Anchors

\* The generations in a store increase, also after an older snapshot of it was
\* restored, and none is above the newest ever observed.
HistoryInv ==
  \A a \in Anchors :
    /\ \A i, j \in 1 .. Len(store[a]) :
         i < j => store[a][i].generation < store[a][j].generation
    /\ \A h, k \in highest[a] : h = k
    /\ \A h \in highest[a] : \A i \in 1 .. Len(store[a]) :
         store[a][i].generation <= h.generation

\* What was checked once and for all when the remote evidence was verified.
Vouched(e) ==
  /\ e.manifest \in Manifests /\ ~e.manifest.revoked
  /\ RootAllowed(e.manifest, e.root)
  /\ e.observed \in Nat /\ e.expires \in Nat

VouchedInv ==
  /\ \A a \in Anchors : \A d \in admission[a] : d.manifest \in Manifests
  /\ \A b \in Builders : \A e \in evidence[b] : Vouched(e)
  /\ \A r \in receipt : Independent(r.a, r.b, r.policy) /\ \A e \in r.evidence : Vouched(e)

\* The witness only moves forward, so it answers a challenge with no less than
\* it remembered when the challenge was issued.
FloorInv ==
  \A a \in Anchors :
    /\ \A v, w \in witness[a] : v = w
    /\ \A c \in challenge[a] : \A f \in c.floor :
         f \in Manifests /\ \E w \in witness[a] : f.generation <= w.generation
    /\ \A n \in answer[a] : \A f \in n.challenge.floor :
         f.generation <= n.manifest.generation
    /\ \A k, l \in confirmed[a] : k = l
    /\ \A k \in confirmed[a] : \A f \in k.floor :
         f.generation <= k.answer.manifest.generation

TrustInv == TrustTypes /\ HistoryInv /\ VouchedInv /\ FloorInv

\* The invariant of the trust anchors is inductive.
LEMMA TrustInductive == TrustSpec => []TrustInv
<1>1. TrustInit => TrustInv
  <2> SUFFICES ASSUME TrustInit PROVE TrustInv
    OBVIOUS
  <2>1. TrustTypes
    BY DEF TrustInit, TrustTypes
  <2>2. HistoryInv
    <3>1. \A a \in Anchors : store[a] = <<>> /\ highest[a] = {}
      BY DEF TrustInit
    <3>2. 1 .. Len(<<>>) = {}
      OBVIOUS
    <3>3. \A a \in Anchors : 1 .. Len(store[a]) = {}
      BY <3>1, <3>2, Zenon
    <3> QED BY <3>1, <3>3, Zenon DEF HistoryInv
  <2>3. VouchedInv
    BY DEF TrustInit, VouchedInv
  <2>4. FloorInv
    BY DEF TrustInit, FloorInv
  <2> QED BY Zenon, <2>1, <2>2, <2>3, <2>4 DEF TrustInv
<1>2. TrustInv /\ [TrustNext]_trustVars => TrustInv'
  <2> SUFFICES ASSUME TrustInv, [TrustNext]_trustVars PROVE TrustInv'
    OBVIOUS
  <2>t. TrustTypes /\ HistoryInv /\ VouchedInv /\ FloorInv
    BY Zenon DEF TrustInv
  <2>1. ASSUME NEW m \in Sealed, AdmitVerifier(m) PROVE TrustInv'
    <3> DEFINE a == m.anchor
               s == store[a]
               t == IF s # <<>> /\ Newest(s) = m THEN s ELSE Append(s, m)
               d == [manifest |-> m, epoch |-> trustEpoch]
               g == IF \E h \in highest[a] : h.generation >= m.generation
                    THEN highest[a] ELSE {m}
    <3>1. /\ m \in Manifests /\ a \in Anchors /\ m.generation \in Nat
          /\ s \in Seq(Manifests) /\ \A i \in 1 .. Len(s) : s[i].generation \in Nat
      BY <2>t, TrustAssumption DEF Sealed, TrustTypes
    <3>2. /\ store' = [store EXCEPT ![a] = t] /\ highest' = [highest EXCEPT ![a] = g]
          /\ admission' = [admission EXCEPT ![a] = {d}]
      BY <2>1, Zenon DEF AdmitVerifier
    <3>3. s # <<>> => m.generation > Newest(s).generation \/ m = Newest(s)
      BY <2>1, Zenon DEF AdmitVerifier, Observes
    <3>4. \A i \in 1 .. Len(s) : s[i].generation <= m.generation
      <4> SUFFICES ASSUME NEW i \in 1 .. Len(s) PROVE s[i].generation <= m.generation
        OBVIOUS
      <4>1. s # <<>> /\ Len(s) \in 1 .. Len(s) /\ Newest(s) = s[Len(s)]
        BY <3>1 DEF Newest
      <4>2. i = Len(s) \/ s[i].generation < s[Len(s)].generation
        BY <2>t, <3>1, <4>1 DEF HistoryInv
      <4> QED BY <3>1, <3>3, <4>1, <4>2
    <3>5. ~(s # <<>> /\ Newest(s) = m) => \A i \in 1 .. Len(s) : s[i].generation < m.generation
      <4> SUFFICES ASSUME ~(s # <<>> /\ Newest(s) = m), NEW i \in 1 .. Len(s)
                   PROVE  s[i].generation < m.generation
        OBVIOUS
      <4>1. s # <<>> /\ Len(s) \in 1 .. Len(s) /\ Newest(s) = s[Len(s)]
        BY <3>1 DEF Newest
      <4>2. i = Len(s) \/ s[i].generation < s[Len(s)].generation
        BY <2>t, <3>1, <4>1 DEF HistoryInv
      <4> QED BY <3>1, <3>3, <4>1, <4>2
    <3>6. /\ t \in Seq(Manifests)
          /\ \A i, j \in 1 .. Len(t) : i < j => t[i].generation < t[j].generation
          /\ \A i \in 1 .. Len(t) : t[i].generation <= m.generation
      <4>1. CASE s # <<>> /\ Newest(s) = m
        BY <2>t, <3>1, <3>4, <4>1 DEF HistoryInv
      <4>2. CASE ~(s # <<>> /\ Newest(s) = m)
        <5>1. /\ t = Append(s, m) /\ t \in Seq(Manifests) /\ Len(t) = Len(s) + 1
              /\ Len(s) \in Nat /\ t[Len(s) + 1] = m
              /\ \A i \in 1 .. Len(s) : t[i] = s[i]
          BY <3>1, <4>2
        <5>2. \A i, j \in 1 .. Len(s) : i < j => s[i].generation < s[j].generation
          BY <2>t, <3>1 DEF HistoryInv
        <5> HIDE DEF t, s, a
        <5> QED BY <3>1, <3>5, <4>2, <5>1, <5>2
      <4> QED BY <4>1, <4>2
    <3>7. /\ g \subseteq Manifests /\ \A h, k \in g : h = k
          /\ \A h \in g : m.generation <= h.generation
      <4>1. \A h, k \in highest[a] : h = k
        BY <2>t, <3>1, Zenon DEF HistoryInv
      <4>2. highest[a] \subseteq Manifests
        BY <2>t, <3>1 DEF TrustTypes
      <4>3. \A h \in Manifests : h.generation \in Nat
        BY TrustAssumption
      <4> QED BY <3>1, <4>1, <4>2, <4>3
    <3>8. \A h \in g : \A i \in 1 .. Len(t) : t[i].generation <= h.generation
      <4> SUFFICES ASSUME NEW h \in g, NEW i \in 1 .. Len(t)
                   PROVE  t[i].generation <= h.generation
        OBVIOUS
      <4>1. t[i].generation \in Nat /\ h.generation \in Nat
        BY <3>6, <3>7, TrustAssumption
      <4> HIDE DEF t, g
      <4> QED BY <3>1, <3>6, <3>7, <4>1
    <3> HIDE DEF t, g, s
    <3>9. TrustTypes'
      BY <2>t, <2>1, <3>1, <3>2, <3>6, <3>7
         DEF AdmitVerifier, buildVars, witnessVars, TrustTypes
    <3>10. HistoryInv'
      <4> SUFFICES ASSUME NEW k \in Anchors
                   PROVE  /\ \A i, j \in 1 .. Len(store'[k]) :
                               i < j => store'[k][i].generation < store'[k][j].generation
                          /\ \A h, l \in highest'[k] : h = l
                          /\ \A h \in highest'[k] : \A i \in 1 .. Len(store'[k]) :
                               store'[k][i].generation <= h.generation
        BY Zenon DEF HistoryInv
      <4>1. CASE k = a
        <5>1. store'[k] = t /\ highest'[k] = g
          BY <2>t, <3>1, <3>2, <4>1 DEF TrustTypes
        <5> QED BY <3>6, <3>7, <3>8, <5>1, Zenon
      <4>2. CASE k # a
        <5>1. store'[k] = store[k] /\ highest'[k] = highest[k]
          BY <2>t, <3>1, <3>2, <4>2 DEF TrustTypes
        <5> QED BY <2>t, <5>1, Zenon DEF HistoryInv
      <4> QED BY <4>1, <4>2, Zenon
    <3>11. VouchedInv'
      <4>1. d.manifest \in Manifests
        BY <3>1
      <4> HIDE DEF d
      <4>2. \A k \in Anchors : \A x \in admission'[k] : x.manifest \in Manifests
        BY <2>t, <3>1, <3>2, <4>1 DEF TrustTypes, VouchedInv
      <4> QED BY <2>t, <2>1, <4>2, Zenon DEF AdmitVerifier, buildVars, VouchedInv
    <3>12. FloorInv'
      BY <2>t, <2>1, Zenon DEF AdmitVerifier, witnessVars, FloorInv
    <3> QED BY <3>9, <3>10, <3>11, <3>12, Zenon DEF TrustInv
  <2>2. ASSUME NEW a \in Anchors, RestoreSnapshot(a) PROVE TrustInv'
    <3>1. PICK n \in 0 .. (Len(store[a]) - 1) : store' = [store EXCEPT ![a] = SubSeq(store[a], 1, n)]
      BY <2>2, Zenon DEF RestoreSnapshot
    <3> DEFINE t == SubSeq(store[a], 1, n)
    <3>2. /\ store[a] \in Seq(Manifests) /\ t \in Seq(Manifests) /\ Len(t) = n
          /\ n \in Nat /\ Len(store[a]) \in Nat
          /\ \A i \in 1 .. Len(t) : i \in 1 .. Len(store[a]) /\ t[i] = store[a][i]
      BY <2>t, <3>1 DEF TrustTypes
    <3> HIDE DEF t
    <3>3. TrustTypes'
      BY <2>t, <2>2, <3>1, <3>2 DEF RestoreSnapshot, buildVars, witnessVars, TrustTypes, t
    <3>4. HistoryInv'
      <4> SUFFICES ASSUME NEW k \in Anchors
                   PROVE  /\ \A i, j \in 1 .. Len(store'[k]) :
                               i < j => store'[k][i].generation < store'[k][j].generation
                          /\ \A h, l \in highest'[k] : h = l
                          /\ \A h \in highest'[k] : \A i \in 1 .. Len(store'[k]) :
                               store'[k][i].generation <= h.generation
        BY Zenon DEF HistoryInv
      <4>1. highest' = highest
        BY <2>2, Zenon DEF RestoreSnapshot
      <4>2. CASE k = a
        <5>1. store'[k] = t
          BY <2>t, <3>1, <4>2 DEF TrustTypes, t
        <5> QED BY <2>t, <3>2, <4>1, <4>2, <5>1 DEF HistoryInv
      <4>3. CASE k # a
        <5>1. store'[k] = store[k]
          BY <2>t, <3>1, <4>3 DEF TrustTypes
        <5> QED BY <2>t, <4>1, <5>1, Zenon DEF HistoryInv
      <4> QED BY <4>2, <4>3, Zenon
    <3>5. VouchedInv'
      BY <2>t, <2>2, Zenon DEF RestoreSnapshot, buildVars, VouchedInv
    <3>6. FloorInv'
      BY <2>t, <2>2, Zenon DEF RestoreSnapshot, witnessVars, FloorInv
    <3> QED BY <3>3, <3>4, <3>5, <3>6, Zenon DEF TrustInv
  <2>3. ASSUME NEW b \in Builders, NEW e, Vouched(e),
               evidence' = [evidence EXCEPT ![b] = {e}],
               UNCHANGED <<trustEpoch, anchorVars, receipt, witnessVars>>
        PROVE  TrustInv'
    <3>1. TrustTypes'
      BY <2>t, <2>3, Zenon DEF anchorVars, witnessVars, TrustTypes
    <3>2. HistoryInv' /\ FloorInv'
      BY <2>t, <2>3, Zenon DEF anchorVars, witnessVars, HistoryInv, FloorInv
    <3>3. \A k \in Builders : \A x \in evidence'[k] : Vouched(x)
      BY <2>t, <2>3, Zenon DEF TrustTypes, VouchedInv
    <3>4. VouchedInv'
      BY <2>t, <2>3, <3>3, Zenon DEF anchorVars, VouchedInv
    <3> QED BY <3>1, <3>2, <3>4, Zenon DEF TrustInv
  <2>4. ASSUME NEW b \in Builders, NEW life \in Lifetimes, VerifyRemote(b, life) PROVE TrustInv'
    <3>1. PICK d \in admission[Profile[b].anchor] :
            LET e == [manifest |-> d.manifest, root |-> Profile[b].root, stage |-> "remote",
                      observed |-> trustEpoch, expires |-> trustEpoch + life]
            IN  /\ AdmissionHolds(d) /\ RootAllowed(d.manifest, e.root)
                /\ evidence' = [evidence EXCEPT ![b] = {e}]
      BY <2>4, Zenon DEF VerifyRemote
    <3> DEFINE e == [manifest |-> d.manifest, root |-> Profile[b].root, stage |-> "remote",
                     observed |-> trustEpoch, expires |-> trustEpoch + life]
    <3>2. d.manifest \in Manifests /\ ~d.manifest.revoked
      BY <2>t, <3>1, TrustAssumption, Zenon DEF VouchedInv, AdmissionHolds, ManifestLive
    <3>3. /\ e.manifest = d.manifest /\ e.root = Profile[b].root
          /\ e.observed \in Nat /\ e.expires \in Nat
      BY <2>t, TrustAssumption DEF TrustTypes
    <3>4. RootAllowed(d.manifest, e.root) /\ evidence' = [evidence EXCEPT ![b] = {e}]
      BY <3>1, Zenon
    <3> HIDE DEF e
    <3>5. Vouched(e)
      BY <3>2, <3>3, <3>4, Zenon DEF Vouched
    <3>6. UNCHANGED <<trustEpoch, anchorVars, receipt, witnessVars>>
      BY <2>4, Zenon DEF VerifyRemote
    <3> QED BY <2>3, <3>4, <3>5, <3>6, Zenon
  <2>5. ASSUME NEW b \in Builders, AttestEnvironment(b) \/ AttestObservation(b) PROVE TrustInv'
    <3>1. PICK e \in evidence[b], stage \in {"environment", "observation"} :
            evidence' = [evidence EXCEPT ![b] = {Attested(e, stage)}]
      BY <2>5, Zenon DEF AttestEnvironment, AttestObservation
    <3>2. Vouched(e)
      BY <2>t, <3>1, Zenon DEF VouchedInv
    <3>3. /\ Attested(e, stage).manifest = e.manifest /\ Attested(e, stage).root = e.root
          /\ Attested(e, stage).observed = e.observed /\ Attested(e, stage).expires = e.expires
      BY DEF Attested
    <3>4. Vouched(Attested(e, stage))
      BY <3>2, <3>3, Zenon DEF Vouched
    <3>5. UNCHANGED <<trustEpoch, anchorVars, receipt, witnessVars>>
      BY <2>5, Zenon DEF AttestEnvironment, AttestObservation
    <3> QED BY <2>3, <3>1, <3>4, <3>5, Zenon
  <2>6. ASSUME NEW r, receipt' = {r}, Independent(r.a, r.b, r.policy),
               \A e \in r.evidence : Vouched(e),
               UNCHANGED <<trustEpoch, anchorVars, evidence, witnessVars>>
        PROVE  TrustInv'
    <3>1. TrustTypes'
      BY <2>t, <2>6, Zenon DEF anchorVars, witnessVars, TrustTypes
    <3>2. HistoryInv' /\ FloorInv'
      BY <2>t, <2>6, Zenon DEF anchorVars, witnessVars, HistoryInv, FloorInv
    <3>3. VouchedInv'
      BY <2>t, <2>6, Zenon DEF anchorVars, VouchedInv
    <3> QED BY <3>1, <3>2, <3>3, Zenon DEF TrustInv
  <2>7. ASSUME NEW p \in Pairs, SealReproducible(p.a, p.b, p.policy) PROVE TrustInv'
    <3>0. p.a \in Builders /\ p.b \in Builders
      BY TrustAssumption
    <3>1. PICK ea \in evidence[p.a], eb \in evidence[p.b] :
            LET r == [a |-> p.a, b |-> p.b, policy |-> p.policy,
                      evidence |-> {ea, eb}, admitted |-> FALSE]
            IN  ReceiptHolds(r) /\ receipt' = {r}
      BY <2>7, Zenon DEF SealReproducible
    <3> DEFINE r == [a |-> p.a, b |-> p.b, policy |-> p.policy,
                     evidence |-> {ea, eb}, admitted |-> FALSE]
    <3>2. r.evidence = {ea, eb} /\ ReceiptHolds(r) /\ receipt' = {r}
      BY <3>1
    <3> HIDE DEF r
    <3>3. Independent(r.a, r.b, r.policy)
      BY <3>2, Zenon DEF ReceiptHolds
    <3>4. \A e \in r.evidence : Vouched(e)
      BY <2>t, <3>0, <3>1, <3>2, Zenon DEF VouchedInv
    <3>5. UNCHANGED <<trustEpoch, anchorVars, evidence, witnessVars>>
      BY <2>7, Zenon DEF SealReproducible
    <3> QED BY <2>6, <3>2, <3>3, <3>4, <3>5, Zenon
  <2>8. ASSUME AdmitReproducible PROVE TrustInv'
    <3>1. PICK q \in receipt : receipt' = {[a |-> q.a, b |-> q.b, policy |-> q.policy,
                                            evidence |-> q.evidence, admitted |-> TRUE]}
      BY <2>8, Zenon DEF AdmitReproducible
    <3> DEFINE r == [a |-> q.a, b |-> q.b, policy |-> q.policy,
                     evidence |-> q.evidence, admitted |-> TRUE]
    <3>2. r.a = q.a /\ r.b = q.b /\ r.policy = q.policy /\ r.evidence = q.evidence
      OBVIOUS
    <3>3. receipt' = {r}
      BY <3>1, Zenon
    <3> HIDE DEF r
    <3>4. Independent(r.a, r.b, r.policy) /\ \A e \in r.evidence : Vouched(e)
      BY <2>t, <3>1, <3>2, Zenon DEF VouchedInv
    <3>5. UNCHANGED <<trustEpoch, anchorVars, evidence, witnessVars>>
      BY <2>8, Zenon DEF AdmitReproducible
    <3> QED BY <2>6, <3>3, <3>4, <3>5, Zenon
  <2>9. ASSUME UNCHANGED <<trustEpoch, anchorVars, buildVars>>,
               witness' \in [Anchors -> SUBSET Manifests], DOMAIN challenge' = Anchors,
               DOMAIN answer' = Anchors, DOMAIN confirmed' = Anchors, FloorInv'
        PROVE  TrustInv'
    <3>1. TrustTypes'
      BY <2>t, <2>9, Zenon DEF anchorVars, buildVars, TrustTypes
    <3>2. HistoryInv' /\ VouchedInv'
      BY <2>t, <2>9, Zenon DEF anchorVars, buildVars, HistoryInv, VouchedInv
    <3> QED BY <2>9, <3>1, <3>2, Zenon DEF TrustInv
  <2>10. ASSUME NEW a \in Anchors, RegisterWithWitness(a) PROVE TrustInv'
    <3> DEFINE m == Newest(store[a])
    <3>1. m \in Manifests
      BY <2>t, <2>10 DEF RegisterWithWitness, Newest, TrustTypes
    <3>2. /\ witness' = [witness EXCEPT ![a] = {m}]
          /\ \A w \in witness[a] : w.generation < m.generation
          /\ UNCHANGED <<trustEpoch, anchorVars, buildVars, challenge, answer, confirmed>>
      BY <2>10, Zenon DEF RegisterWithWitness
    <3> HIDE DEF m
    <3>3. /\ witness' \in [Anchors -> SUBSET Manifests] /\ witness'[a] = {m}
          /\ \A k \in Anchors \ {a} : witness'[k] = witness[k]
      BY <2>t, <3>1, <3>2 DEF TrustTypes
    <3>4. ASSUME NEW k \in Anchors, NEW c \in challenge[k], NEW f \in c.floor
          PROVE  f \in Manifests /\ \E w \in witness'[k] : f.generation <= w.generation
      <4>1. PICK w \in witness[k] : f \in Manifests /\ f.generation <= w.generation
        BY <2>t, Zenon DEF FloorInv
      <4>2. CASE k = a
        <5>1. w \in Manifests
          BY <2>t DEF TrustTypes
        <5>2. f.generation \in Nat /\ w.generation \in Nat /\ m.generation \in Nat
          BY <3>1, <4>1, <5>1, TrustAssumption
        <5>3. f.generation <= m.generation
          BY <3>2, <4>1, <4>2, <5>2
        <5> QED BY <3>3, <4>1, <4>2, <5>3, Zenon
      <4> QED BY <3>3, <4>1, <4>2, Zenon
    <3>5. FloorInv'
      <4>1. ASSUME NEW k \in Anchors PROVE \A v, w \in witness'[k] : v = w
        <5>1. CASE k = a
          BY <3>3, <5>1, Zenon
        <5>2. CASE k # a
          BY <2>t, <3>3, <5>2, Zenon DEF FloorInv
        <5> QED BY <5>1, <5>2, Zenon
      <4> QED BY <2>t, <3>2, <3>4, <4>1, Zenon DEF FloorInv
    <3> QED BY <2>t, <2>9, <3>2, <3>3, <3>5, Zenon DEF TrustTypes
  <2>11. ASSUME NEW a \in Anchors, IssueChallenge(a) PROVE TrustInv'
    <3>1. PICK nonce : challenge' = [challenge EXCEPT ![a] =
                          {[nonce |-> nonce, issued |-> trustEpoch, floor |-> witness[a]]}]
      BY <2>11, Zenon DEF IssueChallenge
    <3> DEFINE c == [nonce |-> nonce, issued |-> trustEpoch, floor |-> witness[a]]
    <3>2. c.floor = witness[a]
      OBVIOUS
    <3>3. challenge' = [challenge EXCEPT ![a] = {c}]
      BY <3>1, Zenon
    <3> HIDE DEF c
    <3>4. /\ DOMAIN challenge' = Anchors /\ challenge'[a] = {c}
          /\ \A k \in Anchors \ {a} : challenge'[k] = challenge[k]
      BY <2>t, <3>3, Zenon DEF TrustTypes
    <3>5. UNCHANGED <<trustEpoch, anchorVars, buildVars, witness, answer, confirmed>>
      BY <2>11, Zenon DEF IssueChallenge
    <3>6. ASSUME NEW k \in Anchors, NEW x \in challenge'[k], NEW f \in x.floor
          PROVE  f \in Manifests /\ \E w \in witness'[k] : f.generation <= w.generation
      <4>1. CASE k = a
        <5>1. f \in witness'[k]
          BY <3>2, <3>4, <3>5, <4>1, Zenon
        <5>2. f \in Manifests /\ f.generation \in Nat
          BY <2>t, <3>5, <5>1, TrustAssumption DEF TrustTypes
        <5>3. f.generation <= f.generation
          BY <5>2
        <5> QED BY <5>1, <5>2, <5>3, Zenon
      <4>2. CASE k # a
        BY <2>t, <3>4, <3>5, <4>2, Zenon DEF FloorInv
      <4> QED BY <4>1, <4>2, Zenon
    <3>7. FloorInv'
      BY <2>t, <3>5, <3>6, Zenon DEF FloorInv
    <3> QED BY <2>t, <2>9, <3>4, <3>5, <3>7, Zenon DEF TrustTypes
  <2>12. ASSUME NEW a \in Anchors, VerifyWitness(a) PROVE TrustInv'
    <3>1. PICK c \in challenge[a], w \in witness[a] :
            answer' = [answer EXCEPT ![a] =
                         {[manifest |-> w, observed |-> trustEpoch, challenge |-> c]}]
      BY <2>12, Zenon DEF VerifyWitness
    <3> DEFINE n == [manifest |-> w, observed |-> trustEpoch, challenge |-> c]
    <3>2. n.manifest = w /\ n.challenge = c
      OBVIOUS
    <3>3. answer' = [answer EXCEPT ![a] = {n}]
      BY <3>1, Zenon
    <3> HIDE DEF n
    <3>4. /\ DOMAIN answer' = Anchors /\ answer'[a] = {n}
          /\ \A k \in Anchors \ {a} : answer'[k] = answer[k]
      BY <2>t, <3>3, Zenon DEF TrustTypes
    <3>5. UNCHANGED <<trustEpoch, anchorVars, buildVars, witness, challenge, confirmed>>
      BY <2>12, Zenon DEF VerifyWitness
    <3>6. ASSUME NEW f \in c.floor PROVE f.generation <= w.generation
      <4>1. PICK v \in witness[a] : f.generation <= v.generation
        BY <2>t, <3>1, Zenon DEF FloorInv
      <4>2. v = w
        BY <2>t, <3>1, <4>1, Zenon DEF FloorInv
      <4> QED BY <4>1, <4>2, Zenon
    <3>7. ASSUME NEW k \in Anchors, NEW x \in answer'[k], NEW f \in x.challenge.floor
          PROVE  f.generation <= x.manifest.generation
      <4>1. CASE k = a
        BY <3>2, <3>4, <3>6, <4>1, Zenon
      <4>2. CASE k # a
        BY <2>t, <3>4, <4>2, Zenon DEF FloorInv
      <4> QED BY <4>1, <4>2, Zenon
    <3>8. FloorInv'
      BY <2>t, <3>5, <3>7, Zenon DEF FloorInv
    <3> QED BY <2>t, <2>9, <3>4, <3>5, <3>8, Zenon DEF TrustTypes
  <2>13. ASSUME NEW a \in Anchors, ConfirmState(a) PROVE TrustInv'
    <3>1. PICK c \in challenge[a], n \in answer[a] :
            /\ n.challenge = c
            /\ confirmed' = [confirmed EXCEPT ![a] =
                               {[answer |-> n, epoch |-> trustEpoch, floor |-> c.floor]}]
      BY <2>13, Zenon DEF ConfirmState, Answers
    <3> DEFINE k == [answer |-> n, epoch |-> trustEpoch, floor |-> c.floor]
    <3>2. k.answer = n /\ k.floor = n.challenge.floor
      BY <3>1
    <3>3. confirmed' = [confirmed EXCEPT ![a] = {k}]
      BY <3>1, Zenon
    <3> HIDE DEF k
    <3>4. /\ DOMAIN confirmed' = Anchors /\ confirmed'[a] = {k}
          /\ \A x \in Anchors \ {a} : confirmed'[x] = confirmed[x]
      BY <2>t, <3>3, Zenon DEF TrustTypes
    <3>5. UNCHANGED <<trustEpoch, anchorVars, buildVars, witness, challenge, answer>>
      BY <2>13, Zenon DEF ConfirmState
    <3>6. \A f \in k.floor : f.generation <= k.answer.manifest.generation
      BY <2>t, <3>1, <3>2, Zenon DEF FloorInv
    <3>7. ASSUME NEW x \in Anchors
          PROVE  /\ \A y, l \in confirmed'[x] : y = l
                 /\ \A y \in confirmed'[x] : \A f \in y.floor :
                      f.generation <= y.answer.manifest.generation
      <4>1. CASE x = a
        BY <3>4, <3>6, <4>1, Zenon
      <4>2. CASE x # a
        BY <2>t, <3>4, <4>2, Zenon DEF FloorInv
      <4> QED BY <4>1, <4>2, Zenon
    <3>8. FloorInv'
      BY <2>t, <3>5, <3>7, Zenon DEF FloorInv
    <3> QED BY <2>t, <2>9, <3>4, <3>5, <3>8, Zenon DEF TrustTypes
  <2>14. CASE Tick \/ (\E kind \in {"local", "witnessed"} : NativeVerify(kind))
              \/ UNCHANGED trustVars
    <3>1. trustEpoch' \in Nat
      BY <2>t, <2>14 DEF Tick, NativeVerify, trustVars, TrustTypes
    <3>2. UNCHANGED <<anchorVars, buildVars, witnessVars>>
      BY <2>14, Zenon DEF Tick, NativeVerify, trustVars
    <3>3. TrustTypes'
      BY <2>t, <3>1, <3>2, Zenon DEF anchorVars, buildVars, witnessVars, TrustTypes
    <3>4. HistoryInv' /\ VouchedInv'
      BY <2>t, <3>2, Zenon DEF anchorVars, buildVars, HistoryInv, VouchedInv
    <3>5. FloorInv'
      BY <2>t, <3>2, Zenon DEF witnessVars, FloorInv
    <3> QED BY <3>3, <3>4, <3>5, Zenon DEF TrustInv
  <2> QED
    BY <2>1, <2>2, <2>4, <2>5, <2>7, <2>8, <2>10, <2>11, <2>12, <2>13, <2>14, Zenon DEF TrustNext
<1> QED BY <1>1, <1>2, PTL DEF TrustSpec

\* The provider verifier is used only under trust that stands: for a store that
\* still holds the newest manifest ever observed, that manifest is live and
\* allows the roots of both builders; and a use the witness confirmed rests on
\* no generation below the one it remembered when it was challenged, whatever
\* snapshots of the store are restored.
THEOREM TrustIsNewest == TrustSpec => []UsedUnderNewestTrust
<1>1. TrustInv => RetiredRootsStayOut
  <2> SUFFICES ASSUME TrustInv, NEW r \in receipt, r.admitted,
                      ReproducibilityCurrent(r, "local")
               PROVE  /\ r.a # r.b
                      /\ Profile[r.a].environment # Profile[r.b].environment
                      /\ r.policy => Profile[r.a].root # Profile[r.b].root
                      /\ \A e \in r.evidence : \A h \in highest[e.manifest.anchor] :
                           (\E i \in DOMAIN store[e.manifest.anchor] :
                              store[e.manifest.anchor][i] = h) =>
                             /\ h.from <= trustEpoch /\ trustEpoch < h.before /\ ~h.revoked
                             /\ e.root \in h.allowed \ h.revokedRoots
                             /\ trustEpoch < e.expires
    BY Zenon DEF RetiredRootsStayOut
  <2>t. TrustTypes /\ HistoryInv /\ VouchedInv
    BY Zenon DEF TrustInv
  <2>1. Independent(r.a, r.b, r.policy)
    BY <2>t, Zenon DEF VouchedInv
  <2>2. ASSUME NEW e \in r.evidence, NEW h \in highest[e.manifest.anchor],
               NEW i \in DOMAIN store[e.manifest.anchor], store[e.manifest.anchor][i] = h
        PROVE  /\ h.from <= trustEpoch /\ trustEpoch < h.before /\ ~h.revoked
               /\ e.root \in h.allowed \ h.revokedRoots
               /\ trustEpoch < e.expires
    <3> DEFINE a == e.manifest.anchor
               s == store[a]
    <3>1. Vouched(e) /\ EvidenceLive(e) /\ CurrentBinding(e.manifest)
      BY <2>t, Zenon DEF VouchedInv, ReproducibilityCurrent, StateBinds
    <3>2. /\ e.manifest \in Manifests /\ a \in Anchors /\ s \in Seq(Manifests)
          /\ e.manifest.from \in Nat /\ e.manifest.before \in Nat
      BY <2>t, <3>1, TrustAssumption DEF Vouched, TrustTypes
    <3>3. s # <<>> /\ s[Len(s)] = e.manifest
      BY <3>1, Zenon DEF CurrentBinding, Newest
    <3>4. i \in 1 .. Len(s) /\ Len(s) \in 1 .. Len(s) /\ s[i] = h
      BY <2>2, <3>2, <3>3
    <3>5. /\ i < Len(s) => s[i].generation < s[Len(s)].generation
          /\ s[Len(s)].generation <= h.generation
      BY <2>t, <3>2, <3>4, Zenon DEF HistoryInv
    <3>6. h.generation \in Nat /\ s[Len(s)].generation \in Nat
      BY <3>2, <3>4, TrustAssumption
    <3>7. i = Len(s)
      BY <3>4, <3>5, <3>6
    <3>8. h = e.manifest
      BY <3>3, <3>4, <3>7, Zenon
    <3>9. /\ e.manifest.from <= trustEpoch /\ trustEpoch < e.manifest.before
          /\ trustEpoch < e.expires
      BY <2>t, <3>1, <3>2 DEF EvidenceLive, WithinAnchor, Vouched, TrustTypes
    <3> QED BY <3>1, <3>8, <3>9, Zenon DEF Vouched, RootAllowed
  <2> QED BY <2>1, <2>2, Zenon DEF Independent
<1>2. TrustInv => WitnessCatchesRollback
  <2> SUFFICES ASSUME TrustInv, NEW r \in receipt, ReproducibilityCurrent(r, "witnessed"),
                      NEW e \in r.evidence, NEW k \in confirmed[e.manifest.anchor],
                      NEW f \in k.floor
               PROVE  f.generation <= e.manifest.generation
    BY Zenon DEF WitnessCatchesRollback
  <2>1. PICK l \in confirmed[e.manifest.anchor] : l.answer.manifest = e.manifest
    BY Zenon DEF ReproducibilityCurrent, StateBinds, WitnessAgrees
  <2>2. e.manifest.anchor \in Anchors
    BY TrustAssumption, Zenon DEF TrustInv, VouchedInv, Vouched
  <2>3. k = l
    BY <2>1, <2>2, Zenon DEF TrustInv, FloorInv
  <2>4. f.generation <= k.answer.manifest.generation
    BY <2>2, Zenon DEF TrustInv, FloorInv
  <2> QED BY <2>1, <2>3, <2>4, Zenon
<1> QED BY <1>1, <1>2, TrustInductive, PTL DEF UsedUnderNewestTrust
=============================================================================

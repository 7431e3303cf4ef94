-------------------------- MODULE ExecutionEvidence -------------------------
(***************************************************************************)
(* The evidence chain of one executed effect: external_adapter_contract_   *)
(* v1.py (and its Pi profile), canonical_authority_basis_v1.py,            *)
(* authorization_decision_v1.py, execution_permit_v1.py, effect_execution_ *)
(* receipt_v1.py, execution_proof_envelope_v1.py, effect_execution_proof_  *)
(* envelope_v1.py, provider_native_verifier_v1.py, external_finality_      *)
(* attestation_v1.py, provider_finality_bridge_v1.py, external_finality_   *)
(* proof_envelope_v1.py and the two historical-integrity validators.       *)
(*                                                                         *)
(* A digest is the contents it seals, so an object names its predecessor   *)
(* by holding it.  Every step takes the objects it links as separate       *)
(* arguments, as the code does: the caller may present any it holds, also  *)
(* those of another execution.  Whether the verifier's build is still      *)
(* trusted (module TrustAnchors) is here the current trust generation.     *)
(***************************************************************************)
EXTENDS Naturals, Sequences, FiniteSets

CONSTANTS
  Grants,     \* [subject, actions, from, before]
  Actions,    \* adapter actions evidence may be about
  EffectRequests,  \* canonical requests: [subject, operation, epoch]
  Outcomes,   \* request -> what the native enforcement gate may decide
  Results,    \* the bytes an effect may return
  MaxChainEpoch, MaxGeneration, MaxEvidence, MaxDecisions, MaxNative

ASSUME ChainAssumption == MaxChainEpoch \in Nat /\ MaxGeneration \in Nat

VARIABLES
  chainEpoch, generation,
  admitted,      \* ExternalAdapterEvidenceV1: [grant, action, epoch]
  decisions,     \* AuthorizationDecisionV1: [evidence, basis]
  permits,       \* ExecutionPermitV1: [decision]
  consumed,      \* the permit ledger; a consumption receipt is [permit]
  effects,       \* EffectExecutionReceiptV1: [consumption, outcome, result]
  bases,         \* ExecutionProofEnvelopeV1: [basis, decision, permit, consumption]
  envelopes,     \* EffectExecutionProofEnvelopeV1: [base, effect]
  natives,       \* ProviderNativeVerificationReceiptV1
  attested,      \* ExternalFinalityAttestationV1 with its verdict
  finals,        \* ExternalFinalityProofEnvelopeV1: [envelope, native, attestation]
  runs           \* history: the effect callbacks that ran, in order

linkVars == <<admitted, decisions, permits, consumed, effects>>
proofVars == <<bases, envelopes, natives, attested, finals>>
chainVars == <<chainEpoch, generation, linkVars, proofVars, runs>>

-----------------------------------------------------------------------------
(* Grant, evidence, decision, permit.                                      *)

SealedGrants == {g \in Grants : g.actions # {} /\ g.from < g.before}

Permits(g, action, at) == g.from <= at /\ at < g.before /\ action \in g.actions

AdmitEvidence(g, action) ==
  /\ Cardinality(admitted) < MaxEvidence
  /\ Permits(g, action, chainEpoch)
  /\ admitted' = admitted \cup {[grant |-> g, action |-> action, epoch |-> chainEpoch]}
  /\ UNCHANGED <<chainEpoch, generation, decisions, permits, consumed, effects, proofVars, runs>>

\* derive_canonical_authority_basis_v1: the request and the gate's decision.
Bases ==
  UNION {{[request |-> q, outcome |-> o] : o \in Outcomes[q]} : q \in EffectRequests}

DecisionBinds(e, b) ==
  /\ b.request.subject = e.grant.subject
  /\ b.request.epoch = e.epoch

IssueDecision(e, b) ==
  /\ Cardinality(decisions) < MaxDecisions
  /\ DecisionBinds(e, b)
  /\ decisions' = decisions \cup {[evidence |-> e, basis |-> b]}
  /\ UNCHANGED <<chainEpoch, generation, admitted, permits, consumed, effects, proofVars, runs>>

Allows(d) == d.basis.outcome = "allow"

MintPermit(d) ==
  /\ Allows(d)
  /\ permits' = permits \cup {[decision |-> d]}
  /\ UNCHANGED <<chainEpoch, generation, admitted, decisions, consumed, effects, proofVars, runs>>

-----------------------------------------------------------------------------
(* Execution.                                                              *)

\* Mutant of PermitLive: a consumed permit is accepted again.
PermitLiveReplayed(p, q) ==
  /\ p.decision.basis.request = q
  /\ p.decision.basis.request.epoch = chainEpoch

\* The permit is this request's, lives in the current epoch and is unused.
PermitLive(p, q) ==
  /\ p.decision.basis.request = q
  /\ p.decision.basis.request.epoch = chainEpoch
  /\ p \notin consumed

\* execute_effect_with_receipt_v1: consume, call the effect, seal its outcome.
ExecuteEffect(p, q) ==
  /\ PermitLive(p, q)
  /\ consumed' = consumed \cup {p}
  /\ \E x \in {[consumption |-> [permit |-> p], outcome |-> "effect-completed",
                result |-> r] : r \in Results}
             \cup {[consumption |-> [permit |-> p], outcome |-> "effect-failed",
                    result |-> "error"]} :
       /\ effects' = effects \cup {x}
       /\ runs' = Append(runs, [permit |-> p, effect |-> x, epoch |-> chainEpoch])
  /\ UNCHANGED <<chainEpoch, generation, admitted, decisions, permits, proofVars>>

\* seal_execution_proof_envelope_v1 and assert_valid.
BaseLinks(b, d, p, c) ==
  /\ Allows(d)
  /\ p.decision = d
  /\ c.permit = p
  /\ d.basis = b

SealBase(b, d, p, c) ==
  /\ BaseLinks(b, d, p, c)
  /\ bases' = bases \cup {[basis |-> b, decision |-> d, permit |-> p, consumption |-> c]}
  /\ UNCHANGED <<chainEpoch, generation, linkVars, envelopes, natives, attested, finals, runs>>

EffectLinks(base, x) ==
  /\ x.consumption = base.consumption
  /\ x.consumption.permit = base.permit

SealEnvelope(base, x) ==
  /\ EffectLinks(base, x)
  /\ envelopes' = envelopes \cup {[base |-> base, effect |-> x]}
  /\ UNCHANGED <<chainEpoch, generation, linkVars, bases, natives, attested, finals, runs>>

-----------------------------------------------------------------------------
(* Provider finality.                                                      *)

\* The envelope is this receipt's, completed, with exactly these result bytes.
EffectBinds(v, x, result) ==
  /\ v.effect = x
  /\ x.outcome = "effect-completed"
  /\ x.result = result

VerifyNative(v, x, result, state) ==
  /\ Cardinality(natives) < MaxNative
  /\ EffectBinds(v, x, result)
  /\ v.base.basis.request.epoch <= chainEpoch
  /\ natives' = natives \cup {[envelope |-> v, reference |-> result, state |-> state,
                               epoch |-> chainEpoch, generation |-> generation]}
  /\ UNCHANGED <<chainEpoch, generation, linkVars, bases, envelopes, attested, finals, runs>>

NativeCurrent(n) == n.epoch = chainEpoch /\ n.generation = generation

Attests(n, v) == NativeCurrent(n) /\ n.envelope = v

\* issue_provider_finality_verdict_from_native_v1, then the attestation.
AttestFinality(n, v) ==
  /\ Attests(n, v)
  /\ v.effect.outcome = "effect-completed"
  /\ v.base.basis.request.epoch <= n.epoch
  /\ attested' = attested \cup {[envelope |-> v, reference |-> n.reference,
                                 epoch |-> n.epoch, state |-> n.state]}
  /\ UNCHANGED <<chainEpoch, generation, linkVars, bases, envelopes, natives, finals, runs>>

FinalLinks(v, n, t) ==
  /\ n.envelope = v /\ t.envelope = v
  /\ t.reference = n.reference /\ t.epoch = n.epoch /\ t.state = n.state

\* ExternalFinalityProofEnvelopeV1: only in the epoch and the trust generation
\* of the native verification.
SealFinal(v, n, t) ==
  /\ NativeCurrent(n)
  /\ FinalLinks(v, n, t)
  /\ finals' = finals \cup {[envelope |-> v, native |-> n, attestation |-> t]}
  /\ UNCHANGED <<chainEpoch, generation, linkVars, bases, envelopes, natives, attested, runs>>

-----------------------------------------------------------------------------

AdvanceEpoch ==
  /\ chainEpoch < MaxChainEpoch
  /\ chainEpoch' = chainEpoch + 1
  /\ UNCHANGED <<generation, linkVars, proofVars, runs>>

\* A newer trust-anchor manifest was observed (module TrustAnchors).
AdvanceGeneration ==
  /\ generation < MaxGeneration
  /\ generation' = generation + 1
  /\ UNCHANGED <<chainEpoch, linkVars, proofVars, runs>>

ChainInit ==
  /\ chainEpoch = 0 /\ generation = 0
  /\ admitted = {} /\ decisions = {} /\ permits = {} /\ consumed = {} /\ effects = {}
  /\ bases = {} /\ envelopes = {} /\ natives = {} /\ attested = {} /\ finals = {}
  /\ runs = <<>>

Consumptions == {[permit |-> p] : p \in consumed}

ChainNext ==
  \/ \E g \in SealedGrants, action \in Actions : AdmitEvidence(g, action)
  \/ \E e \in admitted, b \in Bases : IssueDecision(e, b)
  \/ \E d \in decisions : MintPermit(d)
  \/ \E p \in permits, q \in EffectRequests : ExecuteEffect(p, q)
  \/ \E b \in Bases, d \in decisions, p \in permits, c \in Consumptions :
       SealBase(b, d, p, c)
  \/ \E base \in bases, x \in effects : SealEnvelope(base, x)
  \/ \E v \in envelopes, x \in effects, result \in Results,
        state \in {"pending", "finalized", "rejected"} : VerifyNative(v, x, result, state)
  \/ \E n \in natives, v \in envelopes : AttestFinality(n, v)
  \/ \E v \in envelopes, n \in natives, t \in attested : SealFinal(v, n, t)
  \/ AdvanceEpoch
  \/ AdvanceGeneration

ChainSpec == ChainInit /\ [][ChainNext]_chainVars

-----------------------------------------------------------------------------
(* Properties.                                                             *)

\* A sealed finality envelope tells of exactly one effect: one callback ran
\* under its permit, in the epoch of its request, for the request the allow
\* decision and its live external evidence were about; it completed with the
\* very bytes the provider was asked about; and the attested state is the one
\* the provider's verifier returned for that envelope.  No mixture of objects
\* of two executions is ever sealed.
FinalityTellsOneEffect ==
  \A f \in finals :
    LET v == f.envelope
        d == v.base.decision
        q == v.base.basis.request
    IN  /\ \E i \in 1 .. Len(runs) :
             /\ \A j \in 1 .. Len(runs) : runs[j].permit = v.base.permit <=> j = i
             /\ runs[i].effect = v.effect
             /\ runs[i].epoch = q.epoch
        /\ v.effect.outcome = "effect-completed"
        /\ f.native.reference = v.effect.result
        /\ d.evidence.epoch = q.epoch
        /\ v.base.permit.decision = d /\ d.basis = v.base.basis
        /\ d.basis.outcome = "allow"
        /\ d.evidence.grant.subject = q.subject
        /\ d.evidence.grant.from <= q.epoch /\ q.epoch < d.evidence.grant.before
        /\ f.native.envelope = v /\ f.attestation.envelope = v
        /\ f.attestation.state = f.native.state
        /\ q.epoch <= f.native.epoch
=============================================================================

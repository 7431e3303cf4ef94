----------------------------- MODULE SigilWorld -----------------------------
(***************************************************************************)
(* The native sigil world: koschei/native_sigil_semantics_v1.py and        *)
(* native_sigil_mir_v1.py lower a sigil program; universe_kernel_v1.py,    *)
(* universe_interactions_v1.py, universe_activation_engine_v1.py and       *)
(* library_expansion_engine_v1.py derive the obligations it activates;     *)
(* library_proof_envelope_v1.py, native_sigil_proof_pipeline_v1.py and     *)
(* native_sigil_enforcement_gate_v1.py turn the library's receipts into a  *)
(* decision; native_sigil_request_binding_v1.py binds it to one request;   *)
(* native_sigil_authority_delegation_v1.py delegates `vor` authority.      *)
(*                                                                         *)
(* A sealed object is its contents: two objects have the same digest iff   *)
(* they have the same fields.  The caller may present any sealed object it *)
(* holds, also one of another program, request or epoch.                   *)
(***************************************************************************)
EXTENDS Naturals, Sequences, FiniteSets, SequencesExt

CONSTANTS
  Programs,   \* the source programs
  Source,     \* their sigil declarations: sequences of [sigil, subject]
  Failures,   \* sets of obligations that may fail together
  Faults,     \* what may be wrong with the receipts a caller supplies
  Requests,   \* requested effects: [subject, operation, actor, epoch, nonce]
  Roots,      \* root grants that may be issued: [subject, actor, epoch, operations]
  Delegates,  \* delegations that may be asked for: [actor, operations]
  MaxProofs, MaxRequests, MaxGrants

VARIABLES
  mirs,      \* the sealed native MIR: the programs that passed the checks
  proofs,    \* NativeSigilProofBundle: [mir, proved, failed, decision]
  requests,  \* CanonicalEffectRequest
  bounds,    \* RequestBoundProof
  grants,    \* AuthorityGrant
  ran,       \* history: the effects that ran, [request, bound]
  covered    \* history: the requests found covered by a grant, [request, grant]

vars == <<mirs, proofs, requests, bounds, grants, ran, covered>>

-----------------------------------------------------------------------------
(* The universe: sigils, interactions, activation.                         *)

SigilObligations ==
  [ka   |-> {"establish-canonical-identity", "seal-integrity-lineage",
             "deny-ambient-authority"},
   vor  |-> {"derive-least-authority", "seal-effect-contract",
             "validate-runtime-before-authority-injection"},
   shi  |-> {"bind-observation-to-effect-receipt", "require-independent-evidence",
             "preserve-evidence-lineage"},
   thal |-> {"derive-minimum-safe-containment", "fence-stale-writers",
             "commit-or-abort-recovery", "prove-exactly-once-effect-lineage"},
   nur  |-> {"measure-knowledge-acquisition", "shrink-visibility-envelope",
             "rotate-observer-compartments",
             "preserve-canonical-state-behind-visibility"}]

InteractionRules ==
  { [requires |-> {"ka", "vor"},
     obligations |-> {"bind-authority-to-genesis-identity",
                      "invalidate-authority-on-identity-drift"}],
    [requires |-> {"ka", "shi"},
     obligations |-> {"bind-evidence-to-canonical-subject"}],
    [requires |-> {"ka", "vor", "shi"},
     obligations |-> {"seal-authorization-provenance",
                      "prove-effect-authority-before-attestation-finality"}],
    [requires |-> {"vor", "nur"},
     obligations |-> {"evaluate-authority-and-visibility-independently"}],
    [requires |-> {"shi", "thal"},
     obligations |-> {"bind-recovery-commit-to-attested-effect",
                      "abort-on-evidence-conflict"}],
    [requires |-> {"vor", "thal"},
     obligations |-> {"prove-recovery-authority-is-non-escalating"}],
    [requires |-> {"shi", "nur"},
     obligations |-> {"preserve-evidence-through-compartment-rotation"}],
    [requires |-> {"ka", "vor", "shi", "thal", "nur"},
     obligations |-> {"seal-whole-universe-conservation-proof"}] }

\* Every obligation as a step <<phase, obligation>>, in phase order and each
\* phase in the order of sorted(): what _phase_for finds in the names, by the
\* first matching group of tokens.
AllSteps ==
  << <<1, "bind-authority-to-genesis-identity">>,
     <<1, "establish-canonical-identity">>,
     <<1, "invalidate-authority-on-identity-drift">>,
     <<1, "preserve-evidence-lineage">>,
     <<1, "prove-exactly-once-effect-lineage">>,
     <<1, "seal-integrity-lineage">>,
     <<2, "deny-ambient-authority">>,
     <<2, "derive-least-authority">>,
     <<2, "evaluate-authority-and-visibility-independently">>,
     <<2, "prove-effect-authority-before-attestation-finality">>,
     <<2, "prove-recovery-authority-is-non-escalating">>,
     <<2, "seal-authorization-provenance">>,
     <<2, "seal-effect-contract">>,
     <<2, "validate-runtime-before-authority-injection">>,
     <<3, "abort-on-evidence-conflict">>,
     <<3, "bind-evidence-to-canonical-subject">>,
     <<3, "bind-observation-to-effect-receipt">>,
     <<3, "bind-recovery-commit-to-attested-effect">>,
     <<3, "preserve-evidence-through-compartment-rotation">>,
     <<3, "require-independent-evidence">>,
     <<4, "commit-or-abort-recovery">>,
     <<4, "derive-minimum-safe-containment">>,
     <<4, "fence-stale-writers">>,
     <<5, "measure-knowledge-acquisition">>,
     <<5, "preserve-canonical-state-behind-visibility">>,
     <<5, "rotate-observer-compartments">>,
     <<5, "shrink-visibility-envelope">>,
     <<6, "seal-whole-universe-conservation-proof">> >>

Sigils(p) == {Source[p][i].sigil : i \in DOMAIN Source[p]}

\* compile_universe_plan
UniverseAccepts(p) ==
  /\ Source[p] # <<>>
  /\ Cardinality(Sigils(p)) = Len(Source[p])
  /\ "ka" \in Sigils(p) => Source[p][1].sigil = "ka"

\* Mutant of ActiveObligations: what emerges from the interaction of sigils is left out.
ActiveObligationsOfSigils(sigils) == UNION {SigilObligations[s] : s \in sigils}

\* compose_universe: the obligations of the sigils and of every interaction
\* rule they satisfy
ActiveObligations(sigils) ==
  UNION {SigilObligations[s] : s \in sigils} \cup
  UNION {r.obligations : r \in {x \in InteractionRules : x.requires \subseteq sigils}}

\* The steps that step i waits for: the last one of every phase so far.
Requires(steps, i) ==
  {j \in 1 .. i - 1 : \A k \in j + 1 .. i - 1 : steps[k][1] # steps[j][1]}

\* compile_activation_plan and compile_library_expansion: the steps
\* <<phase, obligation>> in order, and what each one requires
Plan(sigils) ==
  LET active == ActiveObligations(sigils)
      steps == SelectSeq(AllSteps, LAMBDA step : step[2] \in active)
  IN  [steps |-> steps, requires |-> [i \in DOMAIN steps |-> Requires(steps, i)]]

\* The plan of every set of sigils.
Plans == [sigils \in SUBSET DOMAIN SigilObligations |-> Plan(sigils)]

-----------------------------------------------------------------------------
(* From the source to the sealed MIR.                                      *)

Subjects(p, sigil) ==
  {d.subject : d \in {x \in Range(Source[p]) : x.sigil = sigil}}

\* _require_admitted_subject_lineage
LineageHolds(p) ==
  \A i \in DOMAIN Source[p] :
    Source[p][i].sigil = "ka" \/
    \E j \in 1 .. i - 1 : Source[p][j] = [sigil |-> "ka", subject |-> Source[p][i].subject]

\* check_native_sigils and lower_native_sigils; source locations are not part
\* of the MIR's identity
Lower(p) ==
  /\ p \notin mirs
  /\ UniverseAccepts(p)
  /\ LineageHolds(p)
  /\ mirs' = mirs \cup {p}
  /\ UNCHANGED <<proofs, requests, bounds, grants, ran, covered>>

-----------------------------------------------------------------------------
(* Receipts, proof envelopes, bundles, decisions.                          *)

\* make_receipt; subsystem and proof kind follow the obligation
Receipt(step, obligation, success) ==
  [step |-> step, obligation |-> obligation, success |-> success]

\* What a caller supplies for a plan: a receipt for every step, some failed,
\* and perhaps one step left out, told twice, told of another obligation, or one
\* receipt too many.
Supplied(steps, failed, fault) ==
  LET receipts == [i \in DOMAIN steps |-> Receipt(steps[i], steps[i][2], steps[i][2] \notin failed)]
      last == receipts[Len(receipts)]
  IN  CASE fault = "none"    -> receipts
        [] fault = "missing" -> Front(receipts)
        [] fault = "twice"   -> Append(receipts, [receipts[1] EXCEPT !.success = TRUE])
        [] fault = "misbound" -> Append(Front(receipts), [last EXCEPT !.obligation = steps[1][2]])
        [] fault = "extra"   -> Append(receipts, Receipt(<<0, "outside">>, "outside", TRUE))

ToldOnce(receipts) == Cardinality({r.step : r \in Range(receipts)}) = Len(receipts)
Told(receipts) == {<<r.step, r.obligation>> : r \in Range(receipts)}
Owed(steps) == {<<step, step[2]>> : step \in Range(steps)}

\* seal_library_proof_envelope accepts: one receipt for each step, bound to
\* its obligation, and no other receipt
EnvelopeSealed(steps, receipts) == ToldOnce(receipts) /\ Told(receipts) = Owed(steps)

Proved(receipts) == {r.obligation : r \in {x \in Range(receipts) : x.success}}
Failed(receipts) == {r.obligation : r \in {x \in Range(receipts) : ~ x.success}}

EnvelopeDecision(proved, failed) == IF failed = {} THEN "ALLOW" ELSE "DENY"

\* seal_native_sigil_proof: the plan is derived from the MIR, the envelope is
\* sealed against it, the bundle names the MIR.
SealProof(mir, failed, fault) ==
  LET steps == Plans[Sigils(mir)].steps
      receipts == Supplied(steps, failed, fault)
  IN  /\ mir \in mirs
      /\ Cardinality(proofs) < MaxProofs
      /\ EnvelopeSealed(steps, receipts)
      /\ proofs' = proofs \cup
           {[mir |-> mir, proved |-> Proved(receipts), failed |-> Failed(receipts),
             decision |-> EnvelopeDecision(Proved(receipts), Failed(receipts))]}
      /\ UNCHANGED <<mirs, requests, bounds, grants, ran, covered>>

\* require_native_sigil_proof: the bundle names this MIR; its plan is derived
\* anew and its receipts sealed again.
ProofOf(mir, proof) ==
  /\ proof.mir = mir
  /\ proof.proved \cup proof.failed = {step[2] : step \in Range(Plans[Sigils(mir)].steps)}
  /\ proof.decision = EnvelopeDecision(proof.proved, proof.failed)

ContainmentObligations ==
  {"derive-minimum-safe-containment", "fence-stale-writers",
   "commit-or-abort-recovery", "prove-exactly-once-effect-lineage",
   "bind-recovery-commit-to-attested-effect", "abort-on-evidence-conflict",
   "prove-recovery-authority-is-non-escalating",
   "seal-whole-universe-conservation-proof"}

\* evaluate_enforcement
Enforcement(proof) ==
  CASE proof.decision = "ALLOW" -> "ALLOW"
    [] proof.failed \cap ContainmentObligations # {} -> "CONTAIN"
    [] OTHER -> "DENY"

-----------------------------------------------------------------------------
(* Requests and the effects they run.                                      *)

\* CanonicalEffectRequest.assert_sealed
RequestSealed(mir, r) == mir \in mirs /\ r.subject \in Subjects(mir, "vor")

\* seal_effect_request
SealRequest(mir, r) ==
  /\ Cardinality(requests) < MaxRequests
  /\ RequestSealed(mir, r)
  /\ requests' = requests \cup {[mir |-> mir, body |-> r]}
  /\ UNCHANGED <<mirs, proofs, bounds, grants, ran, covered>>

\* bind_proof_to_request
BindProof(mir, request, proof) ==
  /\ request.mir = mir
  /\ ProofOf(mir, proof)
  /\ bounds' = bounds \cup {[request |-> request, proof |-> proof]}
  /\ UNCHANGED <<mirs, proofs, requests, grants, ran, covered>>

\* RequestBoundProof.assert_sealed
Bound(mir, request, proof, bound) ==
  /\ request.mir = mir
  /\ bound = [request |-> request, proof |-> proof]
  /\ ProofOf(mir, proof)

\* enforce_bound_effect with enforce_effect: the callback runs for ALLOW only.
EnforceBoundEffect(mir, request, proof, bound) ==
  /\ Bound(mir, request, proof, bound)
  /\ Enforcement(proof) = "ALLOW"
  /\ ran' = ran \cup {[request |-> request, bound |-> bound]}
  /\ UNCHANGED <<mirs, proofs, requests, bounds, grants, covered>>

-----------------------------------------------------------------------------
(* Delegation of `vor` authority.                                          *)

\* issue_root_grant; a grant names its parent by its digest, here the parent itself
IssueRoot(mir, r) ==
  /\ Cardinality(grants) < MaxGrants
  /\ mir \in mirs
  /\ r.operations # {}
  /\ r.subject \in Subjects(mir, "vor")
  /\ grants' = grants \cup {[mir |-> mir, subject |-> r.subject, actor |-> r.actor,
                             epoch |-> r.epoch, operations |-> r.operations,
                             parent |-> <<>>, depth |-> 0]}
  /\ UNCHANGED <<mirs, proofs, requests, bounds, ran, covered>>

Narrows(operations, parent) == operations # {} /\ operations \subseteq parent.operations

\* delegate_grant
Delegate(parent, d) ==
  /\ Cardinality(grants) < MaxGrants
  /\ Narrows(d.operations, parent)
  /\ grants' = grants \cup {[parent EXCEPT !.actor = d.actor, !.operations = d.operations,
                                           !.parent = <<parent>>, !.depth = parent.depth + 1]}
  /\ UNCHANGED <<mirs, proofs, requests, bounds, ran, covered>>

\* require_request_authority
RequireAuthority(request, grant) ==
  /\ request.mir = grant.mir
  /\ request.body.subject = grant.subject
  /\ request.body.actor = grant.actor
  /\ request.body.epoch = grant.epoch
  /\ request.body.operation \in grant.operations
  /\ covered' = covered \cup {[request |-> request, grant |-> grant]}
  /\ UNCHANGED <<mirs, proofs, requests, bounds, grants, ran>>

-----------------------------------------------------------------------------
Init ==
  /\ mirs = {} /\ proofs = {} /\ requests = {} /\ bounds = {} /\ grants = {}
  /\ ran = {} /\ covered = {}

Next ==
  \/ \E p \in Programs : Lower(p)
  \/ \E mir \in mirs, failed \in Failures, fault \in Faults :
       SealProof(mir, failed, fault)
  \/ \E mir \in mirs, r \in Requests : SealRequest(mir, r)
  \/ \E mir \in mirs, request \in requests, proof \in proofs : BindProof(mir, request, proof)
  \/ \E mir \in mirs, request \in requests, proof \in proofs, bound \in bounds :
       EnforceBoundEffect(mir, request, proof, bound)
  \/ \E mir \in mirs, r \in Roots : IssueRoot(mir, r)
  \/ \E parent \in grants, d \in Delegates : Delegate(parent, d)
  \/ \E request \in requests, grant \in grants : RequireAuthority(request, grant)

Spec == Init /\ [][Next]_vars

-----------------------------------------------------------------------------
(* Properties.                                                             *)

\* enforce_bound_effect: whatever objects a caller mixes, an effect runs only
\* for a subject that an earlier ka admits, and only with a successful receipt
\* for every obligation of every sigil of its program and of every interaction
\* among them.
EffectsAreProved ==
  \A e \in ran :
    LET source == Source[e.request.mir]
        sigils == {source[i].sigil : i \in DOMAIN source}
        proved == e.bound.proof.proved
    IN  /\ e.bound.request = e.request
        /\ source[1] = [sigil |-> "ka", subject |-> e.request.body.subject]
        /\ \A s \in sigils : SigilObligations[s] \subseteq proved
        /\ \A rule \in InteractionRules : rule.requires \subseteq sigils => rule.obligations \subseteq proved

Ancestors(grant) ==
  LET up[i \in 0 .. grant.depth] == IF i = 0 THEN grant ELSE up[i - 1].parent[1]
  IN  {up[i] : i \in 1 .. grant.depth}

\* A request that a grant covers is one that every ancestor of the grant could
\* have covered for its own actor: no chain of delegations adds an operation,
\* another subject or another epoch, and the chain ends in an issued root.
DelegationNeverWidens ==
  \A c \in covered :
    /\ Ancestors(c.grant) \subseteq grants
    /\ \A g \in Ancestors(c.grant) :
         /\ c.request.body.operation \in g.operations
         /\ c.request.body.subject = g.subject
         /\ c.request.body.epoch = g.epoch

\* Both: what enforce_bound_effect runs is proved, and what a delegated grant
\* covers for require_request_authority was granted at its root.
EffectsAreLawful == EffectsAreProved /\ DelegationNeverWidens
=============================================================================

---------------------------- MODULE TrustAnchors ----------------------------
(***************************************************************************)
(* Who vouches for a provider verifier.  trust_anchor_admission_v1.py and  *)
(* trust_anchor_generation_store_v1.py keep the newest manifest of every   *)
(* anchor; remote_attestation_evidence_v1.py, builder_environment_         *)
(* attestation_v1.py and verifier_reproducible_build_v1.py turn two        *)
(* builders' attested builds into a reproducibility receipt;               *)
(* verifier_reproducible_admission_v1.py admits the artifact;              *)
(* verifier_generation_guard_v1.py rechecks it whenever                    *)
(* provider_native_verifier_v1.py uses it; monotonic_witness_v1.py,        *)
(* monotonic_witness_runtime_v1.py and runtime_monotonic_witness_          *)
(* challenge_v1.py let an external witness confirm the local generation.   *)
(*                                                                         *)
(* A sealed object is its contents.  Each variable of objects holds the    *)
(* latest one the caller keeps, as a set of at most one element: a kept    *)
(* object may be presented in any later epoch.  There is one verifier ABI. *)
(***************************************************************************)
EXTENDS Naturals, Sequences

CONSTANTS
  Anchors,        \* trust-anchor ids
  Manifests,      \* [anchor, generation, allowed, revokedRoots, from, before, revoked]
  Builders,       \* builder ids
  Profile,        \* builder -> [anchor, root, environment, artifact, toolchain]
  Pairs,          \* receipts that may be asked for: [a, b, policy]
  AbiArtifact,    \* the artifact the provider adapter ABI measures
  AbiToolchain,   \* the toolchain of the verifier's build provenance
  Lifetimes,      \* how long a remote attestation may live, in epochs
  WitnessLife,    \* how long a challenge and a witness answer live
  MaxTrustEpoch, MaxChallenges

ASSUME TrustAssumption ==
  /\ \A m \in Manifests : /\ m.anchor \in Anchors /\ m.generation \in Nat
                          /\ m.from \in Nat /\ m.before \in Nat
  /\ \A b \in Builders : Profile[b].anchor \in Anchors
  /\ \A p \in Pairs : p.a \in Builders /\ p.b \in Builders
  /\ Lifetimes \subseteq Nat /\ WitnessLife \in Nat /\ MaxTrustEpoch \in Nat

VARIABLES
  trustEpoch,     \* the runtime's current epoch
  store,          \* anchor -> the manifests observed, oldest first
  admission,      \* anchor -> {[manifest, epoch]}
  evidence,       \* builder -> {[manifest, root, observed, expires, stage]}: remote
                  \* evidence, and what has been attested over it so far
  receipt,        \* {[a, b, policy, evidence, admitted]}: reproducible-build
                  \* receipt, and whether the runtime admitted its artifact
  witness,        \* external: anchor -> {manifest} the witness remembers
  challenge,      \* anchor -> {[nonce, issued, floor]}
  answer,         \* anchor -> {[manifest, observed, challenge]}
  confirmed,      \* anchor -> {[answer, epoch, floor]} witness-confirmed states
  highest,        \* history: anchor -> {manifest} the newest ever observed
  uses            \* history: the ways the verifier was used in this epoch

anchorVars == <<store, admission, highest>>
buildVars == <<evidence, receipt>>
witnessVars == <<witness, challenge, answer, confirmed>>
trustVars == <<trustEpoch, anchorVars, buildVars, witnessVars, uses>>

-----------------------------------------------------------------------------
(* Manifests and the generation state.                                     *)

Sealed == {m \in Manifests : /\ m.from < m.before
                             /\ m.allowed # {}
                             /\ m.allowed \cap m.revokedRoots = {}}

ManifestLive(m) == m.from <= trustEpoch /\ trustEpoch < m.before /\ ~m.revoked

\* Mutant of RootAllowed: the manifest's roots are not consulted.
RootAllowedAnyway(m, root) == TRUE

RootAllowed(m, root) == root \notin m.revokedRoots /\ root \in m.allowed

Newest(history) == history[Len(history)]

\* Not older than the head; an equal generation is the same manifest.
Observes(m) ==
  /\ ManifestLive(m)
  /\ store[m.anchor] # <<>> =>
       LET head == Newest(store[m.anchor])
       IN  m.generation > head.generation \/ m = head

CurrentBinding(m) == store[m.anchor] # <<>> /\ Newest(store[m.anchor]) = m

\* admit_attestation_verifier_from_trust_anchor_v1: observe, then admit.
AdmitVerifier(m) ==
  LET a == m.anchor
      head == Append(store[a], m)
  IN  /\ Observes(m)
      /\ store' = [store EXCEPT ![a] =
                     IF @ # <<>> /\ Newest(@) = m THEN @ ELSE head]
      /\ admission' = [admission EXCEPT ![a] = {[manifest |-> m, epoch |-> trustEpoch]}]
      /\ highest' = [highest EXCEPT ![a] =
                       IF \E h \in @ : h.generation >= m.generation THEN @ ELSE {m}]
      /\ UNCHANGED <<trustEpoch, buildVars, witnessVars, uses>>

\* A complete older snapshot of the store is restored, or (to the empty
\* history) a process-local state is lost with its process.
RestoreSnapshot(a) ==
  /\ \E n \in 0..(Len(store[a]) - 1) :
       store' = [store EXCEPT ![a] = SubSeq(@, 1, n)]
  /\ UNCHANGED <<trustEpoch, admission, highest, buildVars, witnessVars, uses>>

-----------------------------------------------------------------------------
(* Attested builds.                                                        *)

AdmissionHolds(d) ==
  /\ ManifestLive(d.manifest)
  /\ CurrentBinding(d.manifest)
  /\ d.epoch = trustEpoch

WithinAnchor(e) ==
  /\ e.observed < e.expires
  /\ e.manifest.from <= e.observed
  /\ e.observed < e.manifest.before
  /\ e.expires <= e.manifest.before

EvidenceLive(e) ==
  WithinAnchor(e) /\ e.observed <= trustEpoch /\ trustEpoch < e.expires

\* The evidence e with one more attestation over it.
Attested(e, stage) ==
  [manifest |-> e.manifest, root |-> e.root, observed |-> e.observed,
   expires |-> e.expires, stage |-> stage]

VerifyRemote(b, life) ==
  /\ \E d \in admission[Profile[b].anchor] :
       LET e == [manifest |-> d.manifest, root |-> Profile[b].root, stage |-> "remote",
                 observed |-> trustEpoch, expires |-> trustEpoch + life]
       IN  /\ AdmissionHolds(d)
           /\ RootAllowed(d.manifest, e.root)
           /\ EvidenceLive(e)
           /\ evidence' = [evidence EXCEPT ![b] = {e}]
  /\ UNCHANGED <<trustEpoch, anchorVars, receipt, witnessVars, uses>>

\* The attestation is checked at the evidence's own epoch, not the current one.
AttestEnvironment(b) ==
  /\ \E e \in evidence[b] :
       /\ e.stage = "remote"
       /\ WithinAnchor(e)
       /\ CurrentBinding(e.manifest)
       /\ evidence' = [evidence EXCEPT ![b] = {Attested(e, "environment")}]
  /\ UNCHANGED <<trustEpoch, anchorVars, receipt, witnessVars, uses>>

AttestObservation(b) ==
  /\ \E e \in evidence[b] :
       /\ e.stage = "environment"
       /\ EvidenceLive(e)
       /\ CurrentBinding(e.manifest)
       /\ evidence' = [evidence EXCEPT ![b] = {Attested(e, "observation")}]
  /\ UNCHANGED <<trustEpoch, anchorVars, receipt, witnessVars, uses>>

Independent(a, b, policy) ==
  /\ a # b
  /\ Profile[a].environment # Profile[b].environment
  /\ policy => Profile[a].root # Profile[b].root

\* VerifierReproducibleBuildReceiptV1.assert_authenticated.
ReceiptHolds(r) ==
  /\ Independent(r.a, r.b, r.policy)
  /\ Profile[r.a].artifact = Profile[r.b].artifact
  /\ \A e \in r.evidence : EvidenceLive(e) /\ CurrentBinding(e.manifest)

SealReproducible(a, b, policy) ==
  /\ \E ea \in evidence[a], eb \in evidence[b] :
       LET r == [a |-> a, b |-> b, policy |-> policy,
                 evidence |-> {ea, eb}, admitted |-> FALSE]
       IN  /\ ea.stage = "observation" /\ eb.stage = "observation"
           /\ ReceiptHolds(r)
           /\ receipt' = {r}
  /\ UNCHANGED <<trustEpoch, anchorVars, evidence, witnessVars, uses>>

AdmitReproducible ==
  /\ \E r \in receipt :
       /\ ReceiptHolds(r)
       /\ Profile[r.a].artifact = AbiArtifact
       /\ AbiToolchain \in {Profile[r.a].toolchain, Profile[r.b].toolchain}
       /\ receipt' = {[a |-> r.a, b |-> r.b, policy |-> r.policy,
                       evidence |-> r.evidence, admitted |-> TRUE]}
  /\ UNCHANGED <<trustEpoch, anchorVars, evidence, witnessVars, uses>>

-----------------------------------------------------------------------------
(* The external witness.                                                   *)

\* External: the anchor's operator lets the witness remember the local head.
RegisterWithWitness(a) ==
  /\ store[a] # <<>>
  /\ \A w \in witness[a] : w.generation < Newest(store[a]).generation
  /\ witness' = [witness EXCEPT ![a] = {Newest(store[a])}]
  /\ UNCHANGED <<trustEpoch, anchorVars, buildVars, challenge, answer, confirmed, uses>>

Fresh(at) == at <= trustEpoch /\ trustEpoch < at + WitnessLife

\* Fresh random bytes: a nonce no earlier challenge had.
IssueChallenge(a) ==
  LET nonce == IF challenge[a] = {} THEN 1
               ELSE (CHOOSE c \in challenge[a] : TRUE).nonce + 1
      c == [nonce |-> nonce, issued |-> trustEpoch, floor |-> witness[a]]
  IN  /\ nonce <= MaxChallenges
      /\ challenge' = [challenge EXCEPT ![a] = {c}]
      /\ UNCHANGED <<trustEpoch, anchorVars, buildVars, witness, answer, confirmed, uses>>

VerifyWitness(a) ==
  /\ \E c \in challenge[a], w \in witness[a] :
       /\ Fresh(c.issued)
       /\ answer' = [answer EXCEPT ![a] =
                       {[manifest |-> w, observed |-> trustEpoch, challenge |-> c]}]
  /\ UNCHANGED <<trustEpoch, anchorVars, buildVars, witness, challenge, confirmed, uses>>

Answers(n, c) == Fresh(n.observed) /\ n.challenge = c

WitnessAgrees(n, m) == n.manifest = m

ConfirmState(a) ==
  /\ \E c \in challenge[a], n \in answer[a] :
       /\ Fresh(c.issued)
       /\ Answers(n, c)
       /\ CurrentBinding(n.manifest)
       /\ confirmed' = [confirmed EXCEPT ![a] =
                          {[answer |-> n, epoch |-> trustEpoch, floor |-> c.floor]}]
  /\ UNCHANGED <<trustEpoch, anchorVars, buildVars, witness, challenge, answer, uses>>

-----------------------------------------------------------------------------
(* Use.                                                                    *)

\* assert_current_binding of a local state, or of a kept witness-confirmed
\* one: its witness receipt is judged at the epoch of its construction.
StateBinds(kind, m) ==
  /\ CurrentBinding(m)
  /\ kind = "witnessed" =>
       \E k \in confirmed[m.anchor] :
         /\ WitnessAgrees(k.answer, m)
         /\ k.answer.observed <= k.epoch /\ k.epoch < k.answer.observed + WitnessLife

ReproducibilityCurrent(r, kind) ==
  /\ r.policy => Profile[r.a].root # Profile[r.b].root
  /\ \A e \in r.evidence : EvidenceLive(e) /\ StateBinds(kind, e.manifest)

\* verify_provider_native_finality_v1, the trust half.
NativeVerify(kind) ==
  /\ \E r \in receipt : r.admitted /\ ReproducibilityCurrent(r, kind)
  /\ uses' = uses \cup {kind}
  /\ UNCHANGED <<trustEpoch, anchorVars, buildVars, witnessVars>>

Tick ==
  /\ trustEpoch < MaxTrustEpoch
  /\ trustEpoch' = trustEpoch + 1
  /\ uses' = {}
  /\ UNCHANGED <<anchorVars, buildVars, witnessVars>>

-----------------------------------------------------------------------------

TrustInit ==
  /\ trustEpoch = 0
  /\ store = [a \in Anchors |-> <<>>]
  /\ admission = [a \in Anchors |-> {}] /\ highest = [a \in Anchors |-> {}]
  /\ evidence = [b \in Builders |-> {}]
  /\ receipt = {} /\ uses = {}
  /\ witness = [a \in Anchors |-> {}] /\ challenge = [a \in Anchors |-> {}]
  /\ answer = [a \in Anchors |-> {}] /\ confirmed = [a \in Anchors |-> {}]

TrustNext ==
  \/ \E m \in Sealed : AdmitVerifier(m)
  \/ \E a \in Anchors : RestoreSnapshot(a)
  \/ \E b \in Builders, life \in Lifetimes : VerifyRemote(b, life)
  \/ \E b \in Builders : AttestEnvironment(b)
  \/ \E b \in Builders : AttestObservation(b)
  \/ \E p \in Pairs : SealReproducible(p.a, p.b, p.policy)
  \/ AdmitReproducible
  \/ \E a \in Anchors : RegisterWithWitness(a)
  \/ \E a \in Anchors : IssueChallenge(a)
  \/ \E a \in Anchors : VerifyWitness(a)
  \/ \E a \in Anchors : ConfirmState(a)
  \/ \E kind \in {"local", "witnessed"} : NativeVerify(kind)
  \/ Tick

TrustSpec == TrustInit /\ [][TrustNext]_trustVars

-----------------------------------------------------------------------------
(* Properties.                                                             *)

\* Whenever the provider verifier is used, and the generation state has not
\* been rolled back, the newest manifest ever observed of each anchor is live,
\* has not revoked its verifier and still allows the trust root of each of
\* the two builders, which are different builders in different environments
\* and, under the distinct-root policy, under different roots: nothing a
\* caller kept from an earlier epoch or generation brings a retired root back.
RetiredRootsStayOut ==
  \A r \in receipt : r.admitted /\ ReproducibilityCurrent(r, "local") =>
    /\ r.a # r.b
    /\ Profile[r.a].environment # Profile[r.b].environment
    /\ r.policy => Profile[r.a].root # Profile[r.b].root
    /\ \A e \in r.evidence : \A h \in highest[e.manifest.anchor] :
         (\E i \in DOMAIN store[e.manifest.anchor] : store[e.manifest.anchor][i] = h) =>
           /\ h.from <= trustEpoch /\ trustEpoch < h.before /\ ~h.revoked
           /\ e.root \in h.allowed \ h.revokedRoots
           /\ trustEpoch < e.expires

\* A use that the witness confirmed never rests on a generation older than
\* the one the witness remembered when the runtime issued the challenge, also
\* when the local store was restored from an older snapshot meanwhile.
WitnessCatchesRollback ==
  \A r \in receipt : r.admitted /\ ReproducibilityCurrent(r, "witnessed") =>
    \A e \in r.evidence : \A k \in confirmed[e.manifest.anchor] :
      \A f \in k.floor : f.generation <= e.manifest.generation

\* Both: no kept receipt and no restored store lets the provider verifier be used
\* under trust that was withdrawn (assert_reproducibility_current_v1).
UsedUnderNewestTrust == RetiredRootsStayOut /\ WitnessCatchesRollback
=============================================================================

-------------------------- MODULE GalaxyExecution --------------------------
(***************************************************************************)
(* The strong execution gate of critical effects:                          *)
(* enforce_galaxy_critical_effect of koschei/galaxy_execution_gate_v1.py,  *)
(* reached directly or through a one-shot materialization handle           *)
(* (koschei/canonical_materialization_handle_v1.py).                       *)
(*                                                                         *)
(* The gate composes three durable stores, each its own SQLite database:   *)
(* the Black Hole (dead Aevras), the Matrix horizon (the current Hara of   *)
(* an Aevra and the tombstoned Haras) and the execution coordinator.  It   *)
(* reads the first two, one SELECT at a time, and only then enters the     *)
(* call that claims: deaths and horizon transitions come in between.       *)
(***************************************************************************)
EXTENDS SathraExecution

CONSTANTS
  Aevra,         \* Aevra identities
  AevraOf,       \* the Aevra whose Sathra binds a request
  Hara,          \* sealed Hara identities ...
  HaraAevra,     \* ... with their Aevra,
  HaraMatrix,    \* Matrix
  HaraEpoch,     \* and epoch
  NoHara,        \* no head row
  Handle,        \* materialization handles (a fresh random id each)
  HandleRequest  \* the request a handle is bound to

ASSUME GalaxyAssumption ==
  /\ AevraOf \in [Request -> Aevra]
  /\ HaraAevra \in [Hara -> Aevra]
  /\ HaraEpoch \in [Hara -> Nat]
  /\ NoHara \notin Hara
  /\ HandleRequest \in [Handle -> Request]

VARIABLES
  morth,      \* the Aevras with a row in morth_aevra
  horizon,    \* matrix_hara_heads: the current Hara of each Aevra
  haraTombs,  \* matrix_hara_tombstones
  minted,     \* the handles given out so far
  registry,   \* the handles the registry still holds (process memory)
  crossings,  \* history: how often each handle was resolved
  gate,       \* where each worker is in the gate's checks
  gateReq,    \* the request at the gate
  admission,  \* the Hara of the admission that is presented
  headRead    \* what the first SELECT of require_current returned

storeVars == <<morth, horizon, haraTombs>>
handleVars == <<minted, registry, crossings>>
gateVars == <<gate, gateReq, admission, headRead>>
galaxyVars == <<vars, storeVars, handleVars, gateVars>>

GateTypeOK ==
  /\ morth \subseteq Aevra
  /\ horizon \in [Aevra -> Hara \cup {NoHara}]
  /\ haraTombs \subseteq Hara
  /\ minted \subseteq Handle
  /\ registry \subseteq minted
  /\ crossings \in [Handle -> Nat]
  /\ gate \in [Worker -> {"off", "living", "head", "tomb"}]
  /\ gateReq \in [Worker -> Request \cup {NoRequest}]
  /\ admission \in [Worker -> Hara \cup {NoHara}]
  /\ headRead \in [Worker -> Hara \cup {NoHara}]
  /\ \A w \in Worker : gate[w] # "off" =>
       /\ pc[w] = "idle"
       /\ gateReq[w] \in Request
       /\ admission[w] \in Hara

GalaxyTypeOK == TypeOK /\ GateTypeOK

GalaxyInit ==
  /\ Init
  /\ morth = {}
  /\ horizon = [a \in Aevra |-> NoHara]
  /\ haraTombs = {}
  /\ minted = {}
  /\ registry = {}
  /\ crossings = [k \in Handle |-> 0]
  /\ gate = [w \in Worker |-> "off"]
  /\ gateReq = [w \in Worker |-> NoRequest]
  /\ admission = [w \in Worker |-> NoHara]
  /\ headRead = [w \in Worker |-> NoHara]

-----------------------------------------------------------------------------
(* The Black Hole and the Matrix horizon.                                  *)

\* The primary key of morth_aevra admits one record per Aevra.
EnterEventHorizon(a) ==
  /\ a \notin morth
  /\ morth' = morth \cup {a}
  /\ UNCHANGED <<horizon, haraTombs>>

InitializeHorizon(h) ==
  /\ horizon[HaraAevra[h]] = NoHara
  /\ horizon' = [horizon EXCEPT ![HaraAevra[h]] = h]
  /\ UNCHANGED <<morth, haraTombs>>

\* Mutant of Advance: any later epoch instead of exactly the next, and the
\* head is not compared with previous.
AdvanceUnfenced(previous, successor) ==
  /\ HaraAevra[previous] = HaraAevra[successor]
  /\ previous # successor
  /\ HaraMatrix[previous] # HaraMatrix[successor]
  /\ horizon[HaraAevra[previous]] # NoHara
  /\ previous \notin haraTombs
  /\ haraTombs' = haraTombs \cup {previous}
  /\ horizon' = [horizon EXCEPT ![HaraAevra[previous]] = successor]
  /\ UNCHANGED morth

Advance(previous, successor) ==
  /\ HaraAevra[previous] = HaraAevra[successor]
  /\ previous # successor
  /\ HaraMatrix[previous] # HaraMatrix[successor]
  /\ HaraEpoch[successor] = HaraEpoch[previous] + 1
  /\ horizon[HaraAevra[previous]] = previous
  /\ previous \notin haraTombs
  /\ haraTombs' = haraTombs \cup {previous}
  /\ horizon' = [horizon EXCEPT ![HaraAevra[previous]] = successor]
  /\ UNCHANGED morth

-----------------------------------------------------------------------------
(* The gate.                                                               *)

Idle(w) == pc[w] = "idle" /\ gate[w] = "off"

Present(w, r, h) ==
  /\ gateReq' = [gateReq EXCEPT ![w] = r]
  /\ admission' = [admission EXCEPT ![w] = h]
  /\ gate' = [gate EXCEPT ![w] = "living"]
  /\ UNCHANGED headRead

\* enforce_galaxy_critical_effect is called with sealed arguments: an
\* admission of another Aevra is refused before any store is read.
EnterGate(w, r, h) ==
  /\ Idle(w)
  /\ HaraAevra[h] = AevraOf[r]
  /\ Present(w, r, h)
  /\ UNCHANGED handleVars

Mint(k) ==
  /\ k \notin minted
  /\ minted' = minted \cup {k}
  /\ registry' = registry \cup {k}
  /\ UNCHANGED crossings

\* CanonicalMaterializationEffectGateV1.execute: resolve the handle, which
\* deletes its entry under the registry lock, then call the gate.  current is
\* what the continuity reader returned.
Materialize(w, k, h, current) ==
  /\ Idle(w)
  /\ k \in registry
  /\ EpochOf[HandleRequest[k]] = current
  /\ HaraAevra[h] = AevraOf[HandleRequest[k]]
  /\ registry' = registry \ {k}
  /\ crossings' = [crossings EXCEPT ![k] = @ + 1]
  /\ Present(w, HandleRequest[k], h)
  /\ UNCHANGED minted

GateTo(w, label) ==
  /\ gate' = [gate EXCEPT ![w] = label]
  /\ UNCHANGED <<gateReq, admission>>

LeaveGate(w) ==
  /\ gate' = [gate EXCEPT ![w] = "off"]
  /\ gateReq' = [gateReq EXCEPT ![w] = NoRequest]
  /\ admission' = [admission EXCEPT ![w] = NoHara]
  /\ headRead' = [headRead EXCEPT ![w] = NoHara]

\* Mutant of RequireLiving: the answer of the Black Hole is ignored.
SkipLiving(w) ==
  /\ gate[w] = "living"
  /\ GateTo(w, "head")
  /\ UNCHANGED headRead

\* black_hole.require_living
RequireLiving(w) ==
  /\ gate[w] = "living"
  /\ AevraOf[gateReq[w]] \notin morth
  /\ GateTo(w, "head")
  /\ UNCHANGED headRead

\* require_current, first SELECT: the head row of the Aevra.
ReadHead(w) ==
  LET head == horizon[AevraOf[gateReq[w]]] IN
  /\ gate[w] = "head"
  /\ head # NoHara
  /\ headRead' = [headRead EXCEPT ![w] = head]
  /\ GateTo(w, "tomb")

\* require_current, second SELECT, and the comparisons that follow.
HaraAccepted(w) ==
  /\ admission[w] \notin haraTombs
  /\ headRead[w] = admission[w]
  /\ HaraEpoch[admission[w]] = EpochOf[gateReq[w]]

\* A check fails, or the worker dies: the call is over and nothing is written.
\* A handle that was resolved on the way in stays consumed.
QuitGate(w) == gate[w] # "off" /\ LeaveGate(w)

\* Mutant of PassGate: the admission's epoch is not compared.
PassAnyEpoch(w, d) ==
  /\ gate[w] = "tomb"
  /\ admission[w] \notin haraTombs
  /\ headRead[w] = admission[w]
  /\ Bind(w, gateReq[w], d)
  /\ LeaveGate(w)

\* All checks passed: enforce_atomic_sathra_bound_effect is entered.
PassGate(w, d) ==
  /\ gate[w] = "tomb"
  /\ HaraAccepted(w)
  /\ Bind(w, gateReq[w], d)
  /\ LeaveGate(w)

\* The process restarts: the registry was its memory.
Restart ==
  /\ \A w \in Worker : Idle(w)
  /\ registry # {}
  /\ registry' = {}
  /\ UNCHANGED <<minted, crossings>>

\* Steps of the two stores, of the registry, of a worker at the gate, and of
\* the execution boundary behind it.
StoreStep ==
  /\ \/ \E a \in Aevra : EnterEventHorizon(a)
     \/ \E h \in Hara : InitializeHorizon(h)
     \/ \E previous, successor \in Hara : Advance(previous, successor)
  /\ UNCHANGED <<vars, handleVars, gateVars>>

RegistryStep ==
  /\ (\E k \in Handle : Mint(k)) \/ Restart
  /\ UNCHANGED <<vars, storeVars, gateVars>>

EntryStep(w) ==
  /\ \E h \in Hara :
       \/ \E r \in Request : EnterGate(w, r, h)
       \/ \E k \in Handle, current \in 0 .. MaxEpoch :
            Materialize(w, k, h, current)
  /\ UNCHANGED <<vars, storeVars>>

CheckStep(w) ==
  /\ RequireLiving(w) \/ ReadHead(w) \/ QuitGate(w)
  /\ UNCHANGED <<vars, storeVars, handleVars>>

PassStep(w) ==
  /\ \E d \in Decisions : PassGate(w, d)
  /\ UNCHANGED <<storeVars, handleVars>>

BoundaryStep ==
  /\ \/ Governance /\ UNCHANGED workerVars
     \/ \E w \in Worker : WorkerStep(w) \/ Abandon(w)
  /\ UNCHANGED <<storeVars, handleVars, gateVars>>

GalaxyNext ==
  \/ StoreStep
  \/ RegistryStep
  \/ \E w \in Worker : EntryStep(w) \/ CheckStep(w) \/ PassStep(w)
  \/ BoundaryStep

GalaxySpec == GalaxyInit /\ [][GalaxyNext]_galaxyVars

-----------------------------------------------------------------------------
\* The epoch of the current Hara of an Aevra, -1 before initialize.
HorizonEpoch ==
  [a \in Aevra |-> IF horizon[a] = NoHara THEN -1 ELSE HaraEpoch[horizon[a]]]

\* A Hara that became stale cannot return: every tombstoned Hara belongs to an
\* epoch before the current one of its Aevra, although advance looks only at
\* the tombstone of the Hara it leaves.
StaleHaraStaysBehind ==
  /\ \A a \in Aevra : horizon[a] # NoHara => HaraAevra[horizon[a]] = a
  /\ \A h \in haraTombs : HaraEpoch[h] < HorizonEpoch[HaraAevra[h]]

\* A request is claimed only when its Aevra has reached the request's epoch:
\* the check is made before the claim and in another database, and holds at
\* the claim because the horizon only moves forward.
ClaimWithinHorizon ==
  \A r \in Request :
    claims[r] # "none" => EpochOf[r] <= HorizonEpoch[AevraOf[r]]

\* What a worker has read stays a lower bound of the horizon: the Hara it saw
\* as head, and the epoch of the request it carries past the gate.  With it
\* ClaimWithinHorizon is inductive.
GateReads ==
  \A w \in Worker :
    /\ gate[w] # "off" => HaraAevra[admission[w]] = AevraOf[gateReq[w]]
    /\ gate[w] = "tomb" =>
         /\ headRead[w] # NoHara
         /\ HaraEpoch[headRead[w]] <= HorizonEpoch[AevraOf[gateReq[w]]]
    /\ pc[w] # "idle" => EpochOf[req[w]] <= HorizonEpoch[AevraOf[req[w]]]

\* A materialization handle crosses the boundary at most once, whatever the
\* later verdict of the gate, and one that crossed is gone from the registry.
HandleIsOneShot ==
  \A k \in Handle : crossings[k] <= (IF k \in minted \ registry THEN 1 ELSE 0)

\* No call that the Black Hole has let through is still on its way to a claim
\* of r.
NoneInFlight(r) ==
  \A w \in Worker :
    /\ ~(gate[w] \in {"head", "tomb"} /\ gateReq[w] = r)
    /\ ~(pc[w] = "bound" /\ req[w] = r)

\* Once an Aevra is Morth and its calls in flight are over, no request of it
\* is ever claimed and no call of it passes the Black Hole again.
MorthIsFinal ==
  [][\A r \in Request :
       AevraOf[r] \in morth /\ NoneInFlight(r)
         => /\ AevraOf[r] \in morth'
            /\ NoneInFlight(r)'
            /\ claims[r] = "none" => claims'[r] = "none"]_galaxyVars

\* What the Galaxy Constitution says of a dead Aevra: it is rejected before
\* critical execution, so no claim is made for it.
MorthNeverClaims ==
  [][\A r \in Request :
       claims[r] = "none" /\ claims'[r] = "CLAIMED"
         => AevraOf[r] \notin morth]_galaxyVars
=============================================================================

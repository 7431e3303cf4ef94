------------------------ MODULE ExecutionCoordinator ------------------------
(***************************************************************************)
(* The durable execution boundary of privileged effects:                   *)
(* AtomicExecutionCoordinator of                                           *)
(* koschei/native_sigil_atomic_execution_coordinator_v1.py, one SQLite     *)
(* database shared by every process that opens it.  Each operation is one  *)
(* BEGIN IMMEDIATE transaction, so it is one action here; an operation     *)
(* that raises rolls back and changes nothing.                             *)
(*                                                                         *)
(* The three tables are heads (execution_epoch_heads), tombstones          *)
(* (execution_epoch_tombstones) and claims (execution_claims).  Digests    *)
(* are abstracted to the identity of what they seal.                       *)
(***************************************************************************)
EXTENDS Integers

CONSTANTS
  Plan,      \* activation-plan digests
  Request,   \* digests of sealed CanonicalEffectRequests
  PlanOf,    \* the activation plan a request is sealed to
  EpochOf,   \* the epoch a request is sealed to
  MaxEpoch   \* bound on the epochs of requests and receipts

ASSUME RequestAssumption ==
  /\ PlanOf \in [Request -> Plan]
  /\ MaxEpoch \in Nat
  /\ EpochOf \in [Request -> 0 .. MaxEpoch]

VARIABLES heads, tombstones, claims

\* A row of execution_epoch_heads; epoch 0 (CHECK(current_epoch >= 1) keeps
\* it out of the table) stands for a plan that has no row yet.
HeadRow == [epoch : Nat, frozen : BOOLEAN]
NoRow == [epoch |-> 0, frozen |-> FALSE]

FinalStates == {"COMMITTED", "REJECTED", "CONTAINED", "UNCERTAIN"}
ClaimStates == {"none", "CLAIMED"} \cup FinalStates

CoordinatorTypeOK ==
  /\ heads \in [Plan -> HeadRow]
  /\ tombstones \subseteq Plan \X Nat
  /\ claims \in [Request -> ClaimStates]

CoordinatorInit ==
  /\ heads = [p \in Plan |-> NoRow]
  /\ tombstones = {}
  /\ claims = [r \in Request |-> "none"]

-----------------------------------------------------------------------------
\* initialize: INSERT of the head row; a second one is an IntegrityError.
Initialize(p, e) ==
  /\ heads[p].epoch = 0
  /\ e >= 1
  /\ heads' = [heads EXCEPT ![p] = [epoch |-> e, frozen |-> FALSE]]
  /\ UNCHANGED <<tombstones, claims>>

\* Mutants of ClaimAdmissible: the claim as an INSERT OR REPLACE, and a claim
\* that checks the epoch only.
ReclaimAdmissible(r) ==
  LET p == PlanOf[r] IN
  /\ heads[p].epoch # 0
  /\ ~heads[p].frozen
  /\ EpochOf[r] = heads[p].epoch
  /\ <<p, EpochOf[r]>> \notin tombstones

EpochOnlyAdmissible(r) ==
  /\ heads[PlanOf[r]].epoch # 0
  /\ EpochOf[r] = heads[PlanOf[r]].epoch
  /\ claims[r] = "none"

\* The checks of atomic_claim, made inside its transaction; the last is the
\* primary key of execution_claims.
ClaimAdmissible(r) ==
  LET p == PlanOf[r] IN
  /\ heads[p].epoch # 0
  /\ ~heads[p].frozen
  /\ EpochOf[r] = heads[p].epoch
  /\ <<p, EpochOf[r]>> \notin tombstones
  /\ claims[r] = "none"

AtomicClaim(r) ==
  /\ ClaimAdmissible(r)
  /\ claims' = [claims EXCEPT ![r] = "CLAIMED"]
  /\ UNCHANGED <<heads, tombstones>>

\* finalize_claim neither looks at the head nor at the tombstones: a claim
\* taken before containment may still be settled after it.
FinalizeClaim(r, state) ==
  /\ state \in FinalStates
  /\ claims[r] = "CLAIMED"
  /\ claims' = [claims EXCEPT ![r] = state]
  /\ UNCHANGED <<heads, tombstones>>

\* apply_nuclear_containment with a receipt for epoch e: tombstone and freeze
\* in one transaction (the tombstone's primary key must be free).
ApplyNuclearContainment(p, e) ==
  /\ heads[p].epoch # 0
  /\ heads[p].epoch = e
  /\ ~heads[p].frozen
  /\ <<p, e>> \notin tombstones
  /\ tombstones' = tombstones \cup {<<p, e>>}
  /\ heads' = [heads EXCEPT ![p] = [epoch |-> e, frozen |-> TRUE]]
  /\ UNCHANGED claims

\* advance_rebirth with a receipt from epoch e to epoch e + 1.
AdvanceRebirth(p, e) ==
  /\ heads[p].epoch # 0
  /\ heads[p].epoch = e
  /\ heads[p].frozen
  /\ <<p, e>> \in tombstones
  /\ heads' = [heads EXCEPT ![p] = [epoch |-> e + 1, frozen |-> FALSE]]
  /\ UNCHANGED <<tombstones, claims>>

\* A receipt can be sealed for any epoch (initial_universe_state takes the
\* epoch as an argument) and kept, so every receipt may arrive at any time,
\* again, and out of order.
Governance ==
  \E p \in Plan, e \in 1 .. MaxEpoch :
    \/ Initialize(p, e)
    \/ ApplyNuclearContainment(p, e)
    \/ e < MaxEpoch /\ AdvanceRebirth(p, e)
=============================================================================

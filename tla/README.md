# A verification of Koschei

Koschei is a language and a runtime in which a *privileged effect* (anything that leaves
the process with authority) passes a chain of stores and sealed objects: who may act, in
which epoch, for which request, on what evidence, and whether it was already done. Around
that core are the storage of projects, the recovery of a compromised library, the
accounting of a host, and the compiler with its two executors. Processes race, retry and
die between any two steps. This directory models those parts in TLA+, model-checks them
with TLC and proves their main properties with TLAPS.

Source paths are relative to `src/koschei/`. `PROJECT.json` maps every definition to the
lines it stands for, lists every part of the system, modelled or not, and the hazards
each property is about.

## 1. Parts and modules

Execution of effects

| Module | Code | State and actions |
|---|---|---|
| `ExecutionCoordinator` | `native_sigil_atomic_execution_coordinator_v1.py` | the three tables (epoch heads, tombstones, claims); each method is one transaction and one action. Epoch 0 is a missing head row. Receipts are sealed values anybody may keep, so every receipt is offered at any time |
| `SathraExecution` | `sathra_request_binding_v1.py` | workers inside `enforce_atomic_sathra_bound_effect`: bind, claim, run, finalize, with death at every step |
| `GalaxyExecution` | `galaxy_execution_gate_v1.py`, `morth_black_hole_v1.py`, `matrix_horizon_fence_v1.py`, `canonical_materialization_handle_v1.py` | the gate's reads of two other databases before the claim, one action each; the writers of both; one-shot handles |
| `OneShotAuthority` | abstract | a ticket is admitted once, while its authority is live; its effect follows once; a lost authority does not come back |
| `AuthorizationStore` | `authorization_transition_v1.py`, `durable_authorization_store_v1.py`, `durable_effect_execution_v1.py` | a state seals its predecessor, so a state *is* its history; administrators commit by compare-and-swap from copies of any age; executors claim under the head |
| `BootstrapEffects` | the in-memory authorization path and its delegation chains | verification of a chain and its use are separate steps; a callback may re-enter |
| `ReplayLedger` | the in-memory and the SQLite replay ledger | claim, callback, finalization, recovery after a crash |
| `SigilWorld` | native sigils, their interactions, obligations, receipts, proof bundles, request binding, delegation | every object is its contents; callers may present any object they hold |
| `ExecutionEvidence` | the chain from a grant over evidence, decision, permit and effect receipt to a finality envelope | as above; a history of the callbacks that ran |
| `TrustAnchors` | trust-anchor generations, attested builds, reproducibility receipts, verifier admission and use, the monotonic witness | kept objects from earlier epochs, a store restored from an older snapshot, a witness outside |

Universe and storage

| Module | Code | State and actions |
|---|---|---|
| `UniverseLifecycle` | `universe_state_machine_v1.py`, containment, rebirth | the functions are pure, so every holder has its own copy, which may be taken over or restart |
| `AuthorityRevocation`, `EpochFence` | the two durable stores beside it | revocations and tokens; the ladder of epochs and its tombstones |
| `NativeReality`, `ObjectSpace` | projects with an envelope, object spaces with a root | every file operation is a step; a power loss drops what was not synced |
| `BoundedPersistence` | `bounded_persistence_v1.py` | commit and load system call by system call, under racing processes |
| `NativeCache` | `workspace_cache.py` | builders of one cache key, rollbacks that fail themselves |
| `WorkspaceBuild` | the workspace build | lock, index, analysis cache, target and sidecar through one build |
| `AliasRotation` | the two-phase rename of epoch aliases | a plan of moves, faults at every rename, rollback |

Library, host and language

| Module | Code | State and actions |
|---|---|---|
| `RecoveryJournal` | recovery transactions, journal, replica quorum | writers that crash and reopen; checkpoints derived from a quorum |
| `RecoveryWriters` | leases, permits, exactly-once effects, attestation | stale copies of the fence, retries under an old permit |
| `LibraryContainment` | trust graph, blast radius, merge, closure | every graph of a given edge space |
| `RunnerAccounting` | `runner_durable_budget.py`, `runner_accounting.py`, `runner_billing.py` | cents and milliseconds with the code's two roundings |
| `BoundedQueue`, `BoundedFifo` | `bounded_queue.py` | the ring buffer statement by statement; the abstract queue it implements |
| `KsInterpreter`, `MirLowering`, `MirExecutor` | the tree interpreter, `mir_ir.py`, the MIR executor | the meaning of a program, its lowering, and one step per instruction |
| `AffineResources` | `affine_resources_v1.py` | the checker of a body, and all executions of that body |

Composition: `GalaxyExecution` extends `SathraExecution`, which extends
`ExecutionCoordinator`; the Universe stores extend the lifecycle; `MirExecutor` extends
the interpreter and the lowering and compares the two. `SathraExecution` and
`AuthorizationStore` implement `OneShotAuthority`; `GalaxyExecution` implements
`SathraExecution`; `BoundedQueue` implements `BoundedFifo`.

## 2. Runs

Components that share no state are checked side by side in one run: the variable `part`
selects the component a behaviour exercises, the others stay in an initial state.
Nothing is gained or lost by that except fewer runs.

| Run | Parts and bounds | Distinct states |
|---|---|---|
| `execution` | gate: 1 plan, 1 Aevra, 2 Haras of epochs 1 and 2, 2 workers, 2 requests; handle: the same with 1 request and 1 handle; store: 1 subject, 3 constraint sets, 2 permits, 2 administrators, 2 executors, epochs up to 3 | 198,215 |
| `universe` | life, revoke, fence: 2 holders, 2 sigils, 3 epochs (tokens from 2, transitions of the genesis sigil beside the two stores), one TOKEN row; reality: a graph of two objects or one object with two texts, 2 writers, 3 attempts; space: 2 objects and one inert cell, 3 epochs; sigil: 5 programs, 3 ways to fail, 5 states of the receipts; trust: 2 generations, 3 epochs; witness: one epoch, 2 challenges; chain: 2 grants, 3 requests, 2 epochs, 2 generations | 278,401 |
| `files` | commit: 2 processes, 3 commits; cache: 2 builders, 2 outputs, 2 failures, 1 death; build: 2 builds, 2 versions; alias: 2 objects, plans that rename, chain and swap, an occupied alias, 3 faults | 82,833 |
| `host` | runner: 2 tenants, 3 runs, 4 durations; replay: 3 callers, 2 requests, 3 proofs; effects: 5 delegation links, 3 permits, 3 epochs; library: every graph over 4 edges, 2 scenarios; journal: 3 replicas, quorum 2, 1 writer that reopens, 2 steps; writers: 2 writers, 2 epochs, 1 key, 2 operations; queue: 3 threads, 2 slots | 162,059 |
| `language` | mir: programs and loops of two statements from a list that uses each construct, functions with and without a return type, 150 steps, call depth 4, integers -3..3; affine: every body of up to three statements, one of them compound, from a list that uses each construct, loops run up to twice | 182,453 |

The seven `violation` runs are in section 4.

What they show, part by part:

* *gate, handle*: an effect runs at most once (`AtMostOnceEffect`), the claim row tells whether
  it ran (`RecordTellsEffect`), nothing is claimed in a dead epoch (`DeadEpochStaysClosed`),
  beyond the horizon (`ClaimWithinHorizon`) or for a Morth Aevra without calls in flight
  (`MorthIsFinal`), and a stale Hara stays behind the horizon (`StaleHaraStaysBehind`);
  `KeepsOneShotPromise` is the refinement.
* *store*: the journal is the path to the head (`JournalIsHistory`), a claim is lawful and
  made once (`ClaimsAreLawful`, `AtMostOncePerPermit`), and a later head shuts out every
  earlier permit (`OldPermitsStayOut`).
* *universe*: `KilledEpochStaysDead`, `FenceIsALadder`, `NoResurrection`;
  `RealityIsAtomic` and `SpaceIsAtomic`: what a load finds after any kill or power loss is
  one whole epoch, no epoch is won twice, an epoch handed out stays.
* *files*: `ConfirmedSurvives`, `ResultsAgree`, `BuiltFromLock`,
  `SidecarDescribesTarget`, `NothingLostUnlessUndone`, and `IncompleteResolves` of
  section 3. `ResultsAgree` is about histories without failures and deaths;
  `SidecarDescribesTarget` is about a target with a whole sidecar: a target that a dead
  build left without one stays, and the next build refuses it.
* *journal, writers, queue*: `CheckpointsAgree`, for a threshold above half of the
  replicas, which the code leaves to its caller; `OneEffectPerKey` and
  `OneWriterPerEpoch`, for a host that carries the committed records over and issues
  leases from one fence state; `IsBoundedFifo`. That a superseded writer is shut out is
  not among them: its old copy of the fence state still authorizes it.
* *runner, replay, effects, library*: `Conservation`, `SettledIsFinal`, `FinalityTellsEffect`, `CutsSeparate`,
  `RevocationBindsNextEpoch`.
* *sigil, trust, chain*: `EffectsAreLawful` (an effect runs only with a successful receipt for every
  obligation of its sigils and of their interactions; delegations only narrow),
  `UsedUnderNewestTrust`, `FinalityTellsOneEffect`.
* *mir*: `LoweringIsExhaustive`, `MirMeansSource`, `BudgetEndsEveryRun`.
* *affine*: what the checker accepts never uses a moved binding (`AcceptedIsAffine`), and
  what it refuses, leaving early exits aside, does (`RefusedIsMisused`).

Some of these hold only because a run leaves a behaviour out. What is left out, and what
TLC answers when it is let in:

| Left out of | Setting | With it |
|---|---|---|
| `universe` | `FsyncMayFail = FALSE`: the sync of the envelope's directory never fails | `RealityIsAtomic` is violated; run `reality_sync_failure` |
| `universe` | `RootSyncMayFail = FALSE`: the sync of the directory of an object space's root never fails after the rename | `SpaceIsAtomic` is violated in the same way (`object_space_adversarial_guard_v1.py:240-277`). No document speaks of that failure, so it is not a finding of its own |
| `files` | in `NothingLostUnlessUndone`: failures in plans that move an object to an alias another object is moved from | `NothingLost` is violated; run `alias_swap` |
| `files` | `LiveEdits = FALSE`: no edits of the sources while a build runs | `BuiltFromLock` is violated; run `live_edit` |
| `language` | `ConditionsMove = FALSE`: no move in a `while` condition | `AcceptedIsAffine` is violated; run `affine_loop_condition` |
| `language` | `BlocksYield = FALSE`: no affine value as the last expression of a handler or block arm | `AcceptedIsAffine` is violated; run `affine_block_value` |
| `language` | programs in which an operand follows one that is an Error | run `mir_eager_operands` |
| `language` | functions without a return type whose last statement has a value other than Unit, and `or return` in them | the interpreter gives a caller that value, MIR gives Unit (`mir_ir.py:229-230`, `runtime_alignment.py:349-363`); a failing `or return` is an error in MIR only. No document says which is meant |

Why the bounds suffice. Two workers, holders, writers or builders are what a race needs;
the queue has three threads so that one may wait while two exchange items. Two epochs
give a step on each side of a rebirth; the Universe has three so that a kept receipt can
be two epochs old. Two generations give a kept receipt from before the newest manifest.
Durations lie on both sides of a half cent and above a cent. Bounds that appear in
guards are constants named `Max...`; in the universe suite the parts *trust* (no witness,
several epochs) and *witness* (one epoch, long-lived evidence) restrict the same module
to the two dimensions that matter together. The theorems of section 5 hold for
every value of these bounds. Symmetry is taken over workers, holders, tenants, runs, administrators,
executors, replicas (as threads too) and operations, which no property tells apart, and
only in runs without liveness properties.

Deadlock is not checked in `host`, `universe`, `language` and the runs that share their
modules: there the system really ends (every run settled, every epoch used up, program
finished).

## 3. Fairness and liveness

`IncompleteResolves` (an incomplete cache entry is finished or removed by its creator
unless the creator dies or its rollback fails) assumes weak fairness of each *running*
builder: the operating system schedules it and its file operations return. Starting a
build, failures and deaths have no fairness. `BudgetEndsEveryRun` assumes weak fairness of the executor's only
step, that is, that the host keeps running it.

No other liveness is claimed: no code retries a refused claim, settles a CLAIMED row
of a dead worker or releases the hold of a dead runner.

## 4. Findings

* `reality_sync_failure`. `docs/NATIVE_REALITY_GRAPH_V1.md:170` says: "A failed reality
  switch leaves the previous epoch authoritative." `_replace_sealed_at`
  (`native_reality_v1.py:351`) renames the new envelope over the old one and then syncs the
  directory. When the sync raises, the rotation takes the switch for not done and removes
  the new files (property `FailedSwitchKeepsEpoch`; `native_reality_graph_epoch_v1.py:216`), which the visible envelope
  names: neither epoch can be loaded, without any crash. `_transition_reality` has the
  same shape. The repository's test of a failed switch makes the whole call fail, before
  the rename. With an injected sync failure the Python code ends in the state of the trace.
* `alias_swap`. The docstring at `epoch_alias_rotation_v1.py:209` "permits A->B/B->A plans
  and prevents partial direct rename chains from overwriting another canonical object".
  The rollback moves objects straight back to their old aliases (line 246). When the
  second install of a swap fails, the second object is moved back over the first, which is
  lost, and the error says that the rotation was rolled back. An injected failure shows
  the same in the Python code. Plans derived by `rotate_graph_payload` do not swap, up to
  collisions of derived aliases.
* `galaxy_morth_race`. `KOSCHEI_GALAXY_CONSTITUTION_V1.md:129` says that a Morth Aevra
  "is rejected before critical Galaxy execution". The gate
  (`galaxy_execution_gate_v1.py:80`) asks the Black Hole first and claims later, in
  another database, without asking again: an Aevra that dies in between has its request
  claimed (`MorthNeverClaims`). `MorthIsFinal` is what holds: once the calls that were let through are over,
  none of its requests is ever claimed.
* `mir_eager_operands`. `KOSCHEI_MIR_BLOCK_VALUE_SEMANTICS_V1.md:36` says that error
  values "propagate exactly as source semantics define". A strict binary expression and a
  list literal lower all operands first (`mir_ir.py:470-504`), so effects of operands
  after an Error happen in MIR and not in the interpreter.
* `affine_loop_condition`. `docs/AFFINE_RESOURCES_V1.md:49` says that a move followed by
  use fails. The condition of a `while` is checked once, outside the repeating block
  (`affine_resources_v1.py:226`), so a call in it that takes a binding is accepted and
  takes it again in every round.
* `affine_block_value`. `docs/AFFINE_RESOURCES_V1.md:10` says: "A capability-bearing
  binding may have at most one live owner." An expression statement is checked as a borrow
  (`affine_resources_v1.py:214-218`), also where it is the value of an or-handler or of a
  block arm: after `let c = open() or { a }` the value has two owners, and `a` is accepted
  after `c` was handed over.
* `live_edit`. `docs/WORKSPACE_LOCK_INDEX.md:42` says that the source inventory "may cause
  extra work but cannot cause stale source to be accepted". The sources are compared with
  the index (`workspace_lock_index.py:171-173`) and read again for the analysis
  (`workspace_analysis_cache.py:113`); an edit in between is compiled, cached and published
  under the old lock. `BuiltFromLock` holds without edits during a build.

## 5. What is proved

The theorems hold for all values of the constants that satisfy the `ASSUME` of the
component (typing of constant functions, "no value" constants outside the sets they
extend, a quorum above half of a finite set of replicas, a positive capacity). TLC
evaluates each of these on its run. Most of the properties are not inductive by
themselves; what had to be added is named here. Hypotheses beyond the assumptions are
named with the theorem; section 2 says what happens without them.

* **ExecutionProofs.** *Boundary*: `Inductive`, with `TypeCorrect` and
  `FreezeMatchesTombstone` as parts. `AtMostOnce` and `RecordIsTruthful` need
  `ClaimOwnership` (a worker inside its claim owns the CLAIMED row alone), since the row
  does not say whether the effect has run. `DeadEpochClosed` and the refinement
  `BoundaryKeepsPromise` use it. *Gate*: `GalaxyImplementsBoundary` makes all of it hold
  behind the gate; `ClaimsWithinHorizon` needs `GateReads`, that what a worker has read
  stays a lower bound of the horizon; `StaleHaraNeverReturns`, `HandlesAreOneShot`,
  `MorthFinal`. *Queue*: `QueueIsFifo`, the refinement
  of `BoundedFifo` for any capacity and any threads. `QueueInv` says that the lock has one
  holder (`RingLockInv`) and how head, tail and count lag behind each other at each
  statement inside the lock (`IndexInv`).
* **AuthorizationStoreProofs.** Lawful heads, copies that are lawful states, journal =
  path to the head, lawful claims, `ExecutorHolds`. `LawfulAppend` (a transition takes a
  lawful history to a lawful one) and prefix lemmas carry it. The results are
  `AuthorityIsLawful`, `ClaimsLawful`, `JournalFaithful`, `AtMostOnce`, `HeadsOnlyExtend`,
  `OldPermitsOut`, `StoreKeepsPromise`.
* **UniverseProofs.** Every state of every holder is well formed (`UniversesCoherent`,
  `LifecycleTypeCorrect`); containment is left only by rebirth (`ContainmentIsTerminal`);
  killed epochs have their EPOCH row (`KilledStaysDead`); receipts held by
  anybody were earned (`ReceiptsAreEarned`) and contained epochs are recorded, hence
  `FenceLadder`, `TombstonesEarned` and `FenceClimbs`. `SpaceIsSafe`, under the hypothesis
  `~RootSyncMayFail`: `SpaceInv` relates the root on disk, the cells that are
  synced and the progress of the rotation at every file operation.
* **StorageProofs.** `CommitsSurvive`, with `CleanErrors`, `LoadsAreFresh` and
  `WholePayloads`: `PersistInv` orders the payloads by the moment of their rename and
  says which of them a power loss can bring back. `RealityIsSafe`, under the hypothesis
  `~FsyncMayFail`: with a failing sync of the envelope's directory *after* the rename, the
  handler removes the new files and the property does not hold.
* **FilesProofs.** *Cache*: `BuildersAgree`, `PublishedIsImmutable`, `FillersExclude`; the
  invariant says which builder fills the entry and that a published entry was never in
  another's hands. *Build*: `SidecarTruthful`; `ArtifactOfLock`, `CachesMatchLock` and
  `FreshNeverRefused` under `~LiveEdits`: with edits during a build the sources are read
  after the lock was verified. *Aliases*: `RotationKeepsObjects` for plans whose targets
  are not sources of other moves (`Derived`); each move then has its own three names, and
  the invariant says where its object is in each phase.
* **RecoveryProofs.** `ExactlyOnce` and `WriterOfEpoch`: leases, permits,
  effects and receipts carry a stamp (epoch, writer, checkpoint), and equal epochs mean
  equal stamps. `OneHistory`: two quorums share a replica, and what a replica stored was
  written by one transaction's journal.
* **HostProofs.** `ReservationsSuffice`: the half-up increase of any authorized duration
  fits the ceiling that was reserved, so the "charge exceeds reservation" branch is dead;
  `SettlementFinal`. `FinalityIsTrue`, `OncePerRequest`, `ResultStands`, `RecordsAreFinal`
  for the ledgers, from who is inside the callback of a claimed request.
  `ContainmentSeparates`, `MergeConservative`, `ClosureIsRevocation` for every graph.
  `RevocationBinds`, `PermitsAreSingleUse`, `EndedIsEnded`: a kept verification is of the
  epoch it was made in.
* **EvidenceProofs.** `FinalityIsOneEffect`: callbacks run under different permits
  (`RunInv`) and every sealed object links objects that exist (`IssuedInv`, `SealedInv`),
  so an envelope leads back to one callback. `TrustIsNewest`: the generations in a store
  increase also after a rollback (`HistoryInv`), roots were allowed by the manifest the
  evidence names (`VouchedInv`), and the witness only moves forward, so its answer is at
  least what it remembered when the challenge was issued (`FloorInv`).

## 6. What is only model-checked

* `Conservation`: a sum over a set of runs; that the sum changes by one term needs
  induction over the set.
* `EffectsAreLawful`: the steps of a plan are what `SelectSeq` keeps, and the ancestors of
  a grant a recursive function of its depth; both need induction over data.
* `LoweringIsExhaustive`, `MirMeansSource`, `ErrorsPropagateAsInSource`,
  `AcceptedIsAffine`, `RefusedIsMisused`: recursive operators over programs, which the
  prover's SMT backend does not take.
* `NothingLostUnlessUndone` for swaps and chains: the invariant of `RotationKeepsObjects`
  gives each move names of its own, which such plans share.
* `IncompleteResolves`, `BudgetEndsEveryRun`: liveness under fairness.

## 7. What is left out

Of the modelled parts: digests, MACs and signatures (an object is what it seals), tampered
rows, `SQLITE_BUSY` and I/O errors other than as a call that gives up. Containment in the
coordinator and revocation in the registry are composed by no code; a crash between the
two is a hazard of their callers. One rotation of aliases runs at a time, since nothing
in the code serializes two. The strings, maps' methods, generics and capabilities of the
language are not part of the interpreter's model.

Not modelled: structured tasks and the parallel map (sequential on both modelled
executors; their interleavings are those of generated Go code), variant proofs (a
data-flow check that changes nothing), recovery priority resolution and temporal access
handles (one pure function, one comparison), the front end, generated Go code, the WASI
runner and the gateways (process and socket I/O), the Universe projections, the order
book (an example program). `PROJECT.json` gives the reason for each.

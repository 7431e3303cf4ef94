----------------------------- MODULE ObjectSpace -----------------------------
(***************************************************************************)
(* koschei/object_space_v1.py with the hardening that replaces its         *)
(* rotation (object_space_adversarial_guard_v1.py, _redteam_round2_v1.py,  *)
(* _redteam_round3_v1.py): a sealed root k0 names opaque cells in k1; a    *)
(* rotation writes a new generation of cells and the next root, as one     *)
(* more cell, and renames that cell over k0.                               *)
(*                                                                         *)
(* A cell is named by its generation and the object it seals.  Seals and   *)
(* ownership checks hold.  The clock may leave the slot of a handle        *)
(* between any two calls, and a directory entry survives a power loss only *)
(* once its directory is synced.                                           *)
(***************************************************************************)
EXTENDS Naturals, FiniteSets

CONSTANTS
  SpaceObject,
  Pending,        \* the cell that holds the next root until the switch
  MaxObjects,     \* MAX_OBJECTS
  Reserve,        \* the inert cells admitted besides one stale generation
  MaxSpaceEpoch,
  MaxGen,         \* bound on creations and rotations tried
  RootSyncMayFail \* whether the sync of the directory of k0 may fail

\* _canonical_objects refuses a project of more than MAX_OBJECTS objects.
ASSUME SpaceAssumption ==
  /\ IsFiniteSet(SpaceObject) /\ Pending \notin SpaceObject
  /\ MaxObjects \in Nat /\ Cardinality(SpaceObject) <= MaxObjects
  /\ Reserve \in Nat \ {0}
  /\ MaxSpaceEpoch \in Nat \ {0} /\ MaxGen \in Nat
  /\ RootSyncMayFail \in BOOLEAN

VARIABLES
  spaceLayout,  \* whether k1 exists
  k0,           \* the root that a loader opens: [epoch, gen]
  roots,        \* the roots of which a power loss leaves one
  cells,        \* the entries of k1, and
  cellsDisk,    \* those that are on disk
  spaceLock,    \* whether a rotation, or the creation, is in progress
  phase,        \* it: where it is,
  gen,          \* the generation it writes,
  oldGen,       \* the one it replaces,
  resealed,     \* and the objects it has written
  gens,         \* generations started
  spaceTold,    \* history: the last epoch a caller was handed, and
  spaceWins,    \* how often a caller was handed an epoch
  spaceClean    \* history: nothing died and no removal failed so far

rotation == <<phase, gen, oldGen, resealed>>
spaceHistory == <<spaceTold, spaceWins, spaceClean>>
spaceVars ==
  <<spaceLayout, k0, roots, cells, cellsDisk, spaceLock, rotation, gens, spaceHistory>>

NoRoot == [epoch |-> 0, gen |-> 0]
CellsOf(g, objects) == {<<g, o>> : o \in objects}
Generation(g) == CellsOf(g, SpaceObject)
PendingCell(g) == <<g, Pending>>

RootRecord == [epoch : 0 .. MaxSpaceEpoch, gen : 0 .. MaxGen]
Phases == {"none", "cells", "root", "pending", "switch", "switched", "cleanup", "handle"}

SpaceTypeOK ==
  /\ spaceLayout \in BOOLEAN /\ spaceLock \in BOOLEAN /\ spaceClean \in BOOLEAN
  /\ k0 \in RootRecord /\ roots \subseteq RootRecord
  /\ cells \cup cellsDisk \subseteq (1 .. gens) \X (SpaceObject \cup {Pending})
  /\ phase \in Phases /\ (spaceLock <=> phase # "none")
  /\ gen \in 0 .. MaxGen /\ oldGen \in 0 .. MaxGen /\ resealed \subseteq SpaceObject
  /\ gens \in 0 .. MaxGen
  /\ spaceTold \in 0 .. MaxSpaceEpoch /\ spaceWins \in [1 .. MaxSpaceEpoch -> Nat]

\* MAX_PHYSICAL_CELLS_V1
MaxPhysical == MaxObjects + MaxObjects + Reserve

\* The bounded enumeration of k1.
Enumerable == Cardinality(cells) <= MaxPhysical

\* Every record of the root has its cell.
CellsPresent(root) == Generation(root.gen) \subseteq cells

SpaceLoadable(root) == Enumerable /\ CellsPresent(root)

SpaceInit ==
  /\ spaceLayout = FALSE
  /\ k0 = NoRoot /\ roots = {NoRoot}
  /\ cells = {} /\ cellsDisk = {}
  /\ spaceLock = FALSE
  /\ phase = "none" /\ gen = 0 /\ oldGen = 0 /\ resealed = {}
  /\ gens = 0
  /\ spaceTold = 0 /\ spaceWins = [e \in 1 .. MaxSpaceEpoch |-> 0] /\ spaceClean = TRUE

-----------------------------------------------------------------------------

StartGeneration ==
  /\ ~spaceLock /\ gens < MaxGen
  /\ spaceLock' = TRUE
  /\ gens' = gens + 1
  /\ phase' = "cells" /\ gen' = gens + 1 /\ oldGen' = k0.gen /\ resealed' = {}
  /\ UNCHANGED <<k0, roots, cells, cellsDisk, spaceHistory>>

EndRotation ==
  /\ spaceLock' = FALSE
  /\ phase' = "none" /\ gen' = 0 /\ oldGen' = 0 /\ resealed' = {}

\* create_object_space_project finds the destination empty.
CreateSpace ==
  /\ ~spaceLayout
  /\ spaceLayout' = TRUE
  /\ StartGeneration

\* The lock is taken, the handle of the epoch verified and the root of exactly
\* that epoch opened with all its cells.
BeginRotate(expected) ==
  /\ k0.epoch > 0 /\ expected = k0.epoch /\ expected < MaxSpaceEpoch
  /\ SpaceLoadable(k0)
  /\ StartGeneration
  /\ UNCHANGED spaceLayout

\* A resealed object under a fresh locator.
WriteCell(o) ==
  /\ phase = "cells" /\ o \in SpaceObject \ resealed
  /\ cells' = cells \cup {<<gen, o>>}
  /\ resealed' = resealed \cup {o}
  /\ UNCHANGED <<spaceLayout, k0, roots, cellsDisk, spaceLock, phase, gen, oldGen, gens,
                 spaceHistory>>

\* os.fsync(store_fd) of the new generation
SyncCells ==
  /\ phase = "cells" /\ resealed = SpaceObject
  /\ cellsDisk' = cells
  /\ phase' = IF oldGen = 0 THEN "switch" ELSE "root"
  /\ UNCHANGED <<spaceLayout, k0, roots, cells, spaceLock, gen, oldGen, resealed, gens,
                 spaceHistory>>

\* The next root is written as one more cell.
WritePending ==
  /\ phase = "root"
  /\ cells' = cells \cup {PendingCell(gen)}
  /\ phase' = "pending"
  /\ UNCHANGED <<spaceLayout, k0, roots, cellsDisk, spaceLock, gen, oldGen, resealed, gens,
                 spaceHistory>>

SyncPending ==
  /\ phase = "pending"
  /\ cellsDisk' = cells
  /\ phase' = "switch"
  /\ UNCHANGED <<spaceLayout, k0, roots, cells, spaceLock, gen, oldGen, resealed, gens,
                 spaceHistory>>

NextRoot == [epoch |-> k0.epoch + 1, gen |-> gen]

\* _commit_root_switch; a creation writes k0 itself.
SwitchRoot ==
  /\ phase = "switch"
  /\ k0' = NextRoot
  /\ roots' = roots \cup {NextRoot}
  /\ cells' = cells \ {PendingCell(gen)}
  /\ phase' = "switched"
  /\ UNCHANGED <<spaceLayout, cellsDisk, spaceLock, gen, oldGen, resealed, gens,
                 spaceHistory>>

\* Mutant of SyncRoot: the directory of k0 is left to the kernel.
SyncRootNot ==
  /\ phase = "switched"
  /\ phase' = "cleanup"
  /\ UNCHANGED <<spaceLayout, k0, roots, cells, cellsDisk, spaceLock, gen, oldGen,
                 resealed, gens, spaceHistory>>

\* os.fsync(root_fd)
SyncRoot ==
  /\ phase = "switched"
  /\ roots' = {k0}
  /\ phase' = "cleanup"
  /\ UNCHANGED <<spaceLayout, k0, cells, cellsDisk, spaceLock, gen, oldGen, resealed,
                 gens, spaceHistory>>

\* Best-effort removal: some cells may stay.
RemoveCells(gone, some) ==
  /\ some \subseteq gone
  /\ cells' = (cells \ gone) \cup some
  /\ spaceClean' = (spaceClean /\ some = {})

\* The cells of the epoch before are unlinked and k1 is synced.
CleanupCells(some) ==
  /\ phase = "cleanup"
  /\ RemoveCells(cells \cap Generation(oldGen), some)
  /\ cellsDisk' = cells'
  /\ phase' = "handle"
  /\ UNCHANGED <<spaceLayout, k0, roots, spaceLock, gen, oldGen, resealed, gens, spaceTold,
                 spaceWins>>

\* A handle of the new epoch is issued and the new root loaded with it.
HandOver ==
  /\ phase = "handle"
  /\ SpaceLoadable(k0)
  /\ spaceTold' = k0.epoch
  /\ spaceWins' = [spaceWins EXCEPT ![k0.epoch] = @ + 1]
  /\ EndRotation
  /\ UNCHANGED <<spaceLayout, k0, roots, cells, cellsDisk, gens, spaceClean>>

\* After the switch an operation fails, the slot of the fresh handle ends
\* before the load, or there are too many cells: the caller gets an error, the
\* new epoch stays.
FailAfter ==
  /\ phase \in {"cleanup", "handle"}
  /\ EndRotation
  /\ spaceClean' = (spaceClean /\ phase = "handle")
  /\ UNCHANGED <<spaceLayout, k0, roots, cells, cellsDisk, gens, spaceTold, spaceWins>>

\* The cells of the generation in progress.
WrittenCells == CellsOf(gen, resealed) \cup (cells \cap {PendingCell(gen)})

\* Before the switch an operation fails, or a directory was exchanged: what was
\* written is removed, by a creation k1 too.
RotationFails(some) ==
  /\ phase \in {"cells", "root", "pending", "switch"}
  /\ RemoveCells(WrittenCells, some)
  /\ cellsDisk' \in {cells', cellsDisk}
  /\ spaceLayout' = (k0.epoch > 0 \/ some # {})
  /\ EndRotation
  /\ UNCHANGED <<k0, roots, gens, spaceTold, spaceWins>>

\* The root was renamed, then the sync of its directory fails: the handler takes
\* the switch for not done and removes the new cells.  A creation unlinks its
\* root too, as far as it can.
RootSyncFails(some) ==
  /\ RootSyncMayFail
  /\ phase = "switched"
  /\ IF k0.epoch = 1
     THEN /\ k0' \in {NoRoot, k0}
          /\ spaceLayout' = (k0' # NoRoot \/ some # {})
     ELSE UNCHANGED <<k0, spaceLayout>>
  /\ roots' = roots \cup {k0'}
  /\ RemoveCells(WrittenCells, some)
  /\ cellsDisk' \in {cells', cellsDisk}
  /\ EndRotation
  /\ UNCHANGED <<gens, spaceTold, spaceWins>>

-----------------------------------------------------------------------------

KillRotation ==
  /\ spaceLock
  /\ EndRotation
  /\ spaceClean' = FALSE
  /\ UNCHANGED <<spaceLayout, k0, roots, cells, cellsDisk, gens, spaceTold, spaceWins>>

\* What was not synced may be lost; the rename of the root cell happened as a
\* whole or not at all.
SpacePowerLoss(root, lost) ==
  /\ roots # {k0} \/ cells # cellsDisk
  /\ root \in roots
  /\ lost \subseteq (cells \ cellsDisk) \cup (cellsDisk \ cells)
  /\ LET m == (cells \cup cellsDisk) \ lost
     IN /\ PendingCell(root.gen) \notin m
        /\ cells' = m /\ cellsDisk' = m
  /\ k0' = root /\ roots' = {root}
  /\ spaceLayout' \in {TRUE} \cup (IF cells' = {} /\ root = NoRoot THEN {FALSE} ELSE {})
  /\ EndRotation
  /\ spaceClean' = FALSE
  /\ UNCHANGED <<gens, spaceTold, spaceWins>>

SpaceNext ==
  \/ CreateSpace
  \/ \E e \in 1 .. MaxSpaceEpoch : BeginRotate(e)
  \/ \E o \in SpaceObject : WriteCell(o)
  \/ SyncCells \/ WritePending \/ SyncPending \/ SwitchRoot \/ SyncRoot \/ HandOver
  \/ \E some \in SUBSET cells :
       CleanupCells(some) \/ RotationFails(some) \/ RootSyncFails(some)
  \/ FailAfter \/ KillRotation
  \/ \E root \in roots, lost \in SUBSET ((cells \ cellsDisk) \cup (cellsDisk \ cells)) :
       SpacePowerLoss(root, lost)

SpaceSpec == SpaceInit /\ [][SpaceNext]_spaceVars

-----------------------------------------------------------------------------
(* Properties.                                                             *)

\* At every moment, also in the middle of a rotation and after a power loss,
\* the root on disk names cells that are there.
RootHasItsCells == k0.epoch > 0 => CellsPresent(k0)

\* A rotation whose handle was returned is not undone by a later power loss.
HandedEpochStays == k0.epoch >= spaceTold

\* "epoch rotation is serialized": no epoch is handed out by two rotations.
OneRotationPerEpoch == \A e \in 1 .. MaxSpaceEpoch : spaceWins[e] <= 1

\* "a pending root capsule is removed on every pre-switch failure", and the old
\* generation after a rotation: without a death or a failed unlink k1 holds
\* exactly the cells of the root between two rotations.
NoInertCells ==
  spaceClean /\ ~spaceLock => cells = IF k0.epoch = 0 THEN {} ELSE Generation(k0.gen)

\* "The loader must remain available in that state even at MAX_OBJECTS scale":
\* with the cells of one interrupted rotation left behind, the enumeration of
\* k1 stays within its budget.
OneStaleGenerationAdmitted ==
  \A g \in 0 .. MaxGen :
    ~spaceLock /\ {c[1] : c \in cells} \subseteq {k0.gen, g} => Enumerable

\* The promise of a rotation of an object space: it happens as a whole, for one
\* caller, for good, and leaves the space loadable and clean.  It holds as long as
\* the sync of the directory of k0 does not fail (RootSyncMayFail FALSE): after
\* such a failure the new root is in place and its cells are removed.
SpaceIsAtomic ==
  /\ RootHasItsCells /\ HandedEpochStays /\ OneRotationPerEpoch
  /\ NoInertCells /\ OneStaleGenerationAdmitted

=============================================================================

--------------------------- MODULE UniverseProofs ---------------------------
(***************************************************************************)
(* The universe's authority, for every plan (with or without ka), every    *)
(* number of holders and every bound on epochs, and its object space, for  *)
(* any number of objects and rotations.                                    *)
(*                                                                         *)
(* Lifecycle: the argument is by value.  Each pure function takes a        *)
(* well-formed state to a well-formed state, and a step changes the state  *)
(* of one holder to the value of one of these functions.  Revocation: the  *)
(* registry only grows.  Epoch fence: the fence trusts receipts, so the    *)
(* invariant follows each receipt back to the contained state it was       *)
(* issued for.  Object space: the invariant follows every root that a      *)
(* power loss may leave, not just the one a loader would open now.         *)
(***************************************************************************)
EXTENDS AuthorityRevocation, EpochFence, ObjectSpace, FiniteSetTheorems, TLAPS

(* The object space.                                                       *)

EarlyPhases == {"cells", "root", "pending", "switch"}
LatePhases == {"switched", "cleanup", "handle"}

CurrentCells == IF k0.epoch = 0 THEN {} ELSE Generation(k0.gen)

\* Any root that a power loss may leave has its cells, before and after the
\* loss, and is not older than what a caller was handed.
RootsHold ==
  /\ k0 \in roots
  /\ \A r \in roots :
       /\ r.epoch <= k0.epoch /\ r.gen <= gens
       /\ r.epoch > 0 => Generation(r.gen) \subseteq cells \cap cellsDisk
       /\ r.epoch >= spaceTold

SpaceWinsHold ==
  \A e \in 1 .. MaxSpaceEpoch :
    /\ spaceWins[e] <= 1
    /\ spaceWins[e] = 1 => \A r \in roots : e <= r.epoch

\* How far a rotation is shows in k1 and in the roots.
RotationHolds ==
  /\ ~spaceLayout => k0.epoch = 0
  /\ phase # "none" => gen = gens /\ spaceLayout
  /\ phase \in EarlyPhases =>
       /\ \A r \in roots : r.gen < gen
       /\ oldGen = k0.gen /\ k0.epoch < MaxSpaceEpoch
       /\ CellsOf(gen, resealed) \subseteq cells
  /\ phase \in EarlyPhases \ {"cells"} => resealed = SpaceObject
  /\ phase \in {"root", "pending"} => Generation(gen) \subseteq cellsDisk
  /\ phase = "switch" => cellsDisk = cells
  /\ phase \in LatePhases =>
       /\ k0.gen = gen /\ oldGen < gen /\ k0.epoch > 0
       /\ spaceWins[k0.epoch] = 0
  /\ phase \in {"cleanup", "handle"} => roots = {k0}
  /\ PendingCell(k0.gen) \notin cells

\* While nothing died, k1 holds nothing but what it should.
CellsHold ==
  spaceClean =>
    /\ phase \in {"none", "handle"} => cells = CurrentCells
    /\ phase \in EarlyPhases => cells = CurrentCells \cup WrittenCells
    /\ phase \in {"switched", "cleanup"} => cells \subseteq Generation(gen) \cup Generation(oldGen)

SpaceInv == SpaceTypeOK /\ RootsHold /\ SpaceWinsHold /\ RotationHolds /\ CellsHold

\* The cells of a generation: told apart by the generation and from the cell of
\* a root.
LEMMA CellsApart ==
  /\ \A g, h, v, w : g # h => CellsOf(g, v) \cap CellsOf(h, w) = {}
  /\ \A g, h, w : w \subseteq SpaceObject => PendingCell(h) \notin CellsOf(g, w)
  /\ \A g, h, o : o \in SpaceObject => PendingCell(h) # <<g, o>>
  /\ \A g, h : g # h => PendingCell(h) # PendingCell(g)
BY SpaceAssumption DEF CellsOf, PendingCell

LEMMA CellsAdd ==
  ASSUME NEW g, NEW w, NEW o
  PROVE  /\ CellsOf(g, {}) = {}
         /\ CellsOf(g, w \cup {o}) = CellsOf(g, w) \cup {<<g, o>>}
BY Zenon DEF CellsOf

\* The numbers of the roots.
LEMMA RootTypes ==
  ASSUME SpaceInv
  PROVE  /\ \A r \in roots : r.epoch \in 0 .. MaxSpaceEpoch /\ r.gen \in 0 .. MaxGen
         /\ k0.epoch \in 0 .. MaxSpaceEpoch /\ k0.gen \in 0 .. MaxGen
         /\ gen \in Nat /\ oldGen \in Nat /\ gens \in Nat /\ k0 \in roots
         /\ k0.gen <= gens
BY SpaceAssumption DEF SpaceInv, SpaceTypeOK, RootRecord, RootsHold

\* The type of the cells, by the names of the cells.
LEMMA CellsTyped ==
  ASSUME NEW n \in Nat, NEW g \in 1 .. n
  PROVE  /\ PendingCell(g) \in (1 .. n) \X (SpaceObject \cup {Pending})
         /\ \A o \in SpaceObject : <<g, o>> \in (1 .. n) \X (SpaceObject \cup {Pending})
BY Zenon DEF PendingCell

LEMMA CellsGrow ==
  ASSUME NEW n \in Nat
  PROVE  (1 .. n) \X (SpaceObject \cup {Pending})
           \subseteq (1 .. (n + 1)) \X (SpaceObject \cup {Pending})
OBVIOUS

LEMMA SpaceStartKeeps ==
  ASSUME SpaceInv, StartGeneration, spaceLayout' = TRUE, k0.epoch < MaxSpaceEpoch
  PROVE  SpaceInv'
<1> USE SpaceAssumption DEF StartGeneration, spaceHistory
<1>1. gens + 1 \in 0 .. MaxGen /\ phase = "none" /\ gens \in Nat
  BY DEF SpaceInv, SpaceTypeOK
<1>2. SpaceTypeOK'
  BY Zenon, <1>1, RootTypes, CellsGrow DEF SpaceInv, SpaceTypeOK, Phases
<1>3. RootsHold'
  BY <1>1, RootTypes DEF SpaceInv, RootsHold
<1>4. SpaceWinsHold'
  BY Zenon DEF SpaceInv, SpaceWinsHold
<1>5. RotationHolds'
  <2>1. \A r \in roots : r.gen < gens + 1
    BY <1>1, RootTypes DEF SpaceInv, RootsHold
  <2>2. CellsOf(gens + 1, {}) = {}
    BY Zenon, CellsAdd
  <2> QED
    BY Zenon, <1>1, <2>1, <2>2 DEF SpaceInv, RotationHolds, EarlyPhases, LatePhases
<1>6. CellsHold'
  <2>1. PendingCell(gens + 1) \notin cells
    BY <1>1 DEF SpaceInv, SpaceTypeOK, PendingCell
  <2>2. WrittenCells' = {}
    BY Zenon, <2>1, CellsAdd DEF WrittenCells, PendingCell
  <2>3. CurrentCells' = CurrentCells
    BY Zenon DEF CurrentCells
  <2> QED
    BY Zenon, <1>1, <2>2, <2>3 DEF SpaceInv, CellsHold, EarlyPhases
<1> QED
  BY Zenon, <1>2, <1>3, <1>4, <1>5, <1>6 DEF SpaceInv

LEMMA WriteCellKeeps ==
  ASSUME SpaceInv, NEW o \in SpaceObject, WriteCell(o)
  PROVE  SpaceInv'
<1> USE DEF WriteCell, spaceHistory
<1>1. CellsOf(gen, resealed \cup {o}) = CellsOf(gen, resealed) \cup {<<gen, o>>}
  BY Zenon, CellsAdd
<1>2. gen = gens /\ phase = "cells" /\ gen \in 1 .. gens
  BY RootTypes DEF SpaceInv, RotationHolds, EarlyPhases
<1>3. PendingCell(gen) # <<gen, o>> /\ PendingCell(k0.gen) # <<gen, o>>
  BY Zenon, CellsApart
<1>4. SpaceTypeOK'
  <2>1. <<gen, o>> \in (1 .. gens) \X (SpaceObject \cup {Pending})
    BY Zenon, <1>2, RootTypes, CellsTyped
  <2> QED
    BY Zenon, <2>1 DEF SpaceInv, SpaceTypeOK
<1>5. RootsHold'
  BY Zenon DEF SpaceInv, RootsHold
<1>6. SpaceWinsHold'
  BY Zenon DEF SpaceInv, SpaceWinsHold
<1>7. RotationHolds'
  BY Zenon, <1>1, <1>2, <1>3 DEF SpaceInv, RotationHolds, EarlyPhases, LatePhases
<1>8. CellsHold'
  <2>1. WrittenCells' = WrittenCells \cup {<<gen, o>>}
    BY Zenon, <1>1, <1>3 DEF WrittenCells
  <2>2. CurrentCells' = CurrentCells
    BY Zenon DEF CurrentCells
  <2> QED
    BY Zenon, <1>2, <2>1, <2>2 DEF SpaceInv, CellsHold, EarlyPhases
<1> QED
  BY Zenon, <1>4, <1>5, <1>6, <1>7, <1>8 DEF SpaceInv

LEMMA SyncCellsKeeps ==
  ASSUME SpaceInv, SyncCells
  PROVE  SpaceInv'
<1> USE DEF SyncCells, spaceHistory
<1>1. phase = "cells" /\ phase' \in {"switch", "root"}
  BY Zenon
<1>2. SpaceTypeOK'
  BY Zenon, <1>1 DEF SpaceInv, SpaceTypeOK, Phases
<1>3. RootsHold'
  BY Zenon DEF SpaceInv, RootsHold
<1>4. SpaceWinsHold'
  BY Zenon DEF SpaceInv, SpaceWinsHold
<1>5. RotationHolds'
  BY Zenon, <1>1 DEF SpaceInv, RotationHolds, EarlyPhases, LatePhases, Generation
<1>6. CellsHold'
  BY Zenon, <1>1 DEF SpaceInv, CellsHold, EarlyPhases, CurrentCells, WrittenCells
<1> QED
  BY Zenon, <1>2, <1>3, <1>4, <1>5, <1>6 DEF SpaceInv

LEMMA WritePendingKeeps ==
  ASSUME SpaceInv, WritePending
  PROVE  SpaceInv'
<1> USE DEF WritePending, spaceHistory
<1>1. gen = gens /\ phase = "root" /\ gen \in 1 .. gens /\ k0.gen < gen
  BY RootTypes DEF SpaceInv, RotationHolds, EarlyPhases
<1>2. PendingCell(k0.gen) # PendingCell(gen)
  BY <1>1, RootTypes, CellsApart
<1>3. SpaceTypeOK'
  <2>1. PendingCell(gen) \in (1 .. gens) \X (SpaceObject \cup {Pending})
    BY Zenon, <1>1, RootTypes, CellsTyped
  <2> QED
    BY Zenon, <2>1 DEF SpaceInv, SpaceTypeOK, Phases
<1>4. RootsHold'
  BY Zenon DEF SpaceInv, RootsHold
<1>5. SpaceWinsHold'
  BY Zenon DEF SpaceInv, SpaceWinsHold
<1>6. RotationHolds'
  BY Zenon, <1>1, <1>2 DEF SpaceInv, RotationHolds, EarlyPhases, LatePhases
<1>7. CellsHold'
  BY Zenon, <1>1 DEF SpaceInv, CellsHold, EarlyPhases, CurrentCells, WrittenCells
<1> QED
  BY Zenon, <1>3, <1>4, <1>5, <1>6, <1>7 DEF SpaceInv

LEMMA SyncPendingKeeps ==
  ASSUME SpaceInv, SyncPending
  PROVE  SpaceInv'
<1> USE DEF SyncPending, spaceHistory
<1>1. SpaceTypeOK'
  BY Zenon DEF SpaceInv, SpaceTypeOK, Phases
<1>2. RootsHold'
  BY Zenon DEF SpaceInv, RootsHold
<1>3. SpaceWinsHold'
  BY Zenon DEF SpaceInv, SpaceWinsHold
<1>4. RotationHolds'
  BY Zenon DEF SpaceInv, RotationHolds, EarlyPhases, LatePhases
<1>5. CellsHold'
  BY Zenon DEF SpaceInv, CellsHold, EarlyPhases, CurrentCells, WrittenCells
<1> QED
  BY Zenon, <1>1, <1>2, <1>3, <1>4, <1>5 DEF SpaceInv

LEMMA SwitchRootKeeps ==
  ASSUME SpaceInv, SwitchRoot
  PROVE  SpaceInv'
<1> USE DEF SwitchRoot, spaceHistory
<1>1. NextRoot.epoch = k0.epoch + 1 /\ NextRoot.gen = gen
  BY Zenon DEF NextRoot
<1>2. /\ gen = gens /\ phase = "switch" /\ resealed = SpaceObject /\ spaceLayout
      /\ oldGen = k0.gen /\ cellsDisk = cells /\ Generation(gen) \subseteq cells
      /\ k0.epoch < MaxSpaceEpoch
      /\ \A r \in roots : r.gen < gen
  BY Zenon DEF SpaceInv, RotationHolds, EarlyPhases, Generation
<1>3. NextRoot \in RootRecord
  BY <1>2, SpaceAssumption, RootTypes DEF SpaceInv, SpaceTypeOK, RootRecord, NextRoot
<1>4. \A g : PendingCell(gen) \notin Generation(g)
  BY Zenon, CellsApart DEF Generation
<1> HIDE DEF NextRoot
<1>5. SpaceTypeOK'
  BY Zenon, <1>3 DEF SpaceInv, SpaceTypeOK, Phases
<1>6. RootsHold'
  <2>1. SUFFICES ASSUME NEW r \in roots \cup {NextRoot}
                 PROVE  /\ r.epoch <= NextRoot.epoch /\ r.gen <= gens
                        /\ r.epoch > 0 =>
                             Generation(r.gen) \subseteq (cells \ {PendingCell(gen)}) \cap cellsDisk
                        /\ r.epoch >= spaceTold
    BY Zenon DEF RootsHold
  <2>2. CASE r \in roots
    BY <2>2, <1>1, <1>4, RootTypes, SpaceAssumption DEF SpaceInv, RootsHold
  <2>3. CASE r = NextRoot
    <3>1. k0.epoch >= spaceTold /\ spaceTold \in Nat /\ k0.epoch \in Nat
      BY RootTypes, SpaceAssumption DEF SpaceInv, SpaceTypeOK, RootsHold
    <3> QED
      BY <2>3, <3>1, <1>1, <1>2, <1>4, RootTypes
  <2> QED
    BY Zenon, <2>1, <2>2, <2>3
<1>7. SpaceWinsHold' /\ spaceWins[k0.epoch + 1] = 0
  <2>1. k0.epoch + 1 \in 1 .. MaxSpaceEpoch
    BY <1>2, RootTypes, SpaceAssumption
  <2>2. spaceWins[k0.epoch + 1] \in Nat
    BY Zenon, <2>1 DEF SpaceInv, SpaceTypeOK
  <2>3. spaceWins[k0.epoch + 1] # 1
    BY <2>1, RootTypes, SpaceAssumption DEF SpaceInv, SpaceWinsHold
  <2> QED
    BY <1>1, <2>1, <2>2, <2>3, RootTypes, SpaceAssumption DEF SpaceInv, SpaceWinsHold
<1>8. RotationHolds'
  BY <1>1, <1>2, <1>7, RootTypes DEF SpaceInv, RotationHolds, EarlyPhases, LatePhases
<1>9. CellsHold'
  <2>1. WrittenCells \subseteq Generation(gen) \cup {PendingCell(gen)}
    BY Zenon, <1>2 DEF WrittenCells, Generation
  <2>2. CurrentCells \subseteq Generation(oldGen)
    BY Zenon, <1>2 DEF CurrentCells
  <2> QED
    BY Zenon, <1>2, <2>1, <2>2 DEF SpaceInv, CellsHold, EarlyPhases
<1> QED
  BY Zenon, <1>5, <1>6, <1>7, <1>8, <1>9 DEF SpaceInv

LEMMA SyncRootKeeps ==
  ASSUME SpaceInv, SyncRoot
  PROVE  SpaceInv'
<1> USE DEF SyncRoot, spaceHistory
<1>1. SpaceTypeOK'
  BY Zenon DEF SpaceInv, SpaceTypeOK, Phases
<1>2. RootsHold'
  BY Zenon DEF SpaceInv, RootsHold
<1>3. SpaceWinsHold'
  BY Zenon DEF SpaceInv, SpaceWinsHold, RootsHold
<1>4. RotationHolds'
  BY Zenon DEF SpaceInv, RotationHolds, EarlyPhases, LatePhases
<1>5. CellsHold'
  BY Zenon DEF SpaceInv, CellsHold, EarlyPhases
<1> QED
  BY Zenon, <1>1, <1>2, <1>3, <1>4, <1>5 DEF SpaceInv

LEMMA CleanupCellsKeeps ==
  ASSUME SpaceInv, NEW some \in SUBSET cells, CleanupCells(some)
  PROVE  SpaceInv'
<1> USE DEF CleanupCells, RemoveCells
<1>1. /\ phase = "cleanup" /\ k0.gen = gen /\ oldGen < gen /\ roots = {k0} /\ k0.epoch > 0
      /\ Generation(gen) \subseteq cells
  BY Zenon DEF SpaceInv, RotationHolds, LatePhases, RootsHold
<1>2. Generation(gen) \cap Generation(oldGen) = {}
  BY <1>1, RootTypes, CellsApart DEF Generation
<1>3. cells' \subseteq cells /\ Generation(gen) \subseteq cells'
  BY Zenon, <1>1, <1>2
<1>4. SpaceTypeOK'
  <2>1. spaceClean' \in BOOLEAN
    BY Zenon
  <2> QED
    BY Zenon, <1>3, <2>1 DEF SpaceInv, SpaceTypeOK, Phases
<1>5. RootsHold'
  BY Zenon, <1>1, <1>3 DEF SpaceInv, RootsHold
<1>6. SpaceWinsHold'
  BY Zenon DEF SpaceInv, SpaceWinsHold
<1>7. RotationHolds'
  BY Zenon, <1>1, <1>3 DEF SpaceInv, RotationHolds, EarlyPhases, LatePhases
<1>8. CellsHold'
  <2>1. SUFFICES ASSUME spaceClean, some = {}
                 PROVE  cells' = Generation(gen)
    <3>1. CurrentCells' = Generation(gen)
      BY <1>1, RootTypes DEF CurrentCells
    <3>2. spaceClean' => spaceClean /\ some = {}
      BY Zenon
    <3>3. phase' = "handle"
      BY Zenon
    <3> QED
      BY Zenon, <3>1, <3>2, <3>3 DEF CellsHold, EarlyPhases
  <2>2. cells \subseteq Generation(gen) \cup Generation(oldGen)
    BY Zenon, <1>1, <2>1 DEF SpaceInv, CellsHold
  <2> QED
    BY Zenon, <1>1, <1>2, <2>1, <2>2
<1> QED
  BY Zenon, <1>4, <1>5, <1>6, <1>7, <1>8 DEF SpaceInv

\* A rotation that ends leaves well-typed variables behind.
LEMMA EndRotationTypes ==
  ASSUME SpaceInv, EndRotation, spaceClean' \in BOOLEAN, spaceLayout' \in BOOLEAN,
         k0' \in roots, roots' \subseteq roots, cells' \cup cellsDisk' \subseteq cells \cup cellsDisk,
         gens' = gens, spaceTold' \in 0 .. MaxSpaceEpoch,
         spaceWins' \in [1 .. MaxSpaceEpoch -> Nat]
  PROVE  SpaceTypeOK'
<1>1. phase' \in Phases /\ (spaceLock' <=> phase' # "none") /\ spaceLock' \in BOOLEAN
  BY Zenon DEF EndRotation, Phases
<1>2. gen' \in 0 .. MaxGen /\ oldGen' \in 0 .. MaxGen /\ resealed' \subseteq SpaceObject
  BY SpaceAssumption DEF EndRotation
<1>3. k0' \in RootRecord /\ roots' \subseteq RootRecord /\ gens' \in 0 .. MaxGen
  BY Zenon DEF SpaceInv, SpaceTypeOK
<1>4. cells' \cup cellsDisk' \subseteq (1 .. gens') \X (SpaceObject \cup {Pending})
  <2> DEFINE all == (1 .. gens) \X (SpaceObject \cup {Pending})
  <2>1. cells \cup cellsDisk \subseteq all
    BY Zenon DEF SpaceInv, SpaceTypeOK
  <2> HIDE DEF all
  <2>2. cells' \cup cellsDisk' \subseteq all
    BY Zenon, <2>1
  <2> QED
    BY Zenon, <2>2 DEF all
<1> QED
  BY Zenon, <1>1, <1>2, <1>3, <1>4 DEF SpaceTypeOK

LEMMA HandOverKeeps ==
  ASSUME SpaceInv, HandOver
  PROVE  SpaceInv'
<1> USE DEF HandOver
<1>1. /\ phase = "handle" /\ k0.gen = gen /\ roots = {k0} /\ k0.epoch > 0
      /\ spaceWins[k0.epoch] = 0
  BY Zenon DEF SpaceInv, RotationHolds, LatePhases
<1>2. k0.epoch \in 1 .. MaxSpaceEpoch
  BY <1>1, RootTypes, SpaceAssumption
<1>3. spaceWins \in [1 .. MaxSpaceEpoch -> Nat]
  BY Zenon DEF SpaceInv, SpaceTypeOK
<1>4. SpaceTypeOK'
  BY <1>1, <1>2, <1>3, EndRotationTypes, RootTypes DEF SpaceInv, SpaceTypeOK
<1>5. RootsHold'
  BY Zenon, <1>1, <1>2 DEF SpaceInv, RootsHold
<1>6. SpaceWinsHold'
  BY <1>1, <1>2, <1>3 DEF SpaceInv, SpaceWinsHold
<1>7. RotationHolds'
  BY Zenon, <1>1 DEF SpaceInv, RotationHolds, EarlyPhases, LatePhases, EndRotation
<1>8. CellsHold'
  BY Zenon, <1>1 DEF SpaceInv, CellsHold, EarlyPhases, CurrentCells, EndRotation
<1> QED
  BY Zenon, <1>4, <1>5, <1>6, <1>7, <1>8 DEF SpaceInv

LEMMA FailAfterKeeps ==
  ASSUME SpaceInv, FailAfter
  PROVE  SpaceInv'
<1> USE DEF FailAfter
<1>1. spaceClean' \in BOOLEAN
  BY Zenon
<1>2. SpaceTypeOK'
  BY Zenon, <1>1, EndRotationTypes, RootTypes DEF SpaceInv, SpaceTypeOK
<1>3. RootsHold'
  BY Zenon DEF SpaceInv, RootsHold
<1>4. SpaceWinsHold'
  BY Zenon DEF SpaceInv, SpaceWinsHold
<1>5. RotationHolds'
  BY Zenon DEF SpaceInv, RotationHolds, EarlyPhases, LatePhases, EndRotation
<1>6. CellsHold'
  BY Zenon DEF SpaceInv, CellsHold, EarlyPhases, CurrentCells, EndRotation
<1> QED
  BY Zenon, <1>2, <1>3, <1>4, <1>5, <1>6 DEF SpaceInv

LEMMA KillRotationKeeps ==
  ASSUME SpaceInv, KillRotation
  PROVE  SpaceInv'
<1> USE DEF KillRotation
<1>1. SpaceTypeOK'
  BY Zenon, EndRotationTypes, RootTypes DEF SpaceInv, SpaceTypeOK
<1>2. RootsHold'
  BY Zenon DEF SpaceInv, RootsHold
<1>3. SpaceWinsHold'
  BY Zenon DEF SpaceInv, SpaceWinsHold
<1>4. RotationHolds'
  BY Zenon DEF SpaceInv, RotationHolds, EarlyPhases, LatePhases, EndRotation
<1>5. CellsHold'
  BY Zenon DEF CellsHold
<1> QED
  BY Zenon, <1>1, <1>2, <1>3, <1>4, <1>5 DEF SpaceInv

LEMMA RotationFailsKeeps ==
  ASSUME SpaceInv, NEW some \in SUBSET cells, RotationFails(some)
  PROVE  SpaceInv'
<1> USE DEF RotationFails, RemoveCells
<1>1. phase \in EarlyPhases /\ \A r \in roots : r.gen < gen
  BY Zenon DEF SpaceInv, RotationHolds, EarlyPhases
<1>2. \A r \in roots : Generation(r.gen) \cap WrittenCells = {}
  <2>1. SUFFICES ASSUME NEW r \in roots
                 PROVE  Generation(r.gen) \cap WrittenCells = {}
    BY Zenon
  <2>2. r.gen # gen
    BY <1>1, RootTypes
  <2>3. Generation(r.gen) \cap CellsOf(gen, resealed) = {}
    BY Zenon, <2>2, CellsApart DEF Generation
  <2>4. PendingCell(gen) \notin Generation(r.gen)
    BY Zenon, CellsApart DEF Generation
  <2> QED
    BY Zenon, <2>3, <2>4 DEF WrittenCells
<1>3. cells' \subseteq cells /\ cellsDisk' \subseteq cells \cup cellsDisk
  BY Zenon
<1>4. SpaceTypeOK'
  <2>1. spaceClean' \in BOOLEAN /\ spaceLayout' \in BOOLEAN
    BY Zenon
  <2> QED
    BY Zenon, <1>3, <2>1, EndRotationTypes, RootTypes DEF SpaceInv, SpaceTypeOK
<1>5. RootsHold'
  <2>1. \A r \in roots : r.epoch > 0 => Generation(r.gen) \subseteq cells' \cap cellsDisk'
    BY Zenon, <1>2 DEF SpaceInv, RootsHold
  <2> QED
    BY Zenon, <2>1 DEF SpaceInv, RootsHold
<1>6. SpaceWinsHold'
  BY Zenon DEF SpaceInv, SpaceWinsHold
<1>7. RotationHolds'
  <2>1. ~spaceLayout' => ~(k0.epoch > 0)
    BY Zenon
  <2> QED
    BY <1>3, <2>1, RootTypes DEF SpaceInv, RotationHolds, EarlyPhases, LatePhases, EndRotation
<1>8. CellsHold'
  <2>1. SUFFICES ASSUME spaceClean, some = {}
                 PROVE  cells' = CurrentCells
    BY Zenon DEF CellsHold, EarlyPhases, CurrentCells, EndRotation
  <2>2. cells = CurrentCells \cup WrittenCells
    BY Zenon, <1>1, <2>1 DEF SpaceInv, CellsHold
  <2>3. CurrentCells \cap WrittenCells = {}
    BY Zenon, <1>2, RootTypes DEF CurrentCells
  <2> QED
    BY Zenon, <2>1, <2>2, <2>3
<1> QED
  BY Zenon, <1>4, <1>5, <1>6, <1>7, <1>8 DEF SpaceInv

LEMMA SpacePowerLossKeeps ==
  ASSUME SpaceInv, NEW root \in roots,
         NEW lost \in SUBSET ((cells \ cellsDisk) \cup (cellsDisk \ cells)),
         SpacePowerLoss(root, lost)
  PROVE  SpaceInv'
<1> USE DEF SpacePowerLoss
<1>1. /\ cells' \subseteq cells \cup cellsDisk /\ cells \cap cellsDisk \subseteq cells'
      /\ cellsDisk' = cells' /\ PendingCell(root.gen) \notin cells'
  BY Zenon
<1>2. SpaceTypeOK'
  <2>1. spaceLayout' \in BOOLEAN
    BY Zenon
  <2> QED
    BY Zenon, <1>1, <2>1, EndRotationTypes DEF SpaceInv, SpaceTypeOK
<1>3. RootsHold'
  BY <1>1, RootTypes DEF SpaceInv, RootsHold
<1>4. SpaceWinsHold'
  BY Zenon DEF SpaceInv, SpaceWinsHold
<1>5. RotationHolds'
  <2>1. ~spaceLayout' => root = NoRoot
    <3>1. CASE cells' = {} /\ root = NoRoot
      BY Zenon, <3>1
    <3>2. CASE ~(cells' = {} /\ root = NoRoot)
      <4>1. spaceLayout' \in {TRUE} \cup {}
        BY <3>2, Zenon
      <4> QED
        BY <4>1, Zenon
    <3> QED
      BY Zenon, <3>1, <3>2
  <2>2. NoRoot.epoch = 0
    BY Zenon DEF NoRoot
  <2> QED
    BY Zenon, <1>1, <2>1, <2>2 DEF RotationHolds, EarlyPhases, LatePhases, EndRotation
<1>6. CellsHold'
  BY Zenon DEF CellsHold
<1> QED
  BY Zenon, <1>2, <1>3, <1>4, <1>5, <1>6 DEF SpaceInv

LEMMA SpaceStarts == SpaceInit => SpaceInv
<1> SUFFICES ASSUME SpaceInit PROVE SpaceInv
  BY Zenon
<1> USE SpaceAssumption DEF SpaceInit, NoRoot
<1>1. SpaceTypeOK
  <2>1. k0 \in RootRecord /\ roots \subseteq RootRecord
    BY DEF RootRecord
  <2>2. spaceLayout \in BOOLEAN /\ spaceLock \in BOOLEAN /\ spaceClean \in BOOLEAN
    BY Zenon
  <2>3. spaceWins \in [1 .. MaxSpaceEpoch -> Nat] /\ spaceTold \in 0 .. MaxSpaceEpoch
    OBVIOUS
  <2>4. gens \in 0 .. MaxGen /\ gen \in 0 .. MaxGen /\ oldGen \in 0 .. MaxGen
    OBVIOUS
  <2>5. phase \in Phases /\ (spaceLock <=> phase # "none")
    BY Zenon DEF Phases
  <2> QED
    BY Zenon, <2>1, <2>2, <2>3, <2>4, <2>5 DEF SpaceTypeOK
<1>2. RootsHold /\ SpaceWinsHold
  BY DEF RootsHold, SpaceWinsHold
<1>3. RotationHolds /\ CellsHold
  BY Zenon DEF RotationHolds, CellsHold, EarlyPhases, LatePhases, CurrentCells
<1> QED
  BY Zenon, <1>1, <1>2, <1>3 DEF SpaceInv

LEMMA SpaceKeeps ==
  ASSUME ~RootSyncMayFail, SpaceInv, [SpaceNext]_spaceVars
  PROVE  SpaceInv'
<1>1. CASE CreateSpace
  <2>1. k0.epoch < MaxSpaceEpoch
    BY <1>1, SpaceAssumption DEF CreateSpace, SpaceInv, RotationHolds
  <2> QED
    BY Zenon, <1>1, <2>1, SpaceStartKeeps DEF CreateSpace
<1>2. ASSUME NEW e \in 1 .. MaxSpaceEpoch, BeginRotate(e)
      PROVE  SpaceInv'
  <2>1. spaceLayout
    BY <1>2, RootTypes DEF BeginRotate, SpaceInv, RotationHolds
  <2>2. spaceLayout' = TRUE
    <3>1. spaceLayout \in BOOLEAN /\ spaceLayout' = spaceLayout
      BY SMTT(30), <1>2 DEF BeginRotate, SpaceInv, SpaceTypeOK
    <3> QED
      BY <2>1, <3>1, Zenon
  <2> QED
    BY Zenon, <1>2, <2>2, SpaceStartKeeps DEF BeginRotate
<1>3. CASE UNCHANGED spaceVars
  BY <1>3 DEF spaceVars, rotation, spaceHistory, SpaceInv, SpaceTypeOK, RootsHold,
              SpaceWinsHold, RotationHolds, CellsHold, CurrentCells, WrittenCells
<1>4. \A some : ~RootSyncFails(some)
  BY Zenon DEF RootSyncFails
<1> QED
  BY Zenon, <1>1, <1>2, <1>3, <1>4, WriteCellKeeps, SyncCellsKeeps, WritePendingKeeps, SyncPendingKeeps,
     SwitchRootKeeps, SyncRootKeeps, HandOverKeeps, CleanupCellsKeeps, RotationFailsKeeps,
     FailAfterKeeps, KillRotationKeeps, SpacePowerLossKeeps
     DEF SpaceNext

\* A generation has one cell for each object.
LEMMA GenerationSize ==
  ASSUME NEW g
  PROVE  /\ IsFiniteSet(Generation(g))
         /\ Cardinality(Generation(g)) <= Cardinality(SpaceObject)
<1> DEFINE f == [o \in SpaceObject |-> <<g, o>>]
<1>1. f \in Surjection(SpaceObject, Generation(g))
  BY Zenon DEF Surjection, Generation, CellsOf
<1> QED
  BY Zenon, <1>1, SpaceAssumption, FS_Surjection

\* The cells of the root and of one more generation are within the budget of an
\* enumeration.
LEMMA TwoGenerationsFit ==
  ASSUME SpaceInv, NEW g, {c[1] : c \in cells} \subseteq {k0.gen, g}
  PROVE  Cardinality(cells) <= MaxPhysical
<1> DEFINE two == Generation(k0.gen) \cup Generation(g)
<1>1. cells \subseteq two \cup {PendingCell(g)}
  <2>1. SUFFICES ASSUME NEW c \in cells, c \notin two PROVE c = PendingCell(g)
    BY Zenon
  <2>2. /\ c = <<c[1], c[2]>> /\ c[2] \in SpaceObject \cup {Pending}
        /\ c[1] \in {k0.gen, g} /\ c # PendingCell(k0.gen)
    BY DEF SpaceInv, SpaceTypeOK, RotationHolds
  <2> QED
    BY Zenon, <2>1, <2>2 DEF Generation, CellsOf, PendingCell
<1>2. IsFiniteSet(two) /\ Cardinality(two) <= Cardinality(SpaceObject) + Cardinality(SpaceObject)
  <2>1. /\ IsFiniteSet(Generation(k0.gen)) /\ Cardinality(Generation(k0.gen)) <= Cardinality(SpaceObject)
        /\ IsFiniteSet(Generation(g)) /\ Cardinality(Generation(g)) <= Cardinality(SpaceObject)
    BY Zenon, GenerationSize
  <2>2. IsFiniteSet(Generation(k0.gen) \cap Generation(g))
    BY Zenon, <2>1, FS_Intersection
  <2>3. /\ IsFiniteSet(two)
        /\ Cardinality(two) = Cardinality(Generation(k0.gen)) + Cardinality(Generation(g))
                                - Cardinality(Generation(k0.gen) \cap Generation(g))
    BY Zenon, <2>1, FS_Union
  <2>4. /\ Cardinality(Generation(k0.gen)) \in Nat /\ Cardinality(Generation(g)) \in Nat
        /\ Cardinality(Generation(k0.gen) \cap Generation(g)) \in Nat
        /\ Cardinality(SpaceObject) \in Nat
    BY Zenon, <2>1, <2>2, FS_CardinalityType, SpaceAssumption
  <2> QED
    BY <2>1, <2>3, <2>4
<1> HIDE DEF two
<1>3. /\ IsFiniteSet(two \cup {PendingCell(g)})
      /\ Cardinality(two \cup {PendingCell(g)}) <= Cardinality(two) + 1
  BY <1>2, FS_AddElement, FS_CardinalityType
<1>4. Cardinality(cells) <= Cardinality(two \cup {PendingCell(g)}) /\ IsFiniteSet(cells)
  BY Zenon, <1>1, <1>3, FS_Subset
<1>5. /\ Cardinality(cells) \in Nat /\ Cardinality(two \cup {PendingCell(g)}) \in Nat
      /\ Cardinality(two) \in Nat /\ Cardinality(SpaceObject) \in Nat
  BY Zenon, <1>2, <1>3, <1>4, FS_CardinalityType, SpaceAssumption
<1> QED
  BY <1>2, <1>3, <1>4, <1>5, SpaceAssumption DEF MaxPhysical

\* A rotation of an object space happens as a whole, for one caller, for good,
\* and leaves the space loadable and clean (the hardened rotate of
\* object_space_adversarial_guard_v1.py), for any number of objects, epochs and
\* rotations, as long as the sync of the directory of k0 does not fail.
THEOREM SpaceIsSafe == ASSUME ~RootSyncMayFail PROVE SpaceSpec => []SpaceIsAtomic
<1>1. SpaceInv => SpaceIsAtomic
  <2> SUFFICES ASSUME SpaceInv PROVE SpaceIsAtomic
    BY Zenon
  <2>1. RootHasItsCells
    BY Zenon, RootTypes DEF SpaceInv, RootsHold, RootHasItsCells, CellsPresent
  <2>2. HandedEpochStays /\ OneRotationPerEpoch
    BY Zenon, RootTypes DEF SpaceInv, RootsHold, SpaceWinsHold, HandedEpochStays, OneRotationPerEpoch
  <2>3. NoInertCells
    BY Zenon DEF SpaceInv, SpaceTypeOK, CellsHold, NoInertCells, CurrentCells
  <2>4. OneStaleGenerationAdmitted
    BY Zenon, TwoGenerationsFit DEF OneStaleGenerationAdmitted, Enumerable
  <2> QED
    BY Zenon, <2>1, <2>2, <2>3, <2>4 DEF SpaceIsAtomic
<1>2. SpaceInv /\ [SpaceNext]_spaceVars => SpaceInv'
  BY Zenon, SpaceKeeps
<1> QED
  BY <1>1, <1>2, SpaceStarts, PTL DEF SpaceSpec

-----------------------------------------------------------------------------
(* The lifecycle.                                                          *)

\* One epoch for all rows, and ka active or contained once anything is active.
Coherent(u) ==
  /\ \E e \in Epoch : \A s \in Sigil : u[s].epoch = e
  /\ ka \in Sigil => \A s \in Sigil : u[s].state = "active"
                                        => u[ka].state \in {"active", "contained"}

WellFormed(u) == u \in Universe /\ Coherent(u)

IInv ==
  /\ universe \in [Holder -> Universe]
  /\ \A h \in Holder : Coherent(universe[h])

\* A fresh state is well formed (initial_universe_state, rebirth).
LEMMA InactiveWellFormed ==
  ASSUME NEW e \in Epoch
  PROVE  WellFormed(Inactive(e))
<1>1. \A s \in Sigil : Inactive(e)[s] =
        [state |-> "inactive", epoch |-> e, evidence |-> NoEvidence]
  BY Zenon DEF Inactive
<1>2. Inactive(e) \in Universe
  BY Zenon DEF Inactive, Universe, Row, SigilState
<1>3. QED
  BY <1>1, <1>2 DEF WellFormed, Coherent

\* transition_sigil keeps a state well formed: ka leaves "active" only for
\* "contained", and no other sigil becomes active before ka.
LEMMA MovedWellFormed ==
  ASSUME NEW u, WellFormed(u), NEW s \in Sigil, NEW target \in SigilState,
         NEW evidence \in Evidence, CanMove(u, s, target)
  PROVE  WellFormed(Moved(u, s, target, evidence))
<1> DEFINE v == Moved(u, s, target, evidence)
<1>1. /\ v[s] = [state |-> target, epoch |-> u[s].epoch, evidence |-> evidence]
      /\ \A q \in Sigil \ {s} : v[q] = u[q]
  BY Zenon DEF WellFormed, Universe, Moved
<1>2. u[s] \in Row /\ u[s].state \in SigilState /\ u[s].epoch \in Epoch
  BY Zenon DEF WellFormed, Universe, Row
<1>3. v \in Universe
  <2>1. v[s] \in Row
    BY <1>1, <1>2 DEF Row
  <2>2. QED
    BY Zenon, <2>1 DEF WellFormed, Universe, Moved
<1>4. \A q \in Sigil : v[q].epoch = u[q].epoch
  <2> HIDE DEF v
  <2>1. v[s].epoch = u[s].epoch
    BY <1>1
  <2>2. QED
    BY Zenon, <1>1, <2>1
<1>5. target \in Allowed[u[s].state]
  BY Zenon DEF CanMove
<1>6. u[s].state = "active" => target = "contained"
  BY <1>5 DEF Allowed
<1>7. u[s].state # "contained"
  BY <1>5 DEF Allowed
<1>8. ASSUME ka \in Sigil, NEW q \in Sigil, v[q].state = "active"
      PROVE  v[ka].state \in {"active", "contained"}
  <2>1. CASE q = s /\ s # ka
    BY <2>1, <1>1, <1>8 DEF CanMove
  <2>2. CASE q = s /\ s = ka
    BY Zenon, <2>2, <1>8
  <2>3. CASE q # s
    <3>1. u[q].state = "active"
      BY Zenon, <2>3, <1>1, <1>8
    <3>2. u[ka].state \in {"active", "contained"}
      BY Zenon, <3>1, <1>8 DEF WellFormed, Coherent
    <3>3. CASE ka = s
      BY <3>2, <3>3, <1>6, <1>7, <1>1
    <3>4. CASE ka # s
      BY Zenon, <3>2, <3>4, <1>1, <1>8
    <3>5. QED
      BY Zenon, <3>3, <3>4
  <2>4. QED
    BY Zenon, <2>1, <2>2, <2>3
<1>9. QED
  <2> HIDE DEF v
  <2>1. \E e \in Epoch : \A q \in Sigil : v[q].epoch = e
    BY Zenon, <1>4 DEF WellFormed, Coherent
  <2>2. WellFormed(v)
    BY Zenon, <1>3, <1>8, <2>1 DEF WellFormed, Coherent
  <2>3. QED
    BY Zenon, <2>2 DEF v

\* contain_universe keeps a state well formed.
LEMMA ContainedWellFormed ==
  ASSUME NEW u, WellFormed(u), NEW evidence \in Evidence
  PROVE  WellFormed(Contained(u, evidence))
<1> DEFINE v == Contained(u, evidence)
<1>1. \A q \in Sigil : u[q] \in Row /\ u[q].epoch \in Epoch
  BY Zenon DEF WellFormed, Universe, Row
<1>2. \A q \in Sigil : /\ v[q] = IF u[q].state = "contained" THEN u[q]
                          ELSE [state |-> "contained", epoch |-> u[q].epoch,
                                evidence |-> evidence]
  BY Zenon DEF Contained
<1>3. \A q \in Sigil : /\ v[q].epoch = u[q].epoch
                       /\ v[q].state = "contained"
                       /\ v[q] \in Row
  <2> HIDE DEF v
  <2> SUFFICES ASSUME NEW q \in Sigil
               PROVE  /\ v[q].epoch = u[q].epoch
                      /\ v[q].state = "contained"
                      /\ v[q] \in Row
    BY Zenon
  <2>1. CASE u[q].state = "contained"
    BY Zenon, <1>1, <1>2, <2>1
  <2>2. CASE u[q].state # "contained"
    <3>1. v[q] = [state |-> "contained", epoch |-> u[q].epoch, evidence |-> evidence]
      BY Zenon, <1>2, <2>2
    <3>2. QED
      BY <1>1, <3>1 DEF Row, SigilState
  <2>3. QED
    BY Zenon, <2>1, <2>2
<1>5. v \in Universe
  BY Zenon, <1>3 DEF Universe, Contained
<1>6. QED
  <2> HIDE DEF v
  <2>1. WellFormed(v)
    BY Zenon, <1>3, <1>5 DEF WellFormed, Coherent
  <2>2. QED
    BY Zenon, <2>1 DEF v

\* Every step gives one holder a well-formed state.
LEMMA StepWellFormed ==
  ASSUME IInv, LifecycleNext
  PROVE  \E h \in Holder, v \in Universe :
           WellFormed(v) /\ universe' = [universe EXCEPT ![h] = v]
<1>0. \A h \in Holder : WellFormed(universe[h])
  BY Zenon DEF IInv, WellFormed
<1>1. ASSUME NEW h \in Holder, NEW s \in Sigil, NEW target \in SigilState,
             NEW evidence \in Evidence, TransitionSigil(h, s, target, evidence)
      PROVE  \E v \in Universe :
               WellFormed(v) /\ universe' = [universe EXCEPT ![h] = v]
  BY Zenon, <1>0, <1>1, MovedWellFormed DEF TransitionSigil, WellFormed
<1>2. ASSUME NEW h \in Holder, NEW evidence \in Evidence, ContainUniverse(h, evidence)
      PROVE  \E v \in Universe :
               WellFormed(v) /\ universe' = [universe EXCEPT ![h] = v]
  BY Zenon, <1>0, <1>2, ContainedWellFormed DEF ContainUniverse, WellFormed
<1>3. ASSUME NEW h \in Holder, NEW e \in Epoch, RebirthContainedUniverse(h, e)
      PROVE  \E v \in Universe :
               WellFormed(v) /\ universe' = [universe EXCEPT ![h] = v]
  <2>1. e + 1 \in Epoch
    BY <1>3, UniverseAssumption DEF Epoch, RebirthContainedUniverse
  <2>2. QED
    BY Zenon, <1>3, <2>1, InactiveWellFormed DEF RebirthContainedUniverse, WellFormed
<1>4. ASSUME NEW h \in Holder, NEW g \in Holder, Adopt(h, g)
      PROVE  \E v \in Universe :
               WellFormed(v) /\ universe' = [universe EXCEPT ![h] = v]
  BY Zenon, <1>0, <1>4 DEF Adopt, WellFormed
<1>5. ASSUME NEW h \in Holder, Restart(h)
      PROVE  \E v \in Universe :
               WellFormed(v) /\ universe' = [universe EXCEPT ![h] = v]
  <2>1. 1 \in Epoch
    BY UniverseAssumption DEF Epoch
  <2>2. QED
    BY Zenon, <1>5, <2>1, InactiveWellFormed DEF Restart, WellFormed
<1>6. QED
  BY Zenon, <1>1, <1>2, <1>3, <1>4, <1>5 DEF LifecycleNext

\* Every step keeps every state typed and coherent.
LEMMA LifecycleStep == IInv /\ [LifecycleNext]_universe => IInv'
<1> SUFFICES ASSUME IInv, [LifecycleNext]_universe PROVE IInv'
  BY Zenon
<1>1. CASE UNCHANGED universe
  BY Zenon, <1>1 DEF IInv
<1>2. CASE LifecycleNext
  <2>1. PICK h \in Holder, v \in Universe :
          WellFormed(v) /\ universe' = [universe EXCEPT ![h] = v]
    BY Zenon, <1>2, StepWellFormed
  <2>2. \A g \in Holder : universe'[g] = IF g = h THEN v ELSE universe[g]
    BY Zenon, <2>1 DEF IInv
  <2>3. QED
    BY Zenon, <2>1, <2>2 DEF IInv, WellFormed
<1>3. QED
  BY Zenon, <1>1, <1>2

\* Every state any holder ever has is typed and coherent.
THEOREM LifecycleInductive == LifecycleSpec => []IInv
<1>1. LifecycleInit => IInv
  <2>1. 1 \in Epoch
    BY UniverseAssumption DEF Epoch
  <2>2. QED
    BY Zenon, <2>1, InactiveWellFormed DEF LifecycleInit, IInv, WellFormed
<1>2. QED
  BY <1>1, LifecycleStep, PTL DEF LifecycleSpec

\* Genesis first and no split epoch, for every plan.
THEOREM UniversesCoherent == LifecycleSpec => []CoherentUniverses
<1>1. IInv => CoherentUniverses
  <2> SUFFICES ASSUME IInv, NEW h \in Holder
               PROVE  /\ \E e \in Epoch : Epochs(universe[h]) = {e}
                      /\ ka \in Sigil /\ (\E s \in Sigil : universe[h][s].state = "active")
                           => universe[h][ka].state \in {"active", "contained"}
    BY Zenon DEF CoherentUniverses
  <2>1. Coherent(universe[h])
    BY Zenon DEF IInv
  <2>2. PICK e \in Epoch : \A s \in Sigil : universe[h][s].epoch = e
    BY Zenon, <2>1 DEF Coherent
  <2>3. Epochs(universe[h]) = {e}
    BY Zenon, <2>2, UniverseAssumption DEF Epochs
  <2>4. QED
    BY Zenon, <2>1, <2>3 DEF Coherent
<1>2. QED
  BY <1>1, LifecycleInductive, PTL

\* The type invariant.
THEOREM LifecycleTypeCorrect == LifecycleSpec => []LifecycleTypeOK
<1>1. IInv => LifecycleTypeOK
  BY Zenon DEF IInv, LifecycleTypeOK
<1>2. QED
  BY <1>1, LifecycleInductive, PTL

\* A step on the state of h leaves the states of the others alone.
LEMMA OthersLawful ==
  ASSUME IInv, NEW h \in Holder, NEW v, universe' = [universe EXCEPT ![h] = v],
         NEW g \in Holder, g # h
  PROVE  LawfulChange(g)
<1>1. universe'[g] = universe[g]
  BY Zenon DEF IInv
<1>2. QED
  BY Zenon, <1>1 DEF LawfulChange

\* No holder's step brings a contained sigil back to life within its epoch.
THEOREM ContainmentIsTerminal == LifecycleSpec => NoResurrection
<1>1. ASSUME IInv, LifecycleNext, NEW g \in Holder
      PROVE  LawfulChange(g)
  <2>0. universe[g] \in Universe /\ \A s \in Sigil : universe[g][s].state \in SigilState
    BY Zenon, <1>1 DEF IInv, Universe, Row
  <2>1. ASSUME NEW h \in Holder, NEW s \in Sigil, NEW target \in SigilState,
               NEW evidence \in Evidence, TransitionSigil(h, s, target, evidence)
        PROVE  LawfulChange(g)
    <3>1. CASE g # h
      BY Zenon, <1>1, <2>1, <3>1, OthersLawful DEF TransitionSigil
    <3>2. CASE g = h
      <4>1. universe'[g] = Moved(universe[g], s, target, evidence)
        BY Zenon, <1>1, <2>1, <3>2 DEF TransitionSigil, IInv
      <4>2. /\ universe'[g][s] = [state |-> target, epoch |-> universe[g][s].epoch,
                                  evidence |-> evidence]
            /\ \A q \in Sigil \ {s} : universe'[g][q] = universe[g][q]
        BY Zenon, <2>0, <4>1 DEF Moved, Universe
      <4>3. universe[g][s].state # "contained"
        BY <2>0, <2>1, <3>2 DEF TransitionSigil, CanMove, Allowed
      <4>4. universe'[g][s].epoch = universe[g][s].epoch
        BY <4>2
      <4>5. QED
        BY Zenon, <4>2, <4>3, <4>4 DEF LawfulChange
    <3>3. QED
      BY Zenon, <3>1, <3>2
  <2>2. ASSUME NEW h \in Holder, NEW evidence \in Evidence, ContainUniverse(h, evidence)
        PROVE  LawfulChange(g)
    <3>1. CASE g # h
      BY Zenon, <1>1, <2>2, <3>1, OthersLawful DEF ContainUniverse
    <3>2. CASE g = h
      <4>1. \A q \in Sigil : universe'[g][q] =
              IF universe[g][q].state = "contained" THEN universe[g][q]
              ELSE [state |-> "contained", epoch |-> universe[g][q].epoch,
                    evidence |-> evidence]
        BY Zenon, <1>1, <2>2, <3>2 DEF ContainUniverse, Contained, IInv
      <4>2. ASSUME NEW q \in Sigil
            PROVE  /\ universe'[g][q].epoch = universe[g][q].epoch
                   /\ universe[g][q].state = "contained"
                        => universe'[g][q] = universe[g][q]
        <5>1. CASE universe[g][q].state = "contained"
          BY Zenon, <4>1, <5>1
        <5>2. CASE universe[g][q].state # "contained"
          <6>1. universe'[g][q] = [state |-> "contained", epoch |-> universe[g][q].epoch,
                                   evidence |-> evidence]
            BY Zenon, <4>1, <5>2
          <6>2. QED
            BY <5>2, <6>1
        <5>3. QED
          BY Zenon, <5>1, <5>2
      <4>3. QED
        BY Zenon, <4>2 DEF LawfulChange
    <3>3. QED
      BY Zenon, <3>1, <3>2
  <2>3. ASSUME NEW h \in Holder, NEW e \in Epoch, RebirthContainedUniverse(h, e)
        PROVE  LawfulChange(g)
    <3>1. CASE g # h
      BY Zenon, <1>1, <2>3, <3>1, OthersLawful DEF RebirthContainedUniverse
    <3>2. CASE g = h
      BY Zenon, <1>1, <2>3, <3>2 DEF RebirthContainedUniverse, FullyContained, LawfulChange, IInv
    <3>3. QED
      BY Zenon, <3>1, <3>2
  <2>4. ASSUME NEW h \in Holder, NEW k \in Holder, Adopt(h, k)
        PROVE  LawfulChange(g)
    BY Zenon, <1>1, <2>4, OthersLawful DEF Adopt, LawfulChange, IInv
  <2>5. ASSUME NEW h \in Holder, Restart(h)
        PROVE  LawfulChange(g)
    BY Zenon, <1>1, <2>5, OthersLawful DEF Restart, LawfulChange, IInv
  <2>6. QED
    BY Zenon, <1>1, <2>1, <2>2, <2>3, <2>4, <2>5 DEF LifecycleNext
<1>2. IInv /\ [LifecycleNext]_universe => [\A h \in Holder : LawfulChange(h)]_universe
  BY Zenon, <1>1
<1>3. QED
  BY <1>2, LifecycleInductive, PTL DEF LifecycleSpec, NoResurrection, LawfulChange

-----------------------------------------------------------------------------
(* Revocation.                                                             *)

\* What makes KilledEpochStaysDead inductive: the registry never loses the
\* EPOCH row that apply_nuclear_revocation wrote.
KilledAreRevoked == killed \subseteq revokedEpoch

\* Every operation of the registry only adds rows.
LEMMA RegistryGrows == KilledAreRevoked /\ [RevocationNext]_revocationVars => KilledAreRevoked'
<1> SUFFICES ASSUME KilledAreRevoked, [RevocationNext]_revocationVars
             PROVE  KilledAreRevoked'
  BY Zenon
<1> USE DEF KilledAreRevoked
<1>1. ASSUME NEW h \in Holder, LiveWithTokens(h) PROVE KilledAreRevoked'
  BY Zenon, <1>1 DEF LiveWithTokens, registry
<1>2. ASSUME NEW h \in Holder, NEW c \in Evidence, NEW e \in Epoch,
             EnterNuclearContainment(h, c, e)
      PROVE  KilledAreRevoked'
  BY Zenon, <1>2 DEF EnterNuclearContainment, registry
<1>3. ASSUME NEW h \in Holder, NEW s \in Sigil, MintSigilEpochToken(h, s)
      PROVE  KilledAreRevoked'
  BY Zenon, <1>3 DEF MintSigilEpochToken, registry
<1>4. ASSUME NEW h \in Holder, ApplyNuclearRevocation(h) PROVE KilledAreRevoked'
  BY Zenon, <1>4 DEF ApplyNuclearRevocation
<1>5. ASSUME NEW h \in Holder, CrashWithTokens(h) PROVE KilledAreRevoked'
  BY Zenon, <1>5 DEF CrashWithTokens, registry
<1>6. CASE RevokeToken
  BY Zenon, <1>6 DEF RevokeToken
<1>7. ASSUME NEW e \in Epoch, RevokeEpoch(e) PROVE KilledAreRevoked'
  BY Zenon, <1>7 DEF RevokeEpoch
<1>8. CASE UNCHANGED revocationVars
  BY Zenon, <1>8 DEF revocationVars, registry
<1> QED
  BY Zenon, <1>1, <1>2, <1>3, <1>4, <1>5, <1>6, <1>7, <1>8 DEF RevocationNext

\* No token of an epoch that apply_nuclear_revocation killed is accepted
\* against any state that any holder still has.
THEOREM KilledStaysDead == RevocationSpec => []KilledEpochStaysDead
<1>1. RevocationInit => KilledAreRevoked
  BY Zenon DEF RevocationInit, KilledAreRevoked
<1>2. KilledAreRevoked => KilledEpochStaysDead
  BY Zenon DEF KilledAreRevoked, KilledEpochStaysDead, Accepted, IsRevoked
<1> QED
  BY <1>1, <1>2, RegistryGrows, PTL DEF RevocationSpec

-----------------------------------------------------------------------------
(* The epoch fence.                                                        *)

ReceiptsAreEarned ==
  \A h \in Holder : reborn[h] # NoReceipt =>
    reborn[h].epoch \in ended /\ reborn[h].epoch + 1 \in Epoch

ContainedIsEnded ==
  \A h \in Holder, e \in Epoch :
    (\A s \in Sigil : universe[h][s].state = "contained" /\ universe[h][s].epoch = e)
      => e \in ended

HeadAboveFirst ==
  /\ fenceHead \in Epoch \cup {0}
  /\ firstHead \in Epoch \cup {0}
  /\ fenceHead # 0 => firstHead \in Epoch /\ firstHead <= fenceHead

FInv ==
  /\ IInv
  /\ reborn = [h \in Holder |-> reborn[h]]
  /\ ended \subseteq Epoch
  /\ ReceiptsAreEarned
  /\ ContainedIsEnded
  /\ HeadAboveFirst
  /\ FenceIsALadder
  /\ TombstonedWasContained

\* The fence's holders are holders of the lifecycle, receipts aside.
LEMMA FenceStepIsLifecycleStep == [FenceNext]_fenceVars => [LifecycleNext]_universe
BY Zenon DEF FenceNext, fenceVars, LiveWithReceipts, Reborn, Initialize, AdvanceRebirth, CrashWithReceipts, LifecycleNext

\* The empty stores and initial states satisfy the invariant.
LEMMA FenceStarts == FenceInit => FInv
<1> SUFFICES ASSUME FenceInit PROVE FInv
  BY Zenon
<1>1. 1 \in Epoch
  BY UniverseAssumption DEF Epoch
<1>2. IInv
  BY Zenon, <1>1, InactiveWellFormed DEF FenceInit, LifecycleInit, IInv, WellFormed
<1>3. ContainedIsEnded
  BY Zenon, UniverseAssumption DEF FenceInit, LifecycleInit, Inactive, ContainedIsEnded
<1>4. QED
  BY Zenon, <1>2, <1>3 DEF FenceInit, FInv, ReceiptsAreEarned, HeadAboveFirst,
                    FenceIsALadder, TombstonedWasContained

\* What a lifecycle step of a holder records keeps the invariant.
LEMMA LiveKeeps ==
  ASSUME FInv, IInv', NEW h \in Holder, LiveWithReceipts(h)
  PROVE  FInv'
<1>1. ContainedIsEnded'
  BY Zenon DEF LiveWithReceipts, EndedNow, ContainedIsEnded
<1>2. ended \subseteq ended' /\ ended' \subseteq Epoch
  BY Zenon DEF LiveWithReceipts, EndedNow, FInv
<1>3. UNCHANGED <<reborn, fenceHead, tombstones, firstHead>>
  BY Zenon DEF LiveWithReceipts, fence
<1>4. ReceiptsAreEarned'
  BY Zenon, <1>2, <1>3 DEF FInv, ReceiptsAreEarned
<1>5. HeadAboveFirst' /\ FenceIsALadder' /\ TombstonedWasContained'
  BY Zenon, <1>2, <1>3 DEF FInv, HeadAboveFirst, FenceIsALadder, TombstonedWasContained
<1>6. QED
  BY Zenon, <1>1, <1>2, <1>3, <1>4, <1>5 DEF FInv

\* A receipt is issued only for an epoch that was fully contained.
LEMMA RebornKeeps ==
  ASSUME FInv, IInv', NEW h \in Holder, NEW e \in Epoch, Reborn(h, e)
  PROVE  FInv'
<1>1. e \in ended /\ e + 1 \in Epoch
  <2>1. \A s \in Sigil : universe[h][s].state = "contained" /\ universe[h][s].epoch = e
    BY Zenon DEF Reborn, RebirthContainedUniverse, FullyContained, Epochs
  <2>2. e \in ended
    BY Zenon, <2>1 DEF FInv, ContainedIsEnded
  <2>3. QED
    BY <2>2, UniverseAssumption DEF Reborn, RebirthContainedUniverse, Epoch
<1>2. /\ reborn' = [g \in Holder |-> reborn'[g]]
      /\ reborn'[h].epoch = e
      /\ \A g \in Holder \ {h} : reborn'[g] = reborn[g]
  BY Zenon DEF FInv, Reborn
<1>3. UNCHANGED <<fenceHead, tombstones, firstHead, ended>>
  BY Zenon DEF Reborn, fence
<1>4. ReceiptsAreEarned'
  BY Zenon, <1>1, <1>2, <1>3 DEF FInv, ReceiptsAreEarned
<1>5. ContainedIsEnded'
  <2>1. /\ universe'[h] = Inactive(e + 1)
        /\ \A g \in Holder \ {h} : universe'[g] = universe[g]
    BY Zenon DEF FInv, IInv, Reborn, RebirthContainedUniverse
  <2>2. \A s \in Sigil : universe'[h][s].state = "inactive"
    BY <2>1 DEF Inactive
  <2>3. QED
    BY <1>3, <2>1, <2>2, UniverseAssumption DEF FInv, ContainedIsEnded
<1>6. HeadAboveFirst' /\ FenceIsALadder' /\ TombstonedWasContained'
  BY Zenon, <1>3 DEF FInv, HeadAboveFirst, FenceIsALadder, TombstonedWasContained
<1>7. QED
  BY Zenon, <1>2, <1>3, <1>4, <1>5, <1>6 DEF FInv

\* Initializing the fence starts the ladder.
LEMMA InitializeKeeps ==
  ASSUME FInv, NEW h \in Holder, NEW e \in Epoch, Initialize(h, e)
  PROVE  FInv'
<1>1. UNCHANGED <<universe, reborn, tombstones, ended>>
  BY Zenon DEF Initialize
<1>2. fenceHead = 0 /\ fenceHead' = e /\ firstHead' = e /\ tombstones = {}
  BY Zenon DEF Initialize, FInv, FenceIsALadder
<1>3. e \in Nat /\ e # 0 /\ e .. (e - 1) = {}
  BY UniverseAssumption DEF Epoch
<1>4. HeadAboveFirst' /\ FenceIsALadder' /\ TombstonedWasContained'
  BY <1>1, <1>2, <1>3 DEF HeadAboveFirst, FenceIsALadder, TombstonedWasContained
<1>5. IInv' /\ ReceiptsAreEarned' /\ ContainedIsEnded'
  BY Zenon, <1>1 DEF FInv, IInv, ReceiptsAreEarned, ContainedIsEnded
<1>6. QED
  BY Zenon, <1>1, <1>4, <1>5 DEF FInv

\* Advancing adds exactly one rung, for an epoch that had ended.
LEMMA AdvanceKeeps ==
  ASSUME FInv, NEW h \in Holder, AdvanceRebirth(h)
  PROVE  FInv'
<1> DEFINE e == reborn[h].epoch
<1>1. UNCHANGED <<universe, reborn, firstHead, ended>>
  BY Zenon DEF AdvanceRebirth
<1>2. e \in ended /\ e \in Epoch /\ e + 1 \in Epoch
  BY Zenon DEF AdvanceRebirth, FInv, ReceiptsAreEarned
<1>3. fenceHead = e /\ fenceHead' = e + 1 /\ tombstones' = tombstones \cup {e}
  BY Zenon DEF AdvanceRebirth
<1> HIDE DEF e
<1>4. e \in Nat /\ e # 0 /\ e + 1 # 0
  BY <1>2, UniverseAssumption DEF Epoch
<1>5. firstHead \in Epoch /\ firstHead \in Nat /\ firstHead <= e
  BY <1>3, <1>4, UniverseAssumption DEF FInv, HeadAboveFirst, Epoch
<1>6. tombstones = firstHead .. (e - 1)
  BY Zenon, <1>3, <1>4 DEF FInv, FenceIsALadder
<1>7. (firstHead .. (e - 1)) \cup {e} = firstHead .. ((e + 1) - 1)
  BY <1>4, <1>5
<1>8. FenceIsALadder'
  BY Zenon, <1>1, <1>3, <1>4, <1>6, <1>7 DEF FenceIsALadder
<1>9. HeadAboveFirst'
  BY <1>1, <1>2, <1>3, <1>4, <1>5 DEF HeadAboveFirst
<1>10. TombstonedWasContained'
  BY Zenon, <1>1, <1>2, <1>3 DEF FInv, TombstonedWasContained
<1>11. IInv' /\ ReceiptsAreEarned' /\ ContainedIsEnded'
  BY Zenon, <1>1 DEF FInv, IInv, ReceiptsAreEarned, ContainedIsEnded
<1>12. QED
  BY Zenon, <1>1, <1>8, <1>9, <1>10, <1>11 DEF FInv

\* A crash loses a receipt and nothing of the fence.
LEMMA CrashKeeps ==
  ASSUME FInv, IInv', NEW h \in Holder, CrashWithReceipts(h)
  PROVE  FInv'
<1>1. UNCHANGED <<fenceHead, tombstones, firstHead, ended>>
  BY Zenon DEF CrashWithReceipts, fence
<1>2. /\ reborn' = [g \in Holder |-> reborn'[g]]
      /\ reborn'[h] = NoReceipt
      /\ \A g \in Holder \ {h} : reborn'[g] = reborn[g]
  BY Zenon DEF FInv, CrashWithReceipts
<1>3. ReceiptsAreEarned'
  BY <1>1, <1>2 DEF FInv, ReceiptsAreEarned
<1>4. /\ universe'[h] = Inactive(1)
      /\ \A g \in Holder \ {h} : universe'[g] = universe[g]
  BY Zenon DEF FInv, IInv, CrashWithReceipts, Restart
<1>5. \A s \in Sigil : universe'[h][s].state = "inactive"
  BY <1>4 DEF Inactive
<1>6. ContainedIsEnded'
  BY <1>1, <1>4, <1>5, UniverseAssumption DEF FInv, ContainedIsEnded
<1>7. HeadAboveFirst' /\ FenceIsALadder' /\ TombstonedWasContained'
  BY Zenon, <1>1 DEF FInv, HeadAboveFirst, FenceIsALadder, TombstonedWasContained
<1>8. QED
  BY Zenon, <1>1, <1>2, <1>3, <1>6, <1>7 DEF FInv

\* The invariant is inductive.
THEOREM FenceInductive == FenceSpec => []FInv
<1>1. FInv /\ [FenceNext]_fenceVars => FInv'
  <2> SUFFICES ASSUME FInv, [FenceNext]_fenceVars PROVE FInv'
    BY Zenon
  <2>1. IInv'
    BY Zenon, FenceStepIsLifecycleStep, LifecycleStep DEF FInv
  <2>2. CASE UNCHANGED fenceVars
    BY Zenon, <2>1, <2>2 DEF fenceVars, fence, FInv, ReceiptsAreEarned, ContainedIsEnded,
                      HeadAboveFirst, FenceIsALadder, TombstonedWasContained
  <2>3. CASE FenceNext
    BY Zenon, <2>1, <2>3, LiveKeeps, RebornKeeps, InitializeKeeps, AdvanceKeeps, CrashKeeps
       DEF FenceNext
  <2>4. QED
    BY Zenon, <2>2, <2>3
<1>2. QED
  BY <1>1, FenceStarts, PTL DEF FenceSpec

\* The tombstones are exactly the epochs from the first head to the one before
\* the current head, for every history of receipts and crashes.
THEOREM FenceLadder == FenceSpec => []FenceIsALadder
BY FenceInductive, PTL DEF FInv

\* No epoch is tombstoned that was not fully contained.
THEOREM TombstonesEarned == FenceSpec => []TombstonedWasContained
BY FenceInductive, PTL DEF FInv

\* The durable current epoch never moves back and never skips.
THEOREM FenceClimbs == FenceSpec => HeadClimbs
<1> DEFINE Climbs ==
      fenceHead' # fenceHead =>
        fenceHead' = fenceHead + 1 \/ (fenceHead = 0 /\ tombstones' = {})
<1>1. FInv /\ FenceNext => Climbs
  BY Zenon DEF FInv, FenceIsALadder, FenceNext, LiveWithReceipts, Reborn, Initialize, AdvanceRebirth, CrashWithReceipts, fence
<1>2. FInv /\ [FenceNext]_fenceVars => [Climbs]_fenceVars
  BY Zenon, <1>1
<1>3. QED
  BY <1>2, FenceInductive, PTL DEF FenceSpec, HeadClimbs
=============================================================================

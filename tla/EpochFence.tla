---------------------------- MODULE EpochFence ----------------------------
(***************************************************************************)
(* DurableEpochFence of native_sigil_epoch_tombstone_v1: the durable       *)
(* current epoch of a plan and the tombstones of its dead epochs, driven   *)
(* by the rebirth receipts that holders of diverging states keep, repeat   *)
(* and lose.  Each operation is one transaction.                           *)
(***************************************************************************)
EXTENDS UniverseLifecycle

CONSTANT NoReceipt

VARIABLES
  reborn,      \* the rebirth receipt each holder has, with the states it binds
  fenceHead,   \* epoch_heads: the current epoch of the plan, 0 without a row
  tombstones,  \* epoch_tombstones
  firstHead,   \* history: the epoch the fence was initialized with
  ended        \* history: epochs for which a fully contained state existed

fence == <<fenceHead, tombstones, firstHead>>
fenceVars == <<universe, reborn, fence, ended>>

Rebirth == [previous : Universe, fresh : Universe, epoch : Epoch]

FenceTypeOK ==
  /\ LifecycleTypeOK
  /\ DOMAIN reborn = Holder
  /\ \A h \in Holder : reborn[h] = NoReceipt \/ reborn[h] \in Rebirth
  /\ fenceHead \in Epoch \cup {0}
  /\ firstHead \in Epoch \cup {0}
  /\ tombstones \subseteq Epoch
  /\ ended \subseteq Epoch

\* require_rebirth_receipt, for the states that the receipt binds
RequireRebirthReceipt(r) ==
  /\ FullyContained(r.previous)
  /\ \A s \in Sigil : r.fresh[s].state = "inactive" /\ r.fresh[s].epoch = r.epoch + 1

-----------------------------------------------------------------------------
FenceInit ==
  /\ LifecycleInit
  /\ reborn = [h \in Holder |-> NoReceipt]
  /\ fenceHead = 0 /\ tombstones = {} /\ firstHead = 0
  /\ ended = {}

EndedNow ==
  {e \in Epoch : \E h \in Holder : \A s \in Sigil :
                   universe'[h][s].state = "contained" /\ universe'[h][s].epoch = e}

LiveWithReceipts(h) ==
  /\ \/ \E s \in Sigil, target \in SigilState, evidence \in Evidence :
          TransitionSigil(h, s, target, evidence)
     \/ \E evidence \in Evidence : ContainUniverse(h, evidence)
     \/ \E g \in Holder : Adopt(h, g)
  /\ ended' = ended \cup EndedNow
  /\ UNCHANGED <<reborn, fence>>

\* rebirth_contained_universe with its receipt
Reborn(h, e) ==
  /\ RebirthContainedUniverse(h, e)
  /\ reborn' = [reborn EXCEPT ![h] =
       [previous |-> universe[h], fresh |-> universe'[h], epoch |-> e]]
  /\ UNCHANGED <<fence, ended>>

Initialize(h, e) ==
  /\ Epochs(universe[h]) = {e}
  /\ fenceHead = 0
  /\ fenceHead' = e /\ firstHead' = e
  /\ UNCHANGED <<universe, reborn, tombstones, ended>>

\* Mutant of AdvanceRebirth: the durable head is not compared.
AdvanceRebirthUnfenced(h) ==
  /\ reborn[h] # NoReceipt
  /\ RequireRebirthReceipt(reborn[h])
  /\ fenceHead # 0
  /\ tombstones' = tombstones \cup {reborn[h].epoch}
  /\ fenceHead' = reborn[h].epoch + 1
  /\ UNCHANGED <<universe, reborn, firstHead, ended>>

\* advance_rebirth; the last guard is the primary key of epoch_tombstones.
AdvanceRebirth(h) ==
  /\ reborn[h] # NoReceipt
  /\ RequireRebirthReceipt(reborn[h])
  /\ fenceHead = reborn[h].epoch
  /\ reborn[h].epoch \notin tombstones
  /\ tombstones' = tombstones \cup {reborn[h].epoch}
  /\ fenceHead' = reborn[h].epoch + 1
  /\ UNCHANGED <<universe, reborn, firstHead, ended>>

CrashWithReceipts(h) ==
  /\ Restart(h)
  /\ reborn' = [reborn EXCEPT ![h] = NoReceipt]
  /\ UNCHANGED <<fence, ended>>

FenceNext ==
  \E h \in Holder :
    \/ LiveWithReceipts(h)
    \/ \E e \in Epoch : Reborn(h, e) \/ Initialize(h, e)
    \/ AdvanceRebirth(h)
    \/ CrashWithReceipts(h)

FenceSpec == FenceInit /\ [][FenceNext]_fenceVars

-----------------------------------------------------------------------------
\* The durable fence is a ladder: whatever receipts holders keep, repeat or
\* lose, the tombstones are exactly the epochs from the one it was initialized
\* with to the one before its head, so require_current_request never meets an
\* epoch that is both current and dead, nor one below the head that is alive,
\* and the INSERT of advance_rebirth, which has no rollback of its own, never
\* meets a tombstone that is already there.
FenceIsALadder ==
  tombstones = IF fenceHead = 0 THEN {} ELSE firstHead .. (fenceHead - 1)

\* An epoch is tombstoned only after some holder had contained every sigil of
\* it, although the fence never sees the state, only the receipt.
TombstonedWasContained == tombstones \subseteq ended

\* The durable head never moves back and never skips an epoch.
HeadClimbs ==
  [][fenceHead' # fenceHead =>
       fenceHead' = fenceHead + 1 \/ (fenceHead = 0 /\ tombstones' = {})]_fenceVars
=============================================================================

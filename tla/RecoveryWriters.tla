--------------------------- MODULE RecoveryWriters ---------------------------
(***************************************************************************)
(* The writers of a recovery: the fenced lease of                          *)
(* koschei/library_recovery_fencing_v0.py, the exactly-once effect state of *)
(* library_recovery_exactly_once_v0.py and the confirmation quorum of      *)
(* library_effect_attestation_quorum_v0.py.                                *)
(*                                                                         *)
(* The library's functions return new values and perform no I/O.  The host *)
(* keeps the fence state and the effect state and replaces each only by a  *)
(* value derived from it; writers work on copies of the fence state that   *)
(* may be old, hold leases, permits and intents across any delay, and      *)
(* forget them when they crash.  A digest is what it is a digest of.       *)
(***************************************************************************)
EXTENDS Integers, FiniteSets

CONSTANTS
  FencedWriters,
  Keys,       \* idempotency keys
  Ops,        \* operations
  Observers,
  Domain,     \* the trust domain of an observer
  Life,       \* lifetime of a lease, in ticks
  MaxLeaseEpoch, MaxTick, MaxCheckpoint,   \* bounds
  None

ASSUME WritersAssumption ==
  /\ MaxLeaseEpoch \in Nat /\ MaxTick \in Nat /\ MaxCheckpoint \in Nat
  /\ None \notin FencedWriters \cup Ops

VARIABLES
  now,
  checkpoint,  \* the durable checkpoint
  fence,       \* RecoveryFenceStateV0: current epoch and highest token
  seen,        \* each writer's copy of the fence state
  lease,       \* the lease each writer holds
  permit,      \* the permit each writer holds
  effects,     \* RecoveryEffectStateV0
  intent,      \* the intent each writer holds
  receipts,    \* history: the receipts of fresh effects
  barrier      \* the last confirmation

writersVars == <<now, checkpoint, fence, seen, lease, permit, effects, intent,
          receipts, barrier>>

Lease == [writer : FencedWriters \cup {None}, epoch : 0 .. MaxLeaseEpoch,
          cp : 0 .. MaxCheckpoint, issued : 0 .. MaxTick]
NoLease == [writer |-> None, epoch |-> 0, cp |-> 0, issued |-> 0]
Fence == [epoch : 0 .. MaxLeaseEpoch, token : Lease]
WritePermit == [writer : FencedWriters \cup {None}, epoch : 0 .. MaxLeaseEpoch,
           cp : 0 .. MaxCheckpoint, op : Ops \cup {None}]
NoPermit == [writer |-> None, epoch |-> 0, cp |-> 0, op |-> None]
EffectReceipt == [writer : FencedWriters, epoch : 1 .. MaxLeaseEpoch, cp : 0 .. MaxCheckpoint,
            seq : Nat \ {0}, key : Keys, op : Ops]
Effects == [writer : FencedWriters \cup {None}, epoch : 0 .. MaxLeaseEpoch,
            cp : 0 .. MaxCheckpoint, next : Nat, committed : SUBSET EffectReceipt]
Intent == [live : {TRUE}, prev : Effects, receipt : EffectReceipt]
NoIntent == [live |-> FALSE]

WritersTypeOK ==
  /\ now \in 0 .. MaxTick
  /\ checkpoint \in 0 .. MaxCheckpoint
  /\ fence \in Fence
  /\ seen \in [FencedWriters -> Fence]
  /\ lease \in [FencedWriters -> Lease]
  /\ permit \in [FencedWriters -> WritePermit]
  /\ effects \in Effects
  /\ intent \in [FencedWriters -> Intent \cup {NoIntent}]
  /\ receipts \subseteq EffectReceipt

WritersInit ==
  /\ now = 0
  /\ checkpoint = 0
  /\ fence = [epoch |-> 0, token |-> NoLease]
  /\ seen = [w \in FencedWriters |-> fence]
  /\ lease = [w \in FencedWriters |-> NoLease]
  /\ permit = [w \in FencedWriters |-> NoPermit]
  /\ effects = [writer |-> None, epoch |-> 0, cp |-> 0, next |-> 0, committed |-> {}]
  /\ intent = [w \in FencedWriters |-> NoIntent]
  /\ receipts = {}
  /\ barrier = [receipt |-> None, observers |-> {}]

-----------------------------------------------------------------------------
(* The host: time, checkpoints, crashes of a writer.                       *)

Tick ==
  /\ now < MaxTick
  /\ now' = now + 1
  /\ UNCHANGED <<checkpoint, fence, seen, lease, permit, effects, intent, receipts,
                 barrier>>

AdvanceCheckpoint ==
  /\ checkpoint < MaxCheckpoint
  /\ checkpoint' = checkpoint + 1
  /\ UNCHANGED <<now, fence, seen, lease, permit, effects, intent, receipts, barrier>>

ReadFence(w) ==
  /\ seen' = [seen EXCEPT ![w] = fence]
  /\ UNCHANGED <<now, checkpoint, fence, lease, permit, effects, intent, receipts,
                 barrier>>

CrashWriter(w) ==
  /\ lease' = [lease EXCEPT ![w] = NoLease]
  /\ permit' = [permit EXCEPT ![w] = NoPermit]
  /\ intent' = [intent EXCEPT ![w] = NoIntent]
  /\ UNCHANGED <<now, checkpoint, fence, seen, effects, receipts, barrier>>

-----------------------------------------------------------------------------
(* The fence.                                                              *)

\* Mutant of IssueLease: the current epoch is given out again.
IssueLeaseAgain(w, e) ==
  LET l == [writer |-> w, epoch |-> e, cp |-> checkpoint, issued |-> now]
  IN  /\ e >= fence.epoch
      /\ lease' = [lease EXCEPT ![w] = l]
      /\ fence' = [epoch |-> e, token |-> l]
      /\ seen' = [seen EXCEPT ![w] = fence']
      /\ UNCHANGED <<now, checkpoint, permit, effects, intent, receipts, barrier>>

\* issue_recovery_lease_v0: a later epoch, bound to the current checkpoint; the
\* lease's token becomes the highest.
IssueLease(w, e) ==
  LET l == [writer |-> w, epoch |-> e, cp |-> checkpoint, issued |-> now]
  IN  /\ e > fence.epoch
      /\ lease' = [lease EXCEPT ![w] = l]
      /\ fence' = [epoch |-> e, token |-> l]
      /\ seen' = [seen EXCEPT ![w] = fence']
      /\ UNCHANGED <<now, checkpoint, permit, effects, intent, receipts, barrier>>

\* The conditions of authorize_recovery_write_v0, on the writer's copy.
Authorizable(w) ==
  /\ lease[w] # NoLease
  /\ lease[w].cp = checkpoint
  /\ lease[w].epoch = seen[w].epoch
  /\ now \in lease[w].issued .. lease[w].issued + Life - 1
  /\ lease[w] = seen[w].token

AuthorizeWrite(w, op) ==
  /\ Authorizable(w)
  /\ permit' = [permit EXCEPT ![w] =
       [writer |-> w, epoch |-> lease[w].epoch, cp |-> checkpoint, op |-> op]]
  /\ UNCHANGED <<now, checkpoint, fence, seen, lease, effects, intent, receipts,
                 barrier>>

-----------------------------------------------------------------------------
(* The effect state.                                                       *)

SameLineage(x, y) == x.writer = y.writer /\ x.epoch = y.epoch /\ x.cp = y.cp

\* make_recovery_effect_state_v0 for a permit of another lineage.  The host hands
\* over the committed records, which default to none: exactly once rests on that.
MakeEffectState(p) ==
  [writer |-> p.writer, epoch |-> p.epoch, cp |-> p.cp, next |-> 1,
   committed |-> effects.committed]

InstallEffectState(w) ==
  /\ permit[w] # NoPermit
  /\ ~SameLineage(permit[w], effects)
  /\ effects' = MakeEffectState(permit[w])
  /\ UNCHANGED <<now, checkpoint, fence, seen, lease, permit, intent, receipts, barrier>>

\* prepare_recovery_write_intent_v0: a permit of the state's lineage, a key that
\* was not committed before
PrepareIntent(w, key) ==
  /\ permit[w] # NoPermit
  /\ SameLineage(permit[w], effects)
  /\ \A r \in effects.committed : r.key # key
  /\ intent' = [intent EXCEPT ![w] =
       [live |-> TRUE, prev |-> effects,
        receipt |-> [writer |-> w, epoch |-> permit[w].epoch, cp |-> permit[w].cp,
                     seq |-> effects.next, key |-> key, op |-> permit[w].op]]]
  /\ UNCHANGED <<now, checkpoint, fence, seen, lease, permit, effects, receipts,
                 barrier>>

\* The effect state after one more effect.
Recorded(r) ==
  [writer |-> effects.writer, epoch |-> effects.epoch, cp |-> effects.cp,
   next |-> effects.next + 1, committed |-> effects.committed \cup {r}]

\* Mutant of CommitEffect: the state the intent was prepared on is not compared.
CommitEffectLate(w) ==
  /\ intent[w].live
  /\ LET r == intent[w].receipt
     IN  /\ receipts' = receipts \cup {r}
         /\ effects' = Recorded(r)
  /\ intent' = [intent EXCEPT ![w] = NoIntent]
  /\ UNCHANGED <<now, checkpoint, fence, seen, lease, permit, barrier>>

\* commit_recovery_effect_v0: the intent was prepared on exactly this state.  (A
\* key that is committed already cannot occur then: prepare refused it.)
CommitEffect(w) ==
  /\ intent[w].live
  /\ intent[w].prev = effects
  /\ LET r == intent[w].receipt
     IN  /\ receipts' = receipts \cup {r}
         /\ effects' = Recorded(r)
  /\ intent' = [intent EXCEPT ![w] = NoIntent]
  /\ UNCHANGED <<now, checkpoint, fence, seen, lease, permit, barrier>>

\* The receipt that replay_committed_effect_v0 reproduces for a key.
Replayed(key) == {r \in effects.committed : r.key = key}

-----------------------------------------------------------------------------
(* Confirmation.                                                           *)

\* confirm_recovery_effect_v0 for a fresh receipt that the observers O attest and
\* nobody contradicts; min_trust_domains defaults to the quorum threshold.
Confirm(r, O, quorum, domains) ==
  /\ quorum >= 1
  /\ domains \in 1 .. quorum
  /\ Cardinality(O) >= quorum
  /\ Cardinality({Domain[o] : o \in O}) >= domains
  /\ barrier' = [receipt |-> r, observers |-> O]
  /\ UNCHANGED <<now, checkpoint, fence, seen, lease, permit, effects, intent, receipts>>

WritersNext ==
  \/ Tick
  \/ AdvanceCheckpoint
  \/ \E w \in FencedWriters :
       \/ ReadFence(w)
       \/ CrashWriter(w)
       \/ \E e \in 1 .. MaxLeaseEpoch : IssueLease(w, e)
       \/ \E op \in Ops : AuthorizeWrite(w, op)
       \/ InstallEffectState(w)
       \/ \E key \in Keys : PrepareIntent(w, key)
       \/ CommitEffect(w)
  \/ \E r \in receipts, O \in SUBSET Observers, quorum, domains \in 1 .. Cardinality(Observers) :
       Confirm(r, O, quorum, domains)

WritersSpec == WritersInit /\ [][WritersNext]_writersVars

-----------------------------------------------------------------------------
\* Exactly once, for a host that carries the committed records over: over all
\* epochs and writers, with permits and intents of any age, one key yields one
\* fresh effect, and what replay reproduces for it is that effect's receipt.  That
\* the permit of the effect is still current is not promised.
OneEffectPerKey ==
  /\ \A r, s \in receipts : r.key = s.key => r = s
  /\ \A key \in Keys : Replayed(key) = {r \in receipts : r.key = key}

\* One writer per epoch, for a host that issues leases from one fence state:
\* whatever copies of it the writers authorize with and however late they use a
\* permit, the permits and effects of one epoch belong to one writer and one
\* checkpoint.  (An earlier epoch is not shut out: a writer
\* with an old copy still obtains permits, and commit_recovery_effect_v0 does not
\* look at the fence.)
OneWriterPerEpoch ==
  LET held == {permit[w] : w \in FencedWriters} \ {NoPermit}
  IN  \A x, y \in held \cup receipts :
        x.epoch = y.epoch => x.writer = y.writer /\ x.cp = y.cp

=============================================================================

--------------------------- MODULE RecoveryProofs ---------------------------
(***************************************************************************)
(* Proofs about recovery: the fenced writers and their exactly-once        *)
(* effects (RecoveryWriters) and the checkpoints that replicas agree on    *)
(* (RecoveryJournal).                                                      *)
(***************************************************************************)
EXTENDS RecoveryJournal, RecoveryWriters, FiniteSetTheorems, TLAPS

-----------------------------------------------------------------------------
(* The fenced writers.  A lease, permit, effect state or receipt carries a *)
(* stamp: its epoch, its writer and its checkpoint.                        *)

\* What a writer holds for itself.
OwnWriter ==
  \A w \in FencedWriters :
    /\ lease[w] # NoLease => lease[w].writer = w /\ lease[w].epoch > 0
    /\ permit[w] # NoPermit =>
         permit[w].writer = w /\ permit[w].epoch > 0 /\ permit[w].op \in Ops

\* A lineage has sequences from one on.
SequencesStart == effects.writer # None => effects.next > 0

WritersInv == WritersTypeOK /\ OwnWriter /\ SequencesStart

\* The type invariant with what a writer holds for itself is inductive, for any
\* number of writers, keys, operations and epochs.
LEMMA WritersInductive == WritersInit /\ [][WritersNext]_writersVars => []WritersInv
<1> USE WritersAssumption
<1>1. WritersInit => WritersInv
  BY SMTT(30) DEF WritersInit, WritersInv, WritersTypeOK, OwnWriter, SequencesStart, Lease,
    NoLease, Fence, WritePermit, NoPermit, Effects, EffectReceipt, Intent, NoIntent
<1>2. WritersInv /\ [WritersNext]_writersVars => WritersInv'
  <2> SUFFICES ASSUME WritersInv, [WritersNext]_writersVars
               PROVE  WritersInv'
    BY Zenon
  <2> USE DEF WritersInv
  <2>1. CASE Tick
    BY <2>1 DEF Tick, WritersTypeOK, OwnWriter, SequencesStart
  <2>2. CASE AdvanceCheckpoint
    BY <2>2 DEF AdvanceCheckpoint, WritersTypeOK, OwnWriter, SequencesStart
  <2>3. ASSUME NEW w \in FencedWriters, ReadFence(w) PROVE WritersInv'
    BY Zenon, <2>3 DEF ReadFence, WritersTypeOK, OwnWriter, SequencesStart
  <2>4. ASSUME NEW w \in FencedWriters, CrashWriter(w) PROVE WritersInv'
    <3>1. NoLease \in Lease /\ NoPermit \in WritePermit
      BY DEF NoLease, Lease, NoPermit, WritePermit
    <3>2. WritersTypeOK'
      BY Zenon, <2>4, <3>1 DEF CrashWriter, WritersTypeOK
    <3>3. OwnWriter' /\ SequencesStart'
      BY <2>4 DEF CrashWriter, WritersTypeOK, OwnWriter, SequencesStart
    <3> QED BY Zenon, <3>2, <3>3
  <2>5. ASSUME NEW w \in FencedWriters, NEW e \in 1 .. MaxLeaseEpoch, IssueLease(w, e)
        PROVE  WritersInv'
    <3> DEFINE l == [writer |-> w, epoch |-> e, cp |-> checkpoint, issued |-> now]
    <3>1. l \in Lease /\ [epoch |-> e, token |-> l] \in Fence
      BY DEF Lease, Fence, WritersTypeOK
    <3>2. WritersTypeOK'
      <4> HIDE DEF l
      <4>1. lease' = [lease EXCEPT ![w] = l] /\ fence' = [epoch |-> e, token |-> l]
        BY Zenon, <2>5 DEF IssueLease, l
      <4> QED BY <2>5, <3>1, <4>1 DEF IssueLease, WritersTypeOK
    <3>3. OwnWriter' /\ SequencesStart'
      BY <2>5 DEF IssueLease, WritersTypeOK, OwnWriter, SequencesStart
    <3> QED BY Zenon, <3>2, <3>3
  <2>6. ASSUME NEW w \in FencedWriters, NEW op \in Ops, AuthorizeWrite(w, op)
        PROVE  WritersInv'
    <3> DEFINE p == [writer |-> w, epoch |-> lease[w].epoch, cp |-> checkpoint, op |-> op]
    <3>1. p \in WritePermit /\ p.epoch > 0 /\ p.writer = w /\ p.op \in Ops
      BY Zenon, <2>6 DEF WritePermit, Lease, WritersTypeOK, OwnWriter, AuthorizeWrite, Authorizable
    <3> HIDE DEF p
    <3>2. permit' = [permit EXCEPT ![w] = p]
      BY Zenon, <2>6 DEF AuthorizeWrite, p
    <3>3. WritersTypeOK'
      BY <2>6, <3>1, <3>2 DEF AuthorizeWrite, WritersTypeOK
    <3>4. OwnWriter' /\ SequencesStart'
      BY <2>6, <3>1, <3>2 DEF AuthorizeWrite, WritersTypeOK, OwnWriter, SequencesStart
    <3> QED BY Zenon, <3>3, <3>4
  <2>7. ASSUME NEW w \in FencedWriters, InstallEffectState(w) PROVE WritersInv'
    <3>1. effects' \in Effects /\ effects'.next > 0
      BY <2>7 DEF InstallEffectState, MakeEffectState, Effects, WritePermit, WritersTypeOK
    <3> QED BY Zenon, <2>7, <3>1 DEF InstallEffectState, WritersTypeOK, OwnWriter, SequencesStart
  <2>8. ASSUME NEW w \in FencedWriters, NEW key \in Keys, PrepareIntent(w, key)
        PROVE  WritersInv'
    <3> DEFINE r == [writer |-> w, epoch |-> permit[w].epoch, cp |-> permit[w].cp,
                     seq |-> effects.next, key |-> key, op |-> permit[w].op]
    <3>1. permit[w].epoch \in 1 .. MaxLeaseEpoch /\ permit[w].cp \in 0 .. MaxCheckpoint
          /\ permit[w].op \in Ops
      BY <2>8 DEF PrepareIntent, WritersTypeOK, OwnWriter, WritePermit
    <3>2. effects.next \in Nat \ {0}
      BY <2>8 DEF PrepareIntent, SameLineage, WritersTypeOK, OwnWriter, Effects, SequencesStart
    <3>3. r \in EffectReceipt
      BY Zenon, <3>1, <3>2 DEF EffectReceipt
    <3>4. [live |-> TRUE, prev |-> effects, receipt |-> r] \in Intent
      <4> HIDE DEF r
      <4> QED BY Zenon, <3>3 DEF Intent, WritersTypeOK
    <3>5. WritersTypeOK'
      <4> HIDE DEF Intent
      <4> QED BY Zenon, <2>8, <3>4 DEF PrepareIntent, WritersTypeOK
    <3>6. OwnWriter' /\ SequencesStart'
      BY Zenon, <2>8 DEF PrepareIntent, OwnWriter, SequencesStart
    <3> QED BY Zenon, <3>5, <3>6
  <2>9. ASSUME NEW w \in FencedWriters, CommitEffect(w) PROVE WritersInv'
    <3>1. intent[w] \in Intent
      BY <2>9 DEF CommitEffect, WritersTypeOK, NoIntent
    <3>2. intent[w].receipt \in EffectReceipt
      BY Zenon, <3>1 DEF Intent
    <3>3. effects' \in Effects /\ receipts' \subseteq EffectReceipt /\ effects'.next > 0
      BY <2>9, <3>2 DEF CommitEffect, Recorded, WritersTypeOK, Effects
    <3>4. WritersTypeOK'
      BY Zenon, <2>9, <3>3 DEF CommitEffect, WritersTypeOK
    <3>5. OwnWriter' /\ SequencesStart'
      BY Zenon, <2>9, <3>3 DEF CommitEffect, OwnWriter, SequencesStart
    <3> QED BY Zenon, <3>4, <3>5
  <2>10. ASSUME NEW r, NEW O, NEW quorum, NEW domains, Confirm(r, O, quorum, domains)
         PROVE  WritersInv'
    BY Zenon, <2>10 DEF Confirm, WritersTypeOK, OwnWriter, SequencesStart
  <2>11. CASE UNCHANGED writersVars
    BY Zenon, <2>11 DEF writersVars, WritersTypeOK, OwnWriter, SequencesStart
  <2> QED
    BY <2>1, <2>2, <2>3, <2>4, <2>5, <2>6, <2>7, <2>8, <2>9, <2>10, <2>11 DEF WritersNext
<1> QED BY <1>1, <1>2, PTL

\* Every receipt stays in the effect state, and an intent was prepared on a state
\* that did not have its key.
EffectsInv ==
  /\ effects.committed = receipts
  /\ \A r, s \in receipts : r.key = s.key => r = s
  /\ \A w \in FencedWriters : intent[w].live =>
       \A r \in intent[w].prev.committed : r.key # intent[w].receipt.key

\* Exactly once, for any number of writers, keys and epochs: whatever the age of
\* the permits and intents that writers use, one idempotency key yields one
\* effect, and replay_committed_effect_v0 reproduces its receipt.
THEOREM ExactlyOnce == WritersSpec => []OneEffectPerKey
<1>1. WritersInit => EffectsInv
  BY DEF WritersInit, EffectsInv, NoIntent
<1>2. WritersInv /\ EffectsInv /\ [WritersNext]_writersVars => EffectsInv'
  <2> SUFFICES ASSUME WritersInv, EffectsInv, [WritersNext]_writersVars
               PROVE  EffectsInv'
    BY Zenon
  <2>1. CASE UNCHANGED <<effects, receipts, intent>>
    BY Zenon, <2>1 DEF EffectsInv
  <2>2. ASSUME NEW w \in FencedWriters, CrashWriter(w) PROVE EffectsInv'
    BY Zenon, <2>2 DEF CrashWriter, WritersInv, WritersTypeOK, EffectsInv, NoIntent
  <2>3. ASSUME NEW w \in FencedWriters, InstallEffectState(w) PROVE EffectsInv'
    BY Zenon, <2>3 DEF InstallEffectState, MakeEffectState, EffectsInv
  <2>4. ASSUME NEW w \in FencedWriters, NEW key \in Keys, PrepareIntent(w, key)
        PROVE  EffectsInv'
    BY Zenon, <2>4 DEF PrepareIntent, WritersInv, WritersTypeOK, EffectsInv
  <2>5. ASSUME NEW w \in FencedWriters, CommitEffect(w) PROVE EffectsInv'
    <3> DEFINE r == intent[w].receipt
    <3>1. /\ effects'.committed = effects.committed \cup {r}
          /\ receipts' = receipts \cup {r}
      BY Zenon, <2>5 DEF CommitEffect, Recorded
    <3>2. \A s \in receipts : s.key # r.key
      BY Zenon, <2>5 DEF CommitEffect, EffectsInv
    <3>3. \A v \in FencedWriters : intent'[v].live => intent'[v] = intent[v]
      BY Zenon, <2>5 DEF CommitEffect, WritersInv, WritersTypeOK, NoIntent
    <3> QED BY <3>1, <3>2, <3>3 DEF EffectsInv
  <2> QED
    BY Zenon, <2>1, <2>2, <2>3, <2>4, <2>5 DEF WritersNext, writersVars, Tick, AdvanceCheckpoint,
      ReadFence, IssueLease, AuthorizeWrite, Confirm
<1>3. EffectsInv => OneEffectPerKey
  BY Zenon DEF EffectsInv, OneEffectPerKey, Replayed
<1> QED BY <1>1, <1>2, <1>3, WritersInductive, PTL DEF WritersSpec

\* The leases, permits and receipts there are, in copies of any age.
Stamps ==
  {NoLease} \cup {lease[w] : w \in FencedWriters} \cup {permit[w] : w \in FencedWriters}
    \cup {intent[w].receipt : w \in {v \in FencedWriters : intent[v].live}} \cup receipts

\* None of a later epoch than the fence state, and those of one epoch agree.
StampsInv ==
  \A x, y \in Stamps :
    /\ x.epoch <= fence.epoch
    /\ x.epoch = y.epoch => x.writer = y.writer /\ x.cp = y.cp

\* A stamp of the next step is one of this step, or carries the epoch, writer
\* and checkpoint of one.
LEMMA StampsInherited ==
  ASSUME \A x \in Stamps' : \E y \in Stamps :
           x.epoch = y.epoch /\ x.writer = y.writer /\ x.cp = y.cp,
         fence' = fence,
         StampsInv
  PROVE  StampsInv'
  BY DEF StampsInv

\* One writer per epoch, for any number of writers and epochs: permits and
\* receipts of one epoch belong to one writer and one checkpoint, although copies
\* of the fence state may be old.
THEOREM WriterOfEpoch == WritersSpec => []OneWriterPerEpoch
<1>1. WritersInit => StampsInv
  BY WritersAssumption
  DEF WritersInit, StampsInv, Stamps, NoLease, NoPermit, NoIntent
<1>2. WritersInv /\ StampsInv /\ [WritersNext]_writersVars => StampsInv'
  <2> SUFFICES ASSUME WritersInv, StampsInv, [WritersNext]_writersVars
               PROVE  StampsInv'
    BY Zenon
  <2> DEFINE Inherited(x) ==
        \E y \in Stamps : x.epoch = y.epoch /\ x.writer = y.writer /\ x.cp = y.cp
  <2>0. \A x \in Stamps : Inherited(x)
    BY Zenon
  <2>1. CASE UNCHANGED <<lease, permit, intent, receipts, fence>>
    BY <2>1 DEF StampsInv, Stamps
  <2>2. ASSUME NEW w \in FencedWriters, CrashWriter(w) PROVE StampsInv'
    <3>1. \A x \in Stamps' : x \in Stamps \/ x = NoPermit
      BY Zenon, <2>2 DEF CrashWriter, WritersInv, WritersTypeOK, Stamps, NoIntent
    <3>2. Inherited(NoPermit)
      <4>1. NoLease \in Stamps
        BY Zenon DEF Stamps
      <4>2. /\ NoPermit.epoch = NoLease.epoch
            /\ NoPermit.writer = NoLease.writer
            /\ NoPermit.cp = NoLease.cp
        BY Zenon DEF NoLease, NoPermit
      <4> QED BY Zenon, <4>1, <4>2
    <3> HIDE DEF Inherited
    <3>3. \A x \in Stamps' : Inherited(x)
      BY Zenon, <2>0, <3>1, <3>2
    <3> QED BY Zenon, <2>2, <3>3, StampsInherited DEF CrashWriter, Inherited
  <2>3. ASSUME NEW w \in FencedWriters, NEW e \in 1 .. MaxLeaseEpoch, IssueLease(w, e)
        PROVE  StampsInv'
    <3> DEFINE l == [writer |-> w, epoch |-> e, cp |-> checkpoint, issued |-> now]
    <3>1. \A x \in Stamps' : x \in Stamps \/ x = l
      BY Zenon, <2>3 DEF IssueLease, WritersInv, WritersTypeOK, Stamps
    <3>2. fence.epoch \in Nat /\ \A x \in Stamps : x.epoch \in Nat
      <4>1. fence.epoch \in Nat /\ NoLease.epoch \in Nat
        BY WritersAssumption DEF WritersInv, WritersTypeOK, Fence, NoLease
      <4>2. \A v \in FencedWriters : lease[v].epoch \in Nat /\ permit[v].epoch \in Nat
        BY WritersAssumption DEF WritersInv, WritersTypeOK, Lease, WritePermit
      <4>3. \A v \in FencedWriters : intent[v].live => intent[v].receipt.epoch \in Nat
        <5>1. \A v \in FencedWriters : intent[v].live => intent[v] \in Intent
          BY DEF WritersInv, WritersTypeOK, NoIntent
        <5>2. \A x \in Intent : x.receipt \in EffectReceipt
          BY Zenon DEF Intent
        <5>3. \A x \in EffectReceipt : x.epoch \in Nat
          BY WritersAssumption DEF EffectReceipt
        <5> QED BY Zenon, <5>1, <5>2, <5>3
      <4>4. \A x \in receipts : x.epoch \in Nat
        BY WritersAssumption DEF WritersInv, WritersTypeOK, EffectReceipt
      <4> QED BY Zenon, <4>1, <4>2, <4>3, <4>4 DEF Stamps
    <3>3. fence'.epoch = e /\ e > fence.epoch
      BY Zenon, <2>3 DEF IssueLease
    <3> QED BY <3>1, <3>2, <3>3 DEF StampsInv
  <2>4. ASSUME NEW w \in FencedWriters, NEW op \in Ops, AuthorizeWrite(w, op)
        PROVE  StampsInv'
    <3>1. \A x \in Stamps' : x \in Stamps \/ x = permit'[w]
      BY Zenon, <2>4 DEF AuthorizeWrite, WritersInv, WritersTypeOK, Stamps
    <3>2. Inherited(permit'[w])
      <4>1. lease[w] \in Stamps
        BY Zenon DEF Stamps
      <4>2. /\ permit'[w].epoch = lease[w].epoch
            /\ permit'[w].writer = lease[w].writer
            /\ permit'[w].cp = lease[w].cp
        BY Zenon, <2>4 DEF AuthorizeWrite, Authorizable, WritersInv, WritersTypeOK, OwnWriter
      <4> QED BY Zenon, <4>1, <4>2
    <3> HIDE DEF Inherited
    <3>3. \A x \in Stamps' : Inherited(x)
      BY Zenon, <2>0, <3>1, <3>2
    <3> QED BY Zenon, <2>4, <3>3, StampsInherited DEF AuthorizeWrite, Inherited
  <2>5. ASSUME NEW w \in FencedWriters, NEW key \in Keys, PrepareIntent(w, key)
        PROVE  StampsInv'
    <3>1. \A x \in Stamps' : x \in Stamps \/ x = intent'[w].receipt
      BY Zenon, <2>5 DEF PrepareIntent, WritersInv, WritersTypeOK, Stamps
    <3>2. Inherited(intent'[w].receipt)
      <4>1. permit[w] \in Stamps
        BY SMTT(30) DEF Stamps
      <4>2. /\ intent'[w].receipt.epoch = permit[w].epoch
            /\ intent'[w].receipt.writer = permit[w].writer
            /\ intent'[w].receipt.cp = permit[w].cp
        BY Zenon, <2>5 DEF PrepareIntent, WritersInv, WritersTypeOK, OwnWriter
      <4> QED BY Zenon, <4>1, <4>2
    <3> HIDE DEF Inherited
    <3>3. \A x \in Stamps' : Inherited(x)
      BY Zenon, <2>0, <3>1, <3>2
    <3> QED BY Zenon, <2>5, <3>3, StampsInherited DEF PrepareIntent, Inherited
  <2>6. ASSUME NEW w \in FencedWriters, CommitEffect(w) PROVE StampsInv'
    <3>1. Stamps' \subseteq Stamps
      BY <2>6 DEF CommitEffect, WritersInv, WritersTypeOK, Stamps, NoIntent
    <3> HIDE DEF Inherited
    <3>2. \A x \in Stamps' : Inherited(x)
      BY Zenon, <2>0, <3>1
    <3> QED BY Zenon, <2>6, <3>2, StampsInherited DEF CommitEffect, Inherited
  <2> QED
    BY Zenon, <2>1, <2>2, <2>3, <2>4, <2>5, <2>6 DEF WritersNext, writersVars, Tick,
      AdvanceCheckpoint, ReadFence, InstallEffectState, Confirm
<1>3. StampsInv => OneWriterPerEpoch
  BY Zenon DEF StampsInv, Stamps, OneWriterPerEpoch
<1> QED BY <1>1, <1>2, <1>3, WritersInductive, PTL DEF WritersSpec

-----------------------------------------------------------------------------
(* The journal and its replicas.                                           *)

\* A prefix, element by element.
LEMMA PrefixPointwise ==
  ASSUME NEW S, NEW s \in Seq(S), NEW t \in Seq(S)
  PROVE  IsPrefix(s, t) <=> Len(s) <= Len(t) /\ \A i \in 1 .. Len(s) : s[i] = t[i]
  BY DEF IsPrefix

\* One journal extends another: reflexive and transitive, and two journals that
\* a third extends are comparable.
LEMMA ExtendsReflexive == ASSUME NEW j \in Journal PROVE Extends(j, j)
  BY PrefixPointwise DEF Extends, Journal

LEMMA ExtendsTransitive ==
  ASSUME NEW i \in Journal, NEW j \in Journal, NEW k \in Journal,
         Extends(i, j), Extends(j, k)
  PROVE  Extends(i, k)
<1>1. i.log \in Seq(Entry) /\ j.log \in Seq(Entry) /\ k.log \in Seq(Entry)
  BY Zenon DEF Journal
<1>2. CASE i.log # <<>>
  <2>1. i.tx = j.tx /\ Len(i.log) <= Len(j.log) /\ \A n \in 1 .. Len(i.log) : i.log[n] = j.log[n]
    BY <1>1, <1>2, PrefixPointwise DEF Extends
  <2>2. j.log # <<>>
    BY <1>1, <1>2, <2>1
  <2>3. j.tx = k.tx /\ Len(j.log) <= Len(k.log) /\ \A n \in 1 .. Len(j.log) : j.log[n] = k.log[n]
    BY <1>1, <2>2, PrefixPointwise DEF Extends
  <2>4. Len(i.log) <= Len(k.log) /\ \A n \in 1 .. Len(i.log) : i.log[n] = k.log[n]
    BY <1>1, <2>1, <2>3
  <2> QED BY Zenon, <1>1, <2>1, <2>3, <2>4, PrefixPointwise DEF Extends
<1> QED BY Zenon, <1>2 DEF Extends

LEMMA ExtendsComparable ==
  ASSUME NEW i \in Journal, NEW j \in Journal, NEW k \in Journal,
         Extends(i, k), Extends(j, k)
  PROVE  Extends(i, j) \/ Extends(j, i)
<1>1. i.log \in Seq(Entry) /\ j.log \in Seq(Entry) /\ k.log \in Seq(Entry)
  BY Zenon DEF Journal
<1>2. CASE i.log # <<>> /\ j.log # <<>>
  <2>1. i.tx = k.tx /\ Len(i.log) <= Len(k.log) /\ \A n \in 1 .. Len(i.log) : i.log[n] = k.log[n]
    BY <1>1, <1>2, PrefixPointwise DEF Extends
  <2>2. j.tx = k.tx /\ Len(j.log) <= Len(k.log) /\ \A n \in 1 .. Len(j.log) : j.log[n] = k.log[n]
    BY <1>1, <1>2, PrefixPointwise DEF Extends
  <2>3. CASE Len(i.log) <= Len(j.log)
    <3>1. \A n \in 1 .. Len(i.log) : i.log[n] = j.log[n]
      BY <1>1, <2>1, <2>2, <2>3
    <3> QED BY Zenon, <1>1, <2>1, <2>2, <2>3, <3>1, PrefixPointwise DEF Extends
  <2>4. CASE Len(j.log) <= Len(i.log)
    <3>1. \A n \in 1 .. Len(j.log) : j.log[n] = i.log[n]
      BY <1>1, <2>1, <2>2, <2>4
    <3> QED BY Zenon, <1>1, <2>1, <2>2, <2>4, <3>1, PrefixPointwise DEF Extends
  <2>5. Len(i.log) \in Nat /\ Len(j.log) \in Nat
    BY <1>1
  <2> QED BY <2>3, <2>4, <2>5
<1> QED BY Zenon, <1>2 DEF Extends

\* The replicas whose disk has all of the journal j.
Behind(j) == {r \in Replicas : Extends(j, disk[r])}

\* A replica answers with no less than it has on disk, and a quorum of disks has
\* every checkpoint.
JournalInv ==
  /\ TypeOK
  /\ \A r \in Replicas : Extends(disk[r], cache[r])
  /\ \A j \in checkpoints : Cardinality(Behind(j)) >= Threshold

\* Disks that only grow keep what a quorum of them has.
LEMMA BehindGrows ==
  ASSUME JournalInv,
         disk' \in [Replicas -> Journal],
         \A r \in Replicas : Extends(disk[r], disk'[r])
  PROVE  \A j \in checkpoints : Cardinality(Behind(j)') >= Threshold
<1> SUFFICES ASSUME NEW j \in checkpoints PROVE Cardinality(Behind(j)') >= Threshold
  BY Zenon
<1>1. j \in Journal /\ disk \in [Replicas -> Journal]
  BY Zenon DEF JournalInv, TypeOK
<1>2. ASSUME NEW r \in Replicas, Extends(j, disk[r]) PROVE Extends(j, disk'[r])
  BY Zenon, <1>1, <1>2, ExtendsTransitive
<1>3. Behind(j) \subseteq Behind(j)'
  BY Zenon, <1>2 DEF Behind, Extends
<1>4. Behind(j)' \subseteq Replicas
  BY Zenon DEF Behind
<1>5. IsFiniteSet(Behind(j)') /\ IsFiniteSet(Behind(j))
  BY Zenon, <1>3, <1>4, FS_Subset, JournalAssumption
<1>6. Cardinality(Behind(j)) <= Cardinality(Behind(j)')
  BY Zenon, <1>3, <1>5, FS_Subset
<1>7. Cardinality(Behind(j)) \in Nat /\ Cardinality(Behind(j)') \in Nat
  BY Zenon, <1>5, FS_CardinalityType
<1> QED BY <1>6, <1>7, JournalAssumption DEF JournalInv

\* A journal that derive_recovery_checkpoint_v0 returns is on a quorum of disks.
LEMMA DerivedIsHeld ==
  ASSUME JournalInv, NEW R \in SUBSET Replicas, NEW t \in Txns, NEW j \in Held(R),
         Derives(R, t, Threshold, j)
  PROVE  j \in Journal /\ Cardinality(Behind(j)) >= Threshold
<1>1. j \in Journal
  BY Zenon DEF Held, JournalInv, TypeOK
<1>2. Agreeing(R, j) \subseteq Behind(j)
  BY Zenon, <1>1, ExtendsReflexive DEF Agreeing, Durable, Behind
<1>3. Cardinality(Agreeing(R, j)) >= Threshold
  BY Zenon DEF Derives, Candidates
<1>4. IsFiniteSet(Behind(j))
  BY Zenon, FS_Subset, JournalAssumption DEF Behind
<1>5. /\ IsFiniteSet(Agreeing(R, j))
      /\ Cardinality(Agreeing(R, j)) <= Cardinality(Behind(j))
  BY Zenon, <1>2, <1>4, FS_Subset
<1>6. Cardinality(Behind(j)) \in Nat /\ Cardinality(Agreeing(R, j)) \in Nat
  BY Zenon, <1>4, <1>5, FS_CardinalityType
<1> QED BY <1>1, <1>3, <1>5, <1>6, JournalAssumption

\* The inductive invariant of the journals and their replicas.
LEMMA JournalInductive == Spec => []JournalInv
<1>1. Init => JournalInv
  <2>1. NoJournal \in Journal /\ NoJournal.log = <<>>
    BY DEF NoJournal, Journal
  <2> QED BY Zenon, <2>1 DEF Init, JournalInv, TypeOK, Extends
<1>2. JournalInv /\ [Next]_vars => JournalInv'
  <2> SUFFICES ASSUME JournalInv, [Next]_vars PROVE JournalInv'
    BY Zenon
  <2>1. CASE UNCHANGED <<cache, disk, checkpoints>> /\ TypeOK'
    BY Zenon, <2>1 DEF JournalInv, Behind, Extends
  <2>2. ASSUME NEW t \in Txns, Prepare(t, StepIds) PROVE JournalInv'
    <3>1. TypeOK'
      BY Zenon, <2>2 DEF Prepare, JournalInv, TypeOK
    <3> QED BY Zenon, <2>1, <2>2, <3>1 DEF Prepare
  <2>3. ASSUME work' \in [Writers -> Journal], UNCHANGED <<prepared, cache, disk, checkpoints>>
        PROVE  JournalInv'
    <3>1. TypeOK'
      BY Zenon, <2>3 DEF JournalInv, TypeOK
    <3> QED BY Zenon, <2>1, <2>3, <3>1
  <2>4. ASSUME NEW w \in Writers, NEW ev \in Evidence, NEW t \in Txns, Open(w, t, ev)
        PROVE  JournalInv'
    <3>1. Opened(t, ev) \in Journal
      BY DEF Opened, Journal, Entry, Kinds
    <3>2. work' \in [Writers -> Journal]
      BY Zenon, <2>4, <3>1 DEF Open, JournalInv, TypeOK
    <3> QED BY Zenon, <2>3, <2>4, <3>2 DEF Open
  <2>5. ASSUME NEW j \in Journal, NEW kind \in Kinds, NEW s \in StepIds \cup {NoStep},
               NEW ev \in Evidence
        PROVE  With(j, kind, s, ev) \in Journal
    <3>1. [kind |-> kind, step |-> s, ev |-> ev] \in Entry
      BY Zenon DEF Entry
    <3> HIDE DEF Entry
    <3> QED BY <3>1 DEF With, Journal
  <2>6. ASSUME NEW w \in Writers, NEW ev \in Evidence, NEW s \in StepIds,
               AppendStep(w, s, ev)
        PROVE  JournalInv'
    <3>1. work[w] \in Journal /\ "step_applied" \in Kinds
      BY Zenon DEF JournalInv, TypeOK, Kinds
    <3>2. With(work[w], "step_applied", s, ev) \in Journal
      BY Zenon, <2>5, <3>1
    <3>3. work' \in [Writers -> Journal]
      BY Zenon, <2>6, <3>2 DEF AppendStep, JournalInv, TypeOK
    <3> QED BY Zenon, <2>3, <2>6, <3>3 DEF AppendStep
  <2>7. ASSUME NEW w \in Writers, NEW ev \in Evidence, NEW t \in Txns,
               NEW n \in 0 .. Len(Steps), NEW commit \in BOOLEAN, Seal(w, t, n, commit, ev)
        PROVE  JournalInv'
    <3> DEFINE state == IF commit THEN "committed" ELSE "aborted"
    <3>1. work[w] \in Journal /\ state \in Kinds
      BY Zenon DEF JournalInv, TypeOK, Kinds
    <3>2. work' = [work EXCEPT ![w] = With(work[w], state, NoStep, ev)]
      BY Zenon, <2>7 DEF Seal, Receipt
    <3> HIDE DEF state
    <3>3. With(work[w], state, NoStep, ev) \in Journal
      <4>1. NoStep \in StepIds \cup {NoStep}
        BY Zenon
      <4> QED BY <2>5, <3>1, <4>1, Zenon
    <3>4. work' \in [Writers -> Journal]
      BY Zenon, <3>2, <3>3 DEF JournalInv, TypeOK
    <3> QED BY Zenon, <2>3, <2>7, <3>4 DEF Seal
  <2>8. ASSUME NEW w \in Writers, Crash(w) PROVE JournalInv'
    <3>1. NoJournal \in Journal
      BY DEF NoJournal, Journal
    <3>2. work' \in [Writers -> Journal]
      BY Zenon, <2>8, <3>1 DEF Crash, JournalInv, TypeOK
    <3> QED BY Zenon, <2>3, <2>8, <3>2 DEF Crash
  <2>9. ASSUME NEW w \in Writers, NEW r \in Replicas, Store(w, r) PROVE JournalInv'
    <3>1. TypeOK'
      BY SMTT(30), <2>9 DEF Store, JournalInv, TypeOK
    <3>2. Extends(disk[r], work[w])
      BY Zenon, <2>9, ExtendsTransitive DEF Store, JournalInv, TypeOK
    <3>3. \A q \in Replicas : Extends(disk'[q], cache'[q])
      BY Zenon, <2>9, <3>2 DEF Store, JournalInv, TypeOK
    <3> QED BY SMTT(30), <2>9, <3>1, <3>3 DEF Store, JournalInv, Behind, Extends
  <2>10. ASSUME NEW r \in Replicas, Sync(r) PROVE JournalInv'
    <3>1. TypeOK'
      BY Zenon, <2>10 DEF Sync, JournalInv, TypeOK
    <3>2. \A q \in Replicas : Extends(disk'[q], cache'[q]) /\ Extends(disk[q], disk'[q])
      BY Zenon, <2>10, ExtendsReflexive DEF Sync, JournalInv, TypeOK
    <3>3. \A j \in checkpoints : Cardinality(Behind(j)') >= Threshold
      BY SMTT(30), <3>1, <3>2, BehindGrows DEF TypeOK
    <3> QED BY Zenon, <2>10, <3>1, <3>2, <3>3 DEF Sync, JournalInv
  <2>11. ASSUME NEW r \in Replicas, CrashReplica(r) PROVE JournalInv'
    <3>1. TypeOK'
      BY Zenon, <2>11 DEF CrashReplica, JournalInv, TypeOK
    <3>2. \A q \in Replicas : Extends(disk'[q], cache'[q])
      BY SMTT(30), <2>11, ExtendsReflexive DEF CrashReplica, JournalInv, TypeOK
    <3> QED BY <2>11, <3>1, <3>2 DEF CrashReplica, JournalInv, Behind, Extends
  <2>12. ASSUME NEW R \in SUBSET Replicas, NEW t \in Txns, NEW j \in Held(R),
                Derives(R, t, Threshold, j), checkpoints' = checkpoints \cup {j},
                UNCHANGED <<prepared, cache, disk>>, work' \in [Writers -> Journal]
         PROVE  JournalInv'
    <3>1. j \in Journal /\ Cardinality(Behind(j)) >= Threshold
      BY <2>12, DerivedIsHeld
    <3>2. TypeOK'
      BY SMTT(30), <2>12, <3>1 DEF JournalInv, TypeOK
    <3>3. ASSUME NEW k \in checkpoints' PROVE Cardinality(Behind(k)') >= Threshold
      <4>1. Behind(k)' = Behind(k)
        BY Zenon, <2>12 DEF Behind, Extends
      <4> QED BY <2>12, <3>1, <4>1 DEF JournalInv
    <3> QED BY <2>12, <3>2, <3>3 DEF JournalInv, Extends
  <2>13. ASSUME NEW R \in SUBSET Replicas, NEW t \in Txns, NEW j \in Held(R),
                Checkpoint(R, t, j)
         PROVE  JournalInv'
    BY <2>12, <2>13 DEF Checkpoint, JournalInv, TypeOK
  <2>14. ASSUME NEW w \in Writers, NEW R \in SUBSET Replicas, NEW t \in Txns,
                NEW j \in Held(R), Resume(w, R, t, j)
         PROVE  JournalInv'
    <3>1. j \in Journal
      BY Zenon, <2>14, DerivedIsHeld DEF Resume
    <3>2. work' \in [Writers -> Journal]
      BY <2>14, <3>1 DEF Resume, JournalInv, TypeOK
    <3> QED BY <2>12, <2>14, <3>2 DEF Resume
  <2>15. CASE UNCHANGED vars
    BY Zenon, <2>1, <2>15 DEF vars, JournalInv, TypeOK
  <2> QED
    BY <2>2, <2>4, <2>6, <2>7, <2>8, <2>9, <2>10, <2>11, <2>13, <2>14, <2>15 DEF Next
<1> QED BY <1>1, <1>2, PTL DEF Spec

\* One history of a recovery, for any number of writers, replicas, transactions
\* and steps and every threshold above half of the replicas: any two journals
\* that derive_recovery_checkpoint_v0 ever returned are prefixes of one another,
\* whichever replicas answered and however often writers and replicas crashed.
THEOREM OneHistory == Spec => []CheckpointsAgree
<1>1. ASSUME JournalInv PROVE CheckpointsAgree
  <2> SUFFICES ASSUME NEW j \in checkpoints, NEW k \in checkpoints
               PROVE  Extends(j, k) \/ Extends(k, j)
    BY Zenon DEF CheckpointsAgree
  <2>1. j \in Journal /\ k \in Journal /\ disk \in [Replicas -> Journal]
    BY Zenon, <1>1 DEF JournalInv, TypeOK
  <2>2. Behind(j) \subseteq Replicas /\ Behind(k) \subseteq Replicas
    BY Zenon DEF Behind
  <2>3. /\ Cardinality(Behind(j)) \in Nat
        /\ Cardinality(Behind(k)) \in Nat
        /\ Cardinality(Replicas) \in Nat
    BY <2>2, FS_Subset, FS_CardinalityType, JournalAssumption
  <2>4. Cardinality(Behind(j)) + Cardinality(Behind(k)) > Cardinality(Replicas)
    BY <1>1, <2>3, JournalAssumption DEF JournalInv
  <2>5. PICK r \in Replicas : r \in Behind(j) /\ r \in Behind(k)
    BY <2>2, <2>4, FS_MajoritiesIntersect, JournalAssumption, Zenon
  <2> QED BY Zenon, <2>1, <2>5, ExtendsComparable DEF Behind
<1> QED BY <1>1, JournalInductive, PTL
=============================================================================

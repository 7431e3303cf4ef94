--------------------------- MODULE RecoveryJournal ---------------------------
(***************************************************************************)
(* The recovery transaction, its journal and the checkpoint that replicas  *)
(* of the journal agree on: koschei/library_recovery_transaction_v0.py,    *)
(* library_recovery_journal_v0.py and library_recovery_replica_quorum_v0.py.*)
(*                                                                         *)
(* The functions of the library return new immutable values; writers hold  *)
(* them in memory, lose them when they crash, and resume from a checkpoint. *)
(* The storage is the host's: a replica takes a journal that extends the   *)
(* one it has, and it is presented as durable once its last write is on    *)
(* disk.  A digest is the value it is a digest of.                         *)
(***************************************************************************)
EXTENDS Integers, Sequences, FiniteSets

CONSTANTS
  Writers,
  Replicas,
  Txns,       \* prepared transactions, by preparation digest
  Steps,      \* ordered_step_ids of the recovery plan
  Evidence,   \* evidence digests
  Threshold,  \* the quorum_threshold the host uses
  NoStep,
  NoTxn

ASSUME JournalAssumption ==
  /\ IsFiniteSet(Replicas)
  /\ Threshold \in Nat
  /\ 2 * Threshold > Cardinality(Replicas)
  /\ Steps \in Seq(STRING)
  /\ NoTxn \notin Txns

VARIABLES
  prepared,    \* transactions whose preparation succeeded
  work,        \* the journal each writer holds
  cache,       \* the journal each replica answers with
  disk,        \* the journal each replica has on disk
  checkpoints  \* history: the canonical journals of all checkpoints

vars == <<prepared, work, cache, disk, checkpoints>>

\* As in SequencesExt, which would quadruple the time of the proofs.
IsPrefix(s, t) == Len(s) <= Len(t) /\ SubSeq(s, 1, Len(s)) = SubSeq(t, 1, Len(s))
Last(s) == s[Len(s)]

Kinds == {"prepared", "step_applied", "committed", "aborted"}
Terminal == {"committed", "aborted"}
StepIds == {Steps[i] : i \in DOMAIN Steps}
Entry == [kind : Kinds, step : StepIds \cup {NoStep}, ev : Evidence]
Journal == [tx : Txns \cup {NoTxn}, log : Seq(Entry)]
NoJournal == [tx |-> NoTxn, log |-> <<>>]

TypeOK ==
  /\ prepared \subseteq Txns
  /\ work \in [Writers -> Journal]
  /\ cache \in [Replicas -> Journal]
  /\ disk \in [Replicas -> Journal]
  /\ checkpoints \subseteq Journal

Init ==
  /\ prepared = {}
  /\ work = [w \in Writers |-> NoJournal]
  /\ cache = [r \in Replicas |-> NoJournal]
  /\ disk = [r \in Replicas |-> NoJournal]
  /\ checkpoints = {}

-----------------------------------------------------------------------------
(* The transaction.                                                        *)

\* prepare_recovery_transaction_v0: every ordered step is prepared, and ready.
Prepare(t, ready) ==
  /\ ready = StepIds
  /\ t \notin prepared
  /\ prepared' = prepared \cup {t}
  /\ UNCHANGED <<work, cache, disk, checkpoints>>

\* What finalize_recovery_transaction_v0 accepts: a commit applied every step in
\* order, an abort a prefix of them.
Finalizable(applied, commit) ==
  IF commit THEN applied = Steps ELSE IsPrefix(applied, Steps)

\* The receipt finalize_recovery_transaction_v0 derives.  The transaction value
\* stays prepared, so any writer may derive any of its receipts at any time.
Receipt(t, n, commit, ev) ==
  [tx |-> t, state |-> IF commit THEN "committed" ELSE "aborted",
   applied |-> SubSeq(Steps, 1, n), ev |-> ev]

-----------------------------------------------------------------------------
(* The journal.                                                            *)

Opened(t, ev) ==
  [tx |-> t, log |-> <<[kind |-> "prepared", step |-> NoStep, ev |-> ev]>>]

IsTerminal(j) == j.log # <<>> /\ Last(j.log).kind \in Terminal

\* The step ids of the journal's STEP_APPLIED entries.
Applied(j) ==
  LET steps == SelectSeq(j.log, LAMBDA e : e.kind = "step_applied")
  IN  [i \in DOMAIN steps |-> steps[i].step]

With(j, kind, step, ev) ==
  [tx |-> j.tx, log |-> Append(j.log, [kind |-> kind, step |-> step, ev |-> ev])]

Open(w, t, ev) ==
  /\ t \in prepared
  /\ work' = [work EXCEPT ![w] = Opened(t, ev)]
  /\ UNCHANGED <<prepared, cache, disk, checkpoints>>

\* append_recovery_step_v0 takes the next step in canonical order only.
CanAppend(j, s) ==
  /\ j.log # <<>>
  /\ ~IsTerminal(j)
  /\ Len(Applied(j)) < Len(Steps)
  /\ s = Steps[Len(Applied(j)) + 1]

AppendStep(w, s, ev) ==
  /\ CanAppend(work[w], s)
  /\ work' = [work EXCEPT ![w] = With(work[w], "step_applied", s, ev)]
  /\ UNCHANGED <<prepared, cache, disk, checkpoints>>

CanSeal(j, rc) ==
  /\ j.log # <<>>
  /\ ~IsTerminal(j)
  /\ rc.tx = j.tx
  /\ rc.applied = Applied(j)

\* seal_recovery_journal_v0 with any receipt of the transaction t
Seal(w, t, n, commit, ev) ==
  LET rc == Receipt(t, n, commit, ev)
  IN  /\ t \in prepared
      /\ Finalizable(rc.applied, commit)
      /\ CanSeal(work[w], rc)
      /\ work' = [work EXCEPT ![w] = With(work[w], rc.state, NoStep, rc.ev)]
      /\ UNCHANGED <<prepared, cache, disk, checkpoints>>

\* A writer dies and forgets what it held.
Crash(w) ==
  /\ work' = [work EXCEPT ![w] = NoJournal]
  /\ UNCHANGED <<prepared, cache, disk, checkpoints>>

-----------------------------------------------------------------------------
(* The replicas (the host's storage).                                      *)

Extends(j, k) == j.log = <<>> \/ (j.tx = k.tx /\ IsPrefix(j.log, k.log))

Store(w, r) ==
  /\ work[w].log # <<>>
  /\ Extends(cache[r], work[w])
  /\ cache' = [cache EXCEPT ![r] = work[w]]
  /\ UNCHANGED <<prepared, work, disk, checkpoints>>

Sync(r) ==
  /\ disk' = [disk EXCEPT ![r] = cache[r]]
  /\ UNCHANGED <<prepared, work, cache, checkpoints>>

CrashReplica(r) ==
  /\ cache' = [cache EXCEPT ![r] = disk[r]]
  /\ UNCHANGED <<prepared, work, disk, checkpoints>>

-----------------------------------------------------------------------------
(* The checkpoint.                                                         *)

Durable(r) == cache[r] = disk[r]

\* Mutant of Agreeing: replicas that are not durable count.
AgreeingAny(R, j) == {r \in R : cache[r] = j}

\* The durable replicas of R that hold exactly j.
Agreeing(R, j) == {r \in R : Durable(r) /\ cache[r] = j}

\* _validate_replica: classify_recovery_resume_v0 accepts the journal.
Valid(j, t) ==
  /\ j.tx = t
  /\ j.log # <<>>
  /\ IsPrefix(Applied(j), Steps)

Held(R) == {cache[r] : r \in R}

Candidates(R, q) ==
  {j \in Held(R) : Cardinality(Agreeing(R, j)) >= q}

\* derive_recovery_checkpoint_v0 on the replicas R returns the journal j: the
\* longest with a quorum, no other quorum as long, no durable replica ahead.
Derives(R, t, q, j) ==
  /\ q \in 1 .. Cardinality(R)
  /\ \A r \in R : Valid(cache[r], t)
  /\ j \in Candidates(R, q)
  /\ \A k \in Candidates(R, q) : k = j \/ Len(k.log) < Len(j.log)
  /\ \A r \in R : Durable(r) => Len(cache[r].log) <= Len(j.log)

Checkpoint(R, t, j) ==
  /\ Derives(R, t, Threshold, j)
  /\ checkpoints' = checkpoints \cup {j}
  /\ UNCHANGED <<prepared, work, cache, disk>>

\* A writer takes over the canonical journal if it may be resumed.
Resume(w, R, t, j) ==
  /\ Derives(R, t, Threshold, j)
  /\ ~IsTerminal(j)
  /\ work' = [work EXCEPT ![w] = j]
  /\ checkpoints' = checkpoints \cup {j}
  /\ UNCHANGED <<prepared, cache, disk>>

Next ==
  \/ \E t \in Txns : Prepare(t, StepIds)
  \/ \E w \in Writers :
       \/ \E ev \in Evidence :
            \/ \E t \in Txns : Open(w, t, ev)
            \/ \E s \in StepIds : AppendStep(w, s, ev)
            \/ \E t \in Txns, n \in 0 .. Len(Steps), commit \in BOOLEAN :
                 Seal(w, t, n, commit, ev)
       \/ Crash(w)
       \/ \E r \in Replicas : Store(w, r)
       \/ \E R \in SUBSET Replicas, t \in Txns : \E j \in Held(R) : Resume(w, R, t, j)
  \/ \E r \in Replicas : Sync(r) \/ CrashReplica(r)
  \/ \E R \in SUBSET Replicas, t \in Txns : \E j \in Held(R) : Checkpoint(R, t, j)

Spec == Init /\ [][Next]_vars

-----------------------------------------------------------------------------

\* A recovery has one history: any two checkpoints that were ever derived, from
\* whichever replicas answered and however many of them crashed, are prefixes
\* of one another, so no recovery is ever both committed and aborted.  It rests on
\* a quorum_threshold above half of the replicas: derive_recovery_checkpoint_v0
\* takes any threshold from one on.
CheckpointsAgree ==
  \A j, k \in checkpoints : Extends(j, k) \/ Extends(k, j)

=============================================================================

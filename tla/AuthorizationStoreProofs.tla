---------------------- MODULE AuthorizationStoreProofs ----------------------
(***************************************************************************)
(* Theorems about AuthorizationStore, for any sets of subjects, permits,   *)
(* constraint sets, administrators and executors.                          *)
(***************************************************************************)
EXTENDS AuthorizationStore, SequenceTheorems, TLAPS

\* What an administrator holds is a state, possibly an old one.
CopiesAreStates ==
  \A a \in Admin : held[a].subject # NoSubject => held[a].chain # <<>>

IInv ==
  /\ AuthTypeOK
  /\ CopiesAreStates
  /\ HeadsAreLawful
  /\ JournalIsHistory
  /\ ClaimsAreLawful
  /\ AtMostOncePerPermit
  /\ ExecutorHolds

-----------------------------------------------------------------------------
\* A prefix of a state's history is a prefix of every later state's.
LEMMA PrefixAppend ==
  ASSUME NEW c \in Chain, NEW d \in Chain, NEW next \in State, IsPrefixOf(c, d)
  PROVE  IsPrefixOf(c, Append(d, next))
  BY DEF IsPrefixOf, Chain

\* A history is a prefix of itself.
LEMMA PrefixSelf ==
  ASSUME NEW c \in Chain, NEW next \in State
  PROVE  IsPrefixOf(c, c) /\ IsPrefixOf(c, Append(c, next))
  BY DEF IsPrefixOf, Chain

\* The history up to the n-th state, as an executor presents it.
LEMMA PrefixCut ==
  ASSUME NEW c \in Chain, NEW n \in 1 .. Len(c)
  PROVE  /\ SubSeq(c, 1, n) \in Chain
         /\ SubSeq(c, 1, n) # <<>>
         /\ IsPrefixOf(SubSeq(c, 1, n), c)
         /\ Last(SubSeq(c, 1, n)) = c[n]
<1>1. /\ SubSeq(c, 1, n) \in Seq(State)
      /\ Len(SubSeq(c, 1, n)) = n
      /\ \A i \in 1 .. n : SubSeq(c, 1, n)[i] = c[i]
  BY SubSeqProperties DEF Chain
<1> QED BY <1>1 DEF IsPrefixOf, Last, Chain

\* Attenuation composes: what narrows a narrowed authority narrows the ceiling.
LEMMA AttenuatesTransitive ==
  ASSUME NEW c \in ConstraintRecord, NEW d \in ConstraintRecord,
         NEW e \in ConstraintRecord, Attenuates(c, d), Attenuates(d, e)
  PROVE  Attenuates(c, e)
  BY DEF Attenuates, ConstraintRecord

\* A transition takes a lawful history to a lawful history.
LEMMA LawfulAppend ==
  ASSUME NEW s \in Subject, NEW chain \in Chain, chain # <<>>, Lawful(s, chain),
         NEW kind \in Kinds, NEW epoch \in Nat, NEW c \in Constraint,
         Transition(s, Last(chain), kind, epoch, c)
  PROVE  LET next == [epoch |-> epoch, status |-> StatusAfter[kind], eff |-> c]
         IN  next \in State /\ Lawful(s, Append(chain, next))
<1> DEFINE next == [epoch |-> epoch, status |-> StatusAfter[kind], eff |-> c]
           longer == Append(chain, next)
           n == Len(chain)
<1>1. next \in State
  BY DEF State, Statuses, StatusAfter, Kinds
<1>2. n \in Nat \ {0} /\ Len(longer) = n + 1 /\ longer[n + 1] = next
      /\ \A i \in 1 .. n : longer[i] = chain[i] /\ chain[i] \in State
  BY <1>1, EmptySeq, LenProperties, AppendProperties DEF Chain
<1>3. Last(chain) = chain[n] /\ chain[n] \in State
  BY <1>2 DEF Last
<1>4. Attenuates(c, Ceiling[s])
  <2>1. CASE kind = "NARROW"
    <3>1. Attenuates(c, chain[n].eff) /\ Attenuates(chain[n].eff, Ceiling[s])
      BY <1>2, <1>3, <2>1 DEF Transition, EffAllowed, Lawful
    <3>2. /\ c \in ConstraintRecord /\ chain[n].eff \in ConstraintRecord
          /\ Ceiling[s] \in ConstraintRecord
      BY <1>3, AuthorizationAssumption DEF State
    <3> QED BY <3>1, <3>2, AttenuatesTransitive
  <2>2. CASE kind = "STEP_UP"
    BY <2>2 DEF Transition, EffAllowed
  <2>3. CASE kind \notin {"NARROW", "STEP_UP"}
    BY <1>2, <1>3, <2>3 DEF Transition, EffAllowed, Lawful
  <2> QED BY <2>1, <2>2, <2>3
<1>5. \A i \in 1 .. n + 1 : Attenuates(longer[i].eff, Ceiling[s])
  BY <1>2, <1>4 DEF Lawful
<1>6. \A i \in 1 .. n :
        /\ chain[i].epoch < epoch
        /\ chain[i].status \in {"active", "suspended"}
        /\ chain[i].status = "suspended" => next.status \in {"revoked", "expired"}
  <2> SUFFICES ASSUME NEW i \in 1 .. n
               PROVE  /\ chain[i].epoch < epoch
                      /\ chain[i].status \in {"active", "suspended"}
                      /\ chain[i].status = "suspended"
                           => next.status \in {"revoked", "expired"}
    OBVIOUS
  <2>1. /\ chain[n].epoch < epoch
        /\ chain[n].status \in {"active", "suspended"}
        /\ chain[n].status = "suspended" => next.status \in {"revoked", "expired"}
    BY <1>3 DEF Transition, State, Statuses, StatusAfter, Kinds
  <2>2. i < n => /\ chain[i].epoch < chain[n].epoch
                 /\ chain[i].status = "active"
    BY <1>2, <2>1 DEF Lawful
  <2> QED BY <1>2, <2>1, <2>2 DEF State
<1>7. \A i, j \in 1 .. n + 1 : i < j =>
        /\ longer[i].epoch < longer[j].epoch
        /\ longer[i].status \in {"active", "suspended"}
        /\ longer[i].status = "suspended"
             => longer[j].status \in {"revoked", "expired"}
  <2> TAKE i, j \in 1 .. n + 1
  <2> HAVE i < j
  <2>1. i \in 1 .. n /\ longer[i] = chain[i]
    BY <1>2
  <2>2. CASE j = n + 1
    BY <1>2, <1>6, <2>1, <2>2
  <2>3. CASE j \in 1 .. n
    BY <1>2, <2>1, <2>3 DEF Lawful
  <2> QED BY <1>2, <2>2, <2>3
<1> QED BY <1>1, <1>2, <1>5, <1>7 DEF Lawful

-----------------------------------------------------------------------------
\* The empty store satisfies the invariant.
LEMMA InitIInv == AuthInit => IInv
<1> SUFFICES ASSUME AuthInit PROVE IInv
  OBVIOUS
<1>0. <<>> \in Chain /\ Len(<<>>) = 0
  BY EmptySeq DEF Chain
<1>1. AuthTypeOK /\ CopiesAreStates /\ ExecutorHolds
  BY <1>0 DEF AuthInit, AuthTypeOK, CopiesAreStates, ExecutorHolds
<1>2. HeadsAreLawful
  <2>1. \A s \in Subject : Lawful(s, <<>>)
    <3>1. 1 .. Len(<<>>) = {}
      BY <1>0
    <3> QED BY <3>1 DEF Lawful
  <2> QED BY <2>1 DEF AuthInit, HeadsAreLawful
<1>3. JournalIsHistory
  BY <1>0 DEF AuthInit, JournalIsHistory
<1>4. ClaimsAreLawful /\ AtMostOncePerPermit
  BY DEF AuthInit, ClaimsAreLawful, AtMostOncePerPermit
<1> QED BY <1>1, <1>2, <1>3, <1>4 DEF IInv

\* A step that moves one head forward and nothing else but the journal keeps
\* whatever refers to the path behind the head.
LEMMA PathIsKept ==
  ASSUME IInv, head' \in [Subject -> Chain],
         \A s \in Subject : \A c \in Chain :
           IsPrefixOf(c, head[s]) => IsPrefixOf(c, head'[s]),
         UNCHANGED <<permitClaims, executorVars, effectRuns>>
  PROVE  ClaimsAreLawful' /\ AtMostOncePerPermit' /\ ExecutorHolds'
<1> USE AuthorizationAssumption DEF IInv
<1>0. UNCHANGED <<permitClaims, stage, permit, presented, effectRuns>>
  BY DEF executorVars
<1>1. ClaimsAreLawful'
  BY <1>0 DEF ClaimsAreLawful, AuthTypeOK, Presentable
<1>2. AtMostOncePerPermit'
  BY <1>0 DEF AtMostOncePerPermit
<1>3. ExecutorHolds'
  BY <1>0 DEF ExecutorHolds, AuthTypeOK, Presentable
<1> QED BY <1>1, <1>2, <1>3

\* register_initial gives a subject without a head its first lawful state.
LEMMA RegisterIInv ==
  ASSUME IInv, NEW s \in Subject, NEW epoch \in Nat, NEW c \in Constraint,
         RegisterInitial(s, epoch, c)
  PROVE  IInv'
<1> USE DEF IInv
<1> DEFINE first == [epoch |-> epoch, status |-> "active", eff |-> c]
<1>1. /\ first \in State /\ <<first>> \in Chain /\ Len(<<first>>) = 1
      /\ <<first>>[1] = first
  BY DEF State, Statuses, Chain
<1>2. head' = [head EXCEPT ![s] = <<first>>] /\ head[s] = <<>>
      /\ head' \in [Subject -> Chain]
  BY <1>1 DEF RegisterInitial, AuthTypeOK
<1>3. \A r \in Subject : \A d \in Chain :
        IsPrefixOf(d, head[r]) => IsPrefixOf(d, head'[r])
  <2> SUFFICES ASSUME NEW d \in Chain, IsPrefixOf(d, <<>>)
               PROVE  IsPrefixOf(d, <<first>>)
    BY <1>2 DEF AuthTypeOK
  <2>1. Len(d) = 0
    BY EmptySeq, LenProperties DEF IsPrefixOf, Chain
  <2> QED BY <1>1, <2>1 DEF IsPrefixOf
<1>4. UNCHANGED <<journal, permitClaims, held, executorVars, effectRuns>>
  BY DEF RegisterInitial
<1>5. ClaimsAreLawful' /\ AtMostOncePerPermit' /\ ExecutorHolds'
  BY <1>2, <1>3, <1>4, PathIsKept
<1>6. AuthTypeOK' /\ CopiesAreStates'
  BY <1>2, <1>4 DEF AuthTypeOK, CopiesAreStates, executorVars
<1>7. HeadsAreLawful'
  <2>1. Lawful(s, <<first>>)
    BY <1>1 DEF Lawful, RegisterInitial, Issued
  <2> QED BY <1>2, <2>1 DEF HeadsAreLawful, AuthTypeOK
<1>8. JournalIsHistory'
  <2>1. \A r \in Subject : \A n \in 2 .. Len(head'[r]) :
          \E t \in journal : t[1] = r /\ Len(t[2]) = n
    BY <1>1, <1>2 DEF JournalIsHistory, AuthTypeOK
  <2>2. \A t \in journal : Len(t[2]) >= 2 /\ IsPrefixOf(t[2], head'[t[1]])
    BY <1>3 DEF JournalIsHistory, AuthTypeOK
  <2> QED BY <1>4, <2>1, <2>2 DEF JournalIsHistory
<1> QED BY <1>5, <1>6, <1>7, <1>8

\* commit_transition extends the head it was compared with, and the journal.
LEMMA CommitIInv ==
  ASSUME IInv, NEW a \in Admin, NEW kind \in Kinds, NEW epoch \in Nat,
         NEW c \in Constraint, CommitTransition(a, kind, epoch, c)
  PROVE  IInv'
<1> USE DEF IInv
<1> DEFINE s == held[a].subject
           chain == held[a].chain
           next == [epoch |-> epoch, status |-> StatusAfter[kind], eff |-> c]
           longer == Append(chain, next)
<1>1. s \in Subject /\ chain \in Chain /\ chain # <<>> /\ head[s] = chain
  BY DEF CommitTransition, Committable, AuthTypeOK, CopiesAreStates
<1>2. next \in State /\ Lawful(s, longer)
  <2>1. Lawful(s, chain)
    BY <1>1 DEF HeadsAreLawful
  <2>2. Transition(s, Last(chain), kind, epoch, c)
    BY DEF CommitTransition
  <2> QED BY <1>1, <2>1, <2>2, LawfulAppend
<1>3. longer \in Chain /\ Len(longer) = Len(chain) + 1 /\ Len(chain) \in Nat \ {0}
  BY <1>1, <1>2, AppendProperties, EmptySeq DEF Chain
<1>4. /\ head' = [head EXCEPT ![s] = longer]
      /\ journal' = journal \cup {<<s, longer>>}
      /\ UNCHANGED <<permitClaims, held, executorVars, effectRuns>>
      /\ head' \in [Subject -> Chain]
  BY <1>3 DEF CommitTransition, AuthTypeOK
<1>5. \A r \in Subject : \A d \in Chain :
        IsPrefixOf(d, head[r]) => IsPrefixOf(d, head'[r])
  <2> SUFFICES ASSUME NEW d \in Chain, IsPrefixOf(d, chain)
               PROVE  IsPrefixOf(d, longer)
    BY <1>1, <1>4 DEF AuthTypeOK
  <2> QED BY <1>1, <1>2, PrefixAppend
<1>6. ClaimsAreLawful' /\ AtMostOncePerPermit' /\ ExecutorHolds'
  BY <1>4, <1>5, PathIsKept
<1>7. AuthTypeOK' /\ CopiesAreStates'
  <2>1. journal' \subseteq Subject \X Chain
    <3> HIDE DEF s, longer
    <3>1. <<s, longer>> \in Subject \X Chain
      BY <1>1, <1>3
    <3> QED BY <3>1, <1>4 DEF AuthTypeOK
  <2> QED BY <2>1, <1>4 DEF AuthTypeOK, CopiesAreStates, executorVars
<1>8. HeadsAreLawful'
  BY <1>2, <1>4 DEF HeadsAreLawful, AuthTypeOK
<1>9. JournalIsHistory'
  <2>1. \A r \in Subject : \A n \in 2 .. Len(head'[r]) :
          \E t \in journal' : t[1] = r /\ Len(t[2]) = n
    <3> TAKE r \in Subject
    <3> TAKE n \in 2 .. Len(head'[r])
    <3>1. CASE r = s /\ n = Len(longer)
      <4>1. <<s, longer>> \in journal'
        BY <1>4
      <4>2. <<s, longer>>[1] = r /\ Len(<<s, longer>>[2]) = n
        BY <3>1
      <4> QED BY <4>1, <4>2
    <3>2. CASE ~(r = s /\ n = Len(longer))
      <4>1. n \in 2 .. Len(head[r])
        BY <1>1, <1>3, <1>4, <3>2 DEF AuthTypeOK
      <4>2. \E t \in journal : t[1] = r /\ Len(t[2]) = n
        BY <4>1 DEF JournalIsHistory
      <4> QED BY <1>4, <4>2
    <3> QED BY <3>1, <3>2
  <2>2. \A t \in journal' : Len(t[2]) >= 2 /\ IsPrefixOf(t[2], head'[t[1]])
    <3> TAKE t \in journal'
    <3>1. CASE t \in journal
      BY <1>5, <3>1 DEF JournalIsHistory, AuthTypeOK
    <3>2. CASE t = <<s, longer>>
      <4>1. t[1] = s /\ t[2] = longer
        BY <3>2
      <4>2. IsPrefixOf(longer, longer)
        BY <1>3 DEF IsPrefixOf, Chain
      <4>3. head'[s] = longer
        BY <1>1, <1>4 DEF AuthTypeOK
      <4> QED BY <1>3, <4>1, <4>2, <4>3
    <3> QED BY <1>4, <3>1, <3>2
  <2> QED BY <2>1, <2>2 DEF JournalIsHistory
<1> QED BY <1>6, <1>7, <1>8, <1>9

\* A copy that an administrator takes is lawful because the head is.
LEMMA ObtainIInv ==
  ASSUME IInv, NEW a \in Admin, NEW s \in Subject, Obtain(a, s)
  PROVE  IInv'
<1> USE DEF IInv
<1>1. AuthTypeOK' /\ CopiesAreStates'
  BY DEF Obtain, AuthTypeOK, CopiesAreStates, tableVars, executorVars
<1>2. HeadsAreLawful' /\ JournalIsHistory'
  BY DEF Obtain, tableVars, HeadsAreLawful, Lawful, JournalIsHistory
<1>3. ClaimsAreLawful' /\ AtMostOncePerPermit' /\ ExecutorHolds'
  BY Zenon DEF Obtain, tableVars, executorVars, ClaimsAreLawful, AtMostOncePerPermit,
         ExecutorHolds, Presentable
<1> QED BY <1>1, <1>2, <1>3

\* The steps of an executor leave heads, journal and copies alone.
LEMMA StoreIsKept ==
  ASSUME IInv, UNCHANGED <<head, journal, held>>
  PROVE  CopiesAreStates' /\ HeadsAreLawful' /\ JournalIsHistory'
  BY DEF IInv, CopiesAreStates, HeadsAreLawful, Lawful, JournalIsHistory

\* An executor presents a committed state that passed the checks on it.
LEMMA PrepareIInv ==
  ASSUME IInv, NEW x \in Executor, NEW p \in Permit,
         NEW n \in 1 .. Len(head[SubjectOf[p]]), Prepare(x, p, n)
  PROVE  IInv'
<1> USE AuthorizationAssumption DEF IInv
<1> DEFINE cut == SubSeq(head[SubjectOf[p]], 1, n)
<1>1. /\ cut \in Chain /\ cut # <<>>
      /\ IsPrefixOf(cut, head[SubjectOf[p]])
      /\ Presentable(p, Last(cut))
  <2>1. head[SubjectOf[p]] \in Chain
    BY DEF AuthTypeOK
  <2>2. Presentable(p, head[SubjectOf[p]][n])
    BY DEF Prepare
  <2> QED BY Zenon, <2>1, <2>2, PrefixCut
<1>2. /\ stage' = [stage EXCEPT ![x] = "prepared"]
      /\ permit' = [permit EXCEPT ![x] = p]
      /\ presented' = [presented EXCEPT ![x] = cut]
      /\ UNCHANGED <<head, journal, permitClaims, held, effectRuns>>
  BY DEF Prepare, tableVars
<1> HIDE DEF cut
<1>3. AuthTypeOK'
  BY <1>1, <1>2 DEF AuthTypeOK, InCall
<1>4. CopiesAreStates' /\ HeadsAreLawful' /\ JournalIsHistory'
  BY <1>2, StoreIsKept
<1>5. ClaimsAreLawful' /\ AtMostOncePerPermit'
  BY Zenon, <1>2 DEF ClaimsAreLawful, AtMostOncePerPermit, Presentable
<1>6. ExecutorHolds'
  BY <1>1, <1>2 DEF ExecutorHolds, AuthTypeOK, Presentable
<1> QED BY <1>3, <1>4, <1>5, <1>6

\* claim_execution makes its executor the only one with the permit's claim.
LEMMA ClaimIInv ==
  ASSUME IInv, NEW x \in Executor, ClaimExecution(x)
  PROVE  IInv'
<1> USE AuthorizationAssumption DEF IInv
<1>1. /\ permit[x] \in Permit /\ presented[x] \in Chain
      /\ presented[x] # <<>> /\ permitClaims[permit[x]] = <<>>
      /\ IsPrefixOf(presented[x], head[SubjectOf[permit[x]]])
      /\ Presentable(permit[x], Last(presented[x]))
  BY DEF ClaimExecution, PermitClaimable, AuthTypeOK, ExecutorHolds
<1>2. /\ permitClaims' = [permitClaims EXCEPT ![permit[x]] = presented[x]]
      /\ stage' = [stage EXCEPT ![x] = "claimed"]
      /\ UNCHANGED <<head, journal, held, permit, presented, effectRuns>>
      /\ stage[x] = "prepared"
  BY DEF ClaimExecution
<1>3. AuthTypeOK'
  BY <1>1, <1>2 DEF AuthTypeOK, InCall
<1>4. CopiesAreStates' /\ HeadsAreLawful' /\ JournalIsHistory'
  BY <1>2, StoreIsKept
<1>5. ClaimsAreLawful' /\ AtMostOncePerPermit'
  BY <1>1, <1>2 DEF ClaimsAreLawful, AtMostOncePerPermit, AuthTypeOK, Presentable
<1>6. effectRuns[permit[x]] = 0
      /\ \A y \in Executor : stage[y] \in {"claimed", "ran"} => permit[y] # permit[x]
  BY <1>1 DEF AtMostOncePerPermit, ExecutorHolds, AuthTypeOK
<1>7. ExecutorHolds'
  BY <1>1, <1>2, <1>6 DEF ExecutorHolds, AuthTypeOK, Presentable
<1> QED BY <1>3, <1>4, <1>5, <1>7

\* The effect runs under the claim, for the first time.
LEMMA RunIInv ==
  ASSUME IInv, NEW x \in Executor, RunPermitEffect(x)
  PROVE  IInv'
<1> USE AuthorizationAssumption DEF IInv
<1>1. /\ permit[x] \in Permit /\ permitClaims[permit[x]] # <<>>
      /\ effectRuns[permit[x]] = 0
  BY DEF RunPermitEffect, AuthTypeOK, ExecutorHolds
<1>2. /\ effectRuns' = [effectRuns EXCEPT ![permit[x]] = 1]
      /\ stage' = [stage EXCEPT ![x] = "ran"] /\ stage[x] = "claimed"
      /\ UNCHANGED <<head, journal, permitClaims, held, permit, presented>>
  BY <1>1 DEF RunPermitEffect, tableVars
<1>3. AuthTypeOK'
  BY <1>1, <1>2 DEF AuthTypeOK, InCall
<1>4. CopiesAreStates' /\ HeadsAreLawful' /\ JournalIsHistory'
  BY <1>2, StoreIsKept
<1>5. ClaimsAreLawful' /\ AtMostOncePerPermit'
  BY <1>1, <1>2 DEF ClaimsAreLawful, AtMostOncePerPermit, AuthTypeOK, Presentable
<1>6. ExecutorHolds'
  BY <1>1, <1>2 DEF ExecutorHolds, AuthTypeOK, Presentable
<1> QED BY <1>3, <1>4, <1>5, <1>6

\* A refused, finished or dead call changes nothing durable.
LEMMA LeaveIInv ==
  ASSUME IInv, NEW x \in Executor, LeaveCall(x), UNCHANGED <<tableVars, held, effectRuns>>
  PROVE  IInv'
<1> USE AuthorizationAssumption DEF IInv
<1>1. UNCHANGED <<head, journal, permitClaims, held, effectRuns>>
  BY DEF tableVars
<1>2. AuthTypeOK'
  BY <1>1, EmptySeq DEF AuthTypeOK, InCall, LeaveCall, Chain
<1>3. CopiesAreStates' /\ HeadsAreLawful' /\ JournalIsHistory'
  BY <1>1, StoreIsKept
<1>4. ClaimsAreLawful' /\ AtMostOncePerPermit'
  BY ZenonT(30), <1>1 DEF ClaimsAreLawful, AtMostOncePerPermit, Presentable
<1>5. ExecutorHolds'
  BY <1>1 DEF ExecutorHolds, AuthTypeOK, Presentable, LeaveCall
<1> QED BY <1>2, <1>3, <1>4, <1>5

\* Every step preserves the invariant.
LEMMA NextIInv == IInv /\ [AuthNext]_authVars => IInv'
<1> SUFFICES ASSUME IInv, [AuthNext]_authVars PROVE IInv'
  OBVIOUS
<1>1. CASE UNCHANGED authVars
  <2> USE <1>1 DEF authVars
  <2>1. AuthTypeOK'
    BY DEF IInv, AuthTypeOK
  <2>2. CopiesAreStates' /\ JournalIsHistory'
    BY DEF IInv, CopiesAreStates, JournalIsHistory
  <2>3. HeadsAreLawful'
    BY DEF IInv, HeadsAreLawful, Lawful
  <2>4. ClaimsAreLawful' /\ AtMostOncePerPermit'
    BY DEF IInv, ClaimsAreLawful, AtMostOncePerPermit, Presentable
  <2>5. ExecutorHolds'
    BY DEF IInv, ExecutorHolds, Presentable
  <2> QED BY <2>1, <2>2, <2>3, <2>4, <2>5 DEF IInv
<1>2. CASE AdminStep
  BY <1>2, AuthorizationAssumption, RegisterIInv, ObtainIInv, CommitIInv DEF AdminStep
<1>3. ASSUME NEW x \in Executor, ExecutorStep(x) PROVE IInv'
  BY <1>3, PrepareIInv, ClaimIInv, RunIInv, LeaveIInv
  DEF ExecutorStep, ExecutionRefused, Return
<1> QED BY <1>1, <1>2, <1>3 DEF AuthNext

-----------------------------------------------------------------------------
\* The invariant holds in every reachable state.
THEOREM Inductive == AuthSpec => []IInv
  BY InitIInv, NextIInv, PTL DEF AuthSpec

\* The variables keep their types.
THEOREM TypeCorrect == AuthSpec => []AuthTypeOK
  BY Inductive, PTL DEF IInv

\* Authority never silently recovers and never exceeds its ceiling.
THEOREM AuthorityIsLawful == AuthSpec => []HeadsAreLawful
  BY Inductive, PTL DEF IInv

\* Every claim is made under a committed, active, live and exact state.
THEOREM ClaimsLawful == AuthSpec => []ClaimsAreLawful
  BY Inductive, PTL DEF IInv

\* The journal records exactly the path to the head.
THEOREM JournalFaithful == AuthSpec => []JournalIsHistory
  BY Inductive, PTL DEF IInv

\* The effect of a permit runs at most once, under its claim.
THEOREM AtMostOnce == AuthSpec => []AtMostOncePerPermit
  BY Inductive, PTL DEF IInv

\* A head moves only by register_initial and by commit_transition.
LEMMA HeadStep ==
  ASSUME IInv, AuthNext
  PROVE  \/ UNCHANGED head
         \/ \E s \in Subject, first \in State :
              /\ head[s] = <<>> /\ first.status = "active"
              /\ head' = [head EXCEPT ![s] = <<first>>]
              /\ UNCHANGED <<permitClaims, effectRuns>>
         \/ \E s \in Subject, next \in State :
              /\ head[s] # <<>>
              /\ Lawful(s, Append(head[s], next))
              /\ head' = [head EXCEPT ![s] = Append(head[s], next)]
              /\ UNCHANGED <<permitClaims, effectRuns>>
<1> USE DEF IInv
<1>1. CASE \E x \in Executor : ExecutorStep(x)
  BY <1>1 DEF ExecutorStep, Prepare, ClaimExecution, ExecutionRefused, RunPermitEffect, Return,
              tableVars
<1>2. ASSUME NEW s \in Subject, NEW e \in 0 .. MaxStateEpoch, NEW c \in Constraint,
             RegisterInitial(s, e, c)
      PROVE  \E first \in State :
               /\ head[s] = <<>> /\ first.status = "active"
               /\ head' = [head EXCEPT ![s] = <<first>>]
               /\ UNCHANGED <<permitClaims, effectRuns>>
  <2>1. [epoch |-> e, status |-> "active", eff |-> c] \in State
    BY AuthorizationAssumption DEF State, Statuses
  <2> QED BY Zenon, <1>2, <2>1 DEF RegisterInitial
<1>3. ASSUME NEW a \in Admin, NEW s \in Subject, Obtain(a, s) PROVE UNCHANGED head
  BY <1>3 DEF Obtain, tableVars
<1>4. ASSUME NEW a \in Admin, NEW kind \in Kinds, NEW e \in 0 .. MaxStateEpoch,
             NEW c \in Constraint, CommitTransition(a, kind, e, c)
      PROVE  \E s \in Subject, next \in State :
               /\ head[s] # <<>>
               /\ Lawful(s, Append(head[s], next))
               /\ head' = [head EXCEPT ![s] = Append(head[s], next)]
               /\ UNCHANGED <<permitClaims, effectRuns>>
  <2> DEFINE s == held[a].subject
             next == [epoch |-> e, status |-> StatusAfter[kind], eff |-> c]
  <2>1. /\ s \in Subject /\ head[s] = held[a].chain /\ head[s] \in Chain
        /\ head[s] # <<>> /\ Lawful(s, head[s])
    BY <1>4 DEF CommitTransition, Committable, AuthTypeOK, CopiesAreStates, HeadsAreLawful
  <2>2. Transition(s, Last(head[s]), kind, e, c)
    BY <1>4, <2>1 DEF CommitTransition
  <2>3. e \in Nat
    BY AuthorizationAssumption
  <2>4. next \in State /\ Lawful(s, Append(head[s], next))
    BY <2>1, <2>2, <2>3, LawfulAppend
  <2>5. /\ head' = [head EXCEPT ![s] = Append(head[s], next)]
        /\ UNCHANGED <<permitClaims, effectRuns>>
    BY <1>4, <2>1 DEF CommitTransition
  <2> HIDE DEF s, next
  <2> QED BY Zenon, <2>1, <2>4, <2>5
<1> QED BY <1>1, <1>2, <1>3, <1>4 DEF AuthNext, AdminStep

\* No commit loses or rolls back a head.
THEOREM HeadsOnlyExtend == AuthSpec => HeadOnlyExtends
<1> DEFINE Extends == \A s \in Subject : IsPrefixOf(head[s], head'[s])
<1>1. ASSUME IInv, AuthNext PROVE Extends
  <2> SUFFICES ASSUME NEW s \in Subject PROVE IsPrefixOf(head[s], head'[s])
    OBVIOUS
  <2>0. head \in [Subject -> Chain]
    BY <1>1 DEF IInv, AuthTypeOK
  <2>1. CASE head'[s] = head[s]
    BY <2>0, <2>1 DEF IsPrefixOf
  <2>2. CASE head[s] = <<>>
    <3>1. \A d \in Chain : IsPrefixOf(<<>>, d)
      BY DEF IsPrefixOf, Chain
    <3>2. head'[s] \in Chain
      BY <1>1, NextIInv DEF IInv, AuthTypeOK
    <3> QED BY <2>2, <3>1, <3>2
  <2>3. CASE \E next \in State : head'[s] = Append(head[s], next)
    BY <2>0, <2>3, PrefixSelf
  <2> QED BY <1>1, <2>0, <2>1, <2>2, <2>3, HeadStep
<1>2. IInv /\ [AuthNext]_authVars => [Extends]_authVars
  BY <1>1
<1> QED BY <1>2, Inductive, PTL DEF AuthSpec, HeadOnlyExtends

\* A claim is made by claim_execution alone, under the head.
LEMMA ClaimStep ==
  ASSUME IInv, AuthNext, NEW p \in Permit, permitClaims'[p] # permitClaims[p]
  PROVE  /\ head[SubjectOf[p]] # <<>>
         /\ Presentable(p, Last(head[SubjectOf[p]]))
<1>1. PICK x \in Executor : ClaimExecution(x)
  BY ZenonT(30) DEF AuthNext, AdminStep, ExecutorStep, RegisterInitial, Obtain, CommitTransition,
         Prepare, ExecutionRefused, RunPermitEffect, Return, tableVars
<1>2. p = permit[x]
  BY <1>1 DEF ClaimExecution, IInv, AuthTypeOK
<1> QED BY SMTT(30), <1>1, <1>2 DEF ClaimExecution, PermitClaimable, IInv, ExecutorHolds

\* A state of the authority that is suspended, ended or of a later epoch shuts
\* out every permit that claim_execution has not claimed before.
THEOREM OldPermitsOut == AuthSpec => OldPermitsStayOut
<1> DEFINE Out ==
      \A p \in Permit :
        LET current == head[SubjectOf[p]] IN
        /\ permitClaims[p] = <<>>
        /\ current # <<>>
        /\ Last(current).status # "active" \/ Last(current).epoch > ValidEpoch[p]
        => permitClaims'[p] = <<>>
<1>1. ASSUME IInv, AuthNext PROVE Out
  <2> SUFFICES ASSUME NEW p \in Permit, permitClaims[p] = <<>>, permitClaims'[p] # <<>>,
                      head[SubjectOf[p]] # <<>>
               PROVE  /\ Last(head[SubjectOf[p]]).status = "active"
                      /\ ~(Last(head[SubjectOf[p]]).epoch > ValidEpoch[p])
    OBVIOUS
  <2>1. /\ Last(head[SubjectOf[p]]).status = "active"
        /\ Last(head[SubjectOf[p]]).epoch <= ValidEpoch[p]
    BY <1>1, ClaimStep DEF Presentable
  <2>2. Last(head[SubjectOf[p]]).epoch \in Nat /\ ValidEpoch[p] \in Nat
    <3>1. head[SubjectOf[p]] \in Seq(State)
      BY <1>1, AuthorizationAssumption DEF IInv, AuthTypeOK, Chain
    <3>2. Last(head[SubjectOf[p]]) \in State
      BY <3>1, EmptySeq, ElementOfSeq DEF Last
    <3> QED BY <3>2, AuthorizationAssumption DEF State
  <2> QED BY <2>1, <2>2
<1>2. IInv /\ [AuthNext]_authVars => [Out]_authVars
  BY <1>1
<1> QED BY <1>2, Inductive, PTL DEF AuthSpec, OldPermitsStayOut

-----------------------------------------------------------------------------
(* The store implements OneShotAuthority.                                  *)

\* An administrator's step grants, suspends or ends one subject's authority,
\* or (NARROW and STEP_UP) leaves its standing as it is.
LEMMA AdminIsOneShot ==
  ASSUME IInv, AdminStep
  PROVE  PermitOneShot!Next \/ UNCHANGED PermitOneShot!vars
<1> USE DEF IInv
<1>0. UNCHANGED <<permitClaims, effectRuns>> /\ head \in [Subject -> Chain]
  BY Zenon DEF AdminStep, RegisterInitial, Obtain, CommitTransition, tableVars, AuthTypeOK
<1>1. CASE UNCHANGED head
  BY <1>0, <1>1 DEF PermitOneShot!vars, SubjectStanding
<1>2. ASSUME NEW s \in Subject, NEW first \in State, head[s] = <<>>,
             first.status = "active", head' = [head EXCEPT ![s] = <<first>>]
      PROVE  PermitOneShot!Next
  <2>1. <<first>> # <<>> /\ Last(<<first>>) = first
    BY DEF Last
  <2>2. SubjectStanding' = [SubjectStanding EXCEPT ![s] = "live"] /\ SubjectStanding[s] = "absent"
    BY Zenon, <1>0, <1>2, <2>1 DEF SubjectStanding, StandingOf
  <2>3. PermitOneShot!Grant(s)
    BY <1>0, <2>2 DEF PermitOneShot!Grant, PermitOneShot!Move
  <2> QED BY <2>3 DEF PermitOneShot!Next
<1>3. ASSUME NEW s \in Subject, NEW next \in State, head[s] # <<>>,
             Lawful(s, Append(head[s], next)),
             head' = [head EXCEPT ![s] = Append(head[s], next)]
      PROVE  PermitOneShot!Next \/ UNCHANGED PermitOneShot!vars
  <2> DEFINE last == Last(head[s])
             longer == Append(head[s], next)
  <2>1. head[s] \in Seq(State) /\ Len(head[s]) \in Nat \ {0}
    BY <1>0, <1>3, EmptySeq DEF Chain
  <2>2. /\ longer # <<>> /\ Last(longer) = next /\ last \in State
        /\ last.status \in {"active", "suspended"}
        /\ last.status = "suspended" => next.status \in {"revoked", "expired"}
    <3>1. /\ longer # <<>> /\ Len(longer) = Len(head[s]) + 1
          /\ longer[Len(head[s]) + 1] = next
          /\ longer[Len(head[s])] = head[s][Len(head[s])]
          /\ head[s][Len(head[s])] \in State
      BY <2>1, AppendProperties, ElementOfSeq
    <3> HIDE DEF longer
    <3>2. /\ longer[Len(head[s])].status \in {"active", "suspended"}
          /\ longer[Len(head[s])].status = "suspended"
               => longer[Len(head[s]) + 1].status \in {"revoked", "expired"}
      <4>1. Lawful(s, longer)
        BY <1>3 DEF longer
      <4> QED BY <2>1, <3>1, <4>1 DEF Lawful
    <3> QED BY <2>1, <3>1, <3>2 DEF Last
  <2>3. head'[s] = longer /\ head'[s] # <<>>
    BY <1>0, <1>3, <2>2
  <2> HIDE DEF longer
  <2>4. SubjectStanding' = [SubjectStanding EXCEPT ![s] = StandingOf(next.status)]
        /\ SubjectStanding[s] = StandingOf(last.status)
    BY Zenon, <1>0, <1>3, <2>2, <2>3 DEF SubjectStanding, longer
  <2>5. CASE next.status = "active"
    <3>1. SubjectStanding' = SubjectStanding
      BY Zenon, <2>2, <2>4, <2>5 DEF SubjectStanding, StandingOf
    <3> QED BY <1>0, <3>1 DEF PermitOneShot!vars
  <2>6. CASE next.status = "suspended"
    <3>1. PermitOneShot!Suspend(s)
      BY <1>0, <2>2, <2>4, <2>6 DEF StandingOf, PermitOneShot!Suspend, PermitOneShot!Move
    <3> QED BY <3>1 DEF PermitOneShot!Next
  <2>7. CASE next.status \in {"revoked", "expired"}
    <3>1. PermitOneShot!End(s)
      BY ZenonT(30), <1>0, <2>2, <2>4, <2>7 DEF StandingOf, PermitOneShot!End, PermitOneShot!Move
    <3> QED BY <3>1 DEF PermitOneShot!Next
  <2> QED BY <2>5, <2>6, <2>7 DEF State, Statuses
<1> QED BY SMTT(30), <1>1, <1>2, <1>3, HeadStep DEF AuthNext

\* claim_execution admits a permit, the callback performs it, and every other
\* step of an executor is invisible.
LEMMA ExecutorIsOneShot ==
  ASSUME IInv, NEW x \in Executor, ExecutorStep(x)
  PROVE  PermitOneShot!Next \/ UNCHANGED PermitOneShot!vars
<1> USE AuthorizationAssumption DEF IInv
<1>0. UNCHANGED head /\ UNCHANGED SubjectStanding
  BY DEF ExecutorStep, Prepare, ClaimExecution, ExecutionRefused, RunPermitEffect, Return,
         tableVars, SubjectStanding
<1>1. CASE ClaimExecution(x)
  <2>1. /\ permit[x] \in Permit /\ permitClaims[permit[x]] = <<>>
        /\ presented[x] # <<>> /\ head[SubjectOf[permit[x]]] = presented[x]
        /\ Last(presented[x]).status = "active"
    BY <1>1 DEF ClaimExecution, PermitClaimable, AuthTypeOK, ExecutorHolds, Presentable
  <2>2. SubjectStanding[SubjectOf[permit[x]]] = "live"
    BY <2>1 DEF SubjectStanding, StandingOf
  <2>3. {p \in Permit : permitClaims'[p] # <<>>}
          = {p \in Permit : permitClaims[p] # <<>>} \cup {permit[x]}
    BY <1>1, <2>1 DEF ClaimExecution, AuthTypeOK
  <2>4. effectRuns' = effectRuns
    BY <1>1 DEF ClaimExecution
  <2>5. PermitOneShot!Admit(permit[x])
    BY <1>0, <2>1, <2>2, <2>3, <2>4 DEF PermitOneShot!Admit
  <2>6. \E t \in Permit : PermitOneShot!Admit(t)
    BY Zenon, <2>1, <2>5 DEF PermitOneShot!Admit
  <2> QED BY <2>6 DEF PermitOneShot!Next
<1>2. CASE RunPermitEffect(x)
  <2>1. permit[x] \in Permit /\ permitClaims[permit[x]] # <<>> /\ effectRuns[permit[x]] = 0
    BY <1>2 DEF RunPermitEffect, AuthTypeOK, ExecutorHolds
  <2>2. effectRuns' = [effectRuns EXCEPT ![permit[x]] = 1] /\ UNCHANGED permitClaims
    BY <1>2, <2>1 DEF RunPermitEffect, tableVars
  <2>3. PermitOneShot!Perform(permit[x])
    BY <1>0, <2>1, <2>2 DEF PermitOneShot!Perform
  <2>4. \E t \in Permit : PermitOneShot!Perform(t)
    BY <2>1, <2>3
  <2> QED BY <2>4 DEF PermitOneShot!Next
<1>3. CASE \/ ExecutionRefused(x) \/ Return(x)
           \/ \E p \in Permit : \E n \in 1 .. Len(head[SubjectOf[p]]) : Prepare(x, p, n)
  <2>1. UNCHANGED <<permitClaims, effectRuns>>
    BY <1>3 DEF ExecutionRefused, Return, Prepare, tableVars
  <2> QED BY <1>0, <2>1 DEF PermitOneShot!vars
<1> QED BY <1>1, <1>2, <1>3 DEF ExecutorStep

\* Every behaviour of the store and its executors is one that
\* OneShotAuthority allows.
THEOREM StoreKeepsPromise == AuthSpec => PermitsKeepOneShotPromise
<1>1. AuthInit => PermitOneShot!Init
  BY DEF AuthInit, SubjectStanding, PermitOneShot!Init
<1>2. IInv /\ [AuthNext]_authVars => [PermitOneShot!Next]_(PermitOneShot!vars)
  <2>1. CASE AuthNext
    BY <2>1, AdminIsOneShot, ExecutorIsOneShot DEF AuthNext
  <2>2. CASE UNCHANGED authVars
    BY <2>2 DEF authVars, SubjectStanding, PermitOneShot!vars
  <2> QED BY <2>1, <2>2
<1> QED BY <1>1, <1>2, Inductive, PTL DEF AuthSpec, PermitsKeepOneShotPromise, PermitOneShot!Spec
=============================================================================

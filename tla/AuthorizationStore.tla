------------------------- MODULE AuthorizationStore -------------------------
(***************************************************************************)
(* Authorization states and their durable use:                             *)
(* koschei/authorization_transition_v1.py (how a state may change),        *)
(* koschei/durable_authorization_store_v1.py (the SQLite store: one head   *)
(* per subject, moved by compare-and-swap, and one claim per permit) and   *)
(* koschei/durable_effect_execution_v1.py (claim, then run the effect).    *)
(*                                                                         *)
(* A sealed state commits to its predecessor by digest, so a state is the  *)
(* sequence of the states that led to it: equal sequences, equal digests.  *)
(* Administrators derive states from copies they hold, executors present   *)
(* copies they hold; only the store knows which one is current.            *)
(***************************************************************************)
EXTENDS Integers, Sequences

CONSTANTS
  Subject,
  Constraint,   \* the constraint sets in use, see ConstraintRecord
  Ceiling,      \* the authority ceiling of a subject (its leaf delegation)
  MaxStateEpoch,  \* bound on the epochs of states
  Permit,       \* execution permits, each sealed to
  SubjectOf,    \* a principal,
  ValidEpoch,   \* an epoch
  ScopeOf,      \* and a request (with its operation, arguments and audience)
  Admin,
  Executor,
  NoSubject,
  NoPermit

\* ConstraintSetV1: the four string sets are one set of scopes; until beyond
\* every epoch stands for no expiry; depth is 0 when delegation ends here.
ConstraintRecord == [scope : SUBSET Nat, from : Nat, until : Nat, depth : Nat]

ASSUME AuthorizationAssumption ==
  /\ Constraint \subseteq ConstraintRecord
  /\ Ceiling \in [Subject -> Constraint]
  /\ MaxStateEpoch \in Nat
  /\ SubjectOf \in [Permit -> Subject]
  /\ ValidEpoch \in [Permit -> Nat]
  /\ ScopeOf \in [Permit -> Nat]
  /\ NoSubject \notin Subject
  /\ NoPermit \notin Permit

VARIABLES
  head,         \* authorization_heads: the current state of a subject, or <<>>
  journal,      \* authorization_transitions: the states committed by transition
  permitClaims, \* execution_claims: the state a permit was claimed under, or <<>>
  held,         \* the state each administrator works on
  stage,        \* where each executor is in its call,
  permit,       \* with its permit
  presented,    \* and the state it presents
  effectRuns    \* history: how often the effect of a permit ran

tableVars == <<head, journal, permitClaims>>
executorVars == <<stage, permit, presented>>
authVars == <<head, journal, permitClaims, held, stage, permit, presented, effectRuns>>

Statuses == {"active", "suspended", "revoked", "expired"}
State == [epoch : Nat, status : Statuses, eff : Constraint]
Chain == Seq(State)
Last(chain) == chain[Len(chain)]
InCall == {"prepared", "claimed", "ran"}

AuthTypeOK ==
  /\ head \in [Subject -> Chain]
  /\ journal \subseteq Subject \X Chain
  /\ permitClaims \in [Permit -> Chain]
  /\ held \in [Admin -> [subject : Subject \cup {NoSubject}, chain : Chain]]
  /\ stage \in [Executor -> {"idle"} \cup InCall]
  /\ permit \in [Executor -> Permit \cup {NoPermit}]
  /\ presented \in [Executor -> Chain]
  /\ effectRuns \in [Permit -> Nat]
  /\ \A x \in Executor : stage[x] # "idle" => permit[x] \in Permit

AuthInit ==
  /\ head = [s \in Subject |-> <<>>]
  /\ journal = {}
  /\ permitClaims = [p \in Permit |-> <<>>]
  /\ held = [a \in Admin |-> [subject |-> NoSubject, chain |-> <<>>]]
  /\ stage = [x \in Executor |-> "idle"]
  /\ permit = [x \in Executor |-> NoPermit]
  /\ presented = [x \in Executor |-> <<>>]
  /\ effectRuns = [p \in Permit |-> 0]

-----------------------------------------------------------------------------
(* States and their transitions.                                           *)

\* assert_live
Live(c, epoch) == c.from <= epoch /\ epoch < c.until

\* assert_attenuates, between states of one subject (no delegation hop)
Attenuates(child, parent) ==
  /\ child.scope \subseteq parent.scope
  /\ child.from >= parent.from
  /\ child.until <= parent.until
  /\ child.depth <= parent.depth

\* issue_authorization_state_v1
Issued(s, epoch, c) ==
  /\ Attenuates(c, Ceiling[s])
  /\ Live(c, epoch)

StatusAfter ==
  [NARROW |-> "active", STEP_UP |-> "active",
   SUSPEND |-> "suspended", REVOKE |-> "revoked", EXPIRE |-> "expired"]
Kinds == {"NARROW", "STEP_UP", "SUSPEND", "REVOKE", "EXPIRE"}

\* The constraints a transition may carry.
EffAllowed(s, cur, kind, c) ==
  CASE kind = "NARROW"  -> Attenuates(c, cur.eff)
    [] kind = "STEP_UP" -> Attenuates(c, Ceiling[s])
    [] OTHER            -> c = cur.eff

\* transition_authorization_state_v1: whether cur may move by kind.
Transition(s, cur, kind, epoch, c) ==
  /\ epoch > cur.epoch
  /\ cur.status \notin {"revoked", "expired"}
  /\ cur.status = "suspended" => kind \in {"REVOKE", "EXPIRE"}
  /\ EffAllowed(s, cur, kind, c)

-----------------------------------------------------------------------------
(* Administrators.                                                         *)

\* issue_authorization_state_v1, then register_initial: the primary key
\* admits one head per subject.
RegisterInitial(s, epoch, c) ==
  /\ Issued(s, epoch, c)
  /\ head[s] = <<>>
  /\ head' = [head EXCEPT
       ![s] = <<[epoch |-> epoch, status |-> "active", eff |-> c]>>]
  /\ UNCHANGED <<journal, permitClaims, held, executorVars, effectRuns>>

\* An administrator takes a copy of the current state.
Obtain(a, s) ==
  /\ head[s] # <<>>
  /\ held' = [held EXCEPT ![a] = [subject |-> s, chain |-> head[s]]]
  /\ UNCHANGED <<tableVars, executorVars, effectRuns>>

\* Mutant of Committable: no comparison with the current head.
CommittableAnywhere(s, chain, next) ==
  head[s] # <<>> /\ <<s, Append(chain, next)>> \notin journal

\* The transaction of commit_transition: the predecessor is the head, and the
\* transition is not in the journal.
Committable(s, chain, next) ==
  /\ head[s] = chain
  /\ <<s, Append(chain, next)>> \notin journal

\* It derives a successor of the state it holds, current or not, and commits
\* it; its own copy is not refreshed.
CommitTransition(a, kind, epoch, c) ==
  LET s == held[a].subject
      chain == held[a].chain
      next == [epoch |-> epoch, status |-> StatusAfter[kind], eff |-> c]
  IN  /\ s # NoSubject
      /\ Transition(s, Last(chain), kind, epoch, c)
      /\ Committable(s, chain, next)
      /\ head' = [head EXCEPT ![s] = Append(chain, next)]
      /\ journal' = journal \cup {<<s, Append(chain, next)>>}
      /\ UNCHANGED <<permitClaims, held, executorVars, effectRuns>>

-----------------------------------------------------------------------------
(* Executors.                                                              *)

IsPrefixOf(c, d) == Len(c) <= Len(d) /\ \A i \in 1 .. Len(c) : c[i] = d[i]

\* The call returns or raises.
LeaveCall(x) ==
  /\ stage' = [stage EXCEPT ![x] = "idle"]
  /\ permit' = [permit EXCEPT ![x] = NoPermit]
  /\ presented' = [presented EXCEPT ![x] = <<>>]

\* assert_active, assert_effect_authorization_binding_v1 and is_live_for: what
\* claim_execution checks on its arguments before it opens the transaction.
Presentable(p, state) ==
  /\ state.status = "active"
  /\ state.epoch <= ValidEpoch[p]
  /\ Live(state.eff, ValidEpoch[p])
  /\ state.eff.scope = {ScopeOf[p]}
  /\ state.eff.depth = 0

\* Mutant of Prepare: the exact-scope binding is left to the wrapper.
PrepareUnbound(x, p, n) ==
  LET current == head[SubjectOf[p]] IN
  /\ stage[x] = "idle"
  /\ n \in 1 .. Len(current)
  /\ current[n].status = "active"
  /\ current[n].epoch <= ValidEpoch[p]
  /\ stage' = [stage EXCEPT ![x] = "prepared"]
  /\ permit' = [permit EXCEPT ![x] = p]
  /\ presented' = [presented EXCEPT ![x] = SubSeq(current, 1, n)]
  /\ UNCHANGED <<tableVars, held, effectRuns>>

\* A call with permit p and the n-th state of its subject.  A state that was
\* derived and never committed differs from every head and fares like a stale
\* one.
Prepare(x, p, n) ==
  LET current == head[SubjectOf[p]] IN
  /\ stage[x] = "idle"
  /\ n \in 1 .. Len(current)
  /\ Presentable(p, current[n])
  /\ stage' = [stage EXCEPT ![x] = "prepared"]
  /\ permit' = [permit EXCEPT ![x] = p]
  /\ presented' = [presented EXCEPT ![x] = SubSeq(current, 1, n)]
  /\ UNCHANGED <<tableVars, held, effectRuns>>

\* Mutants of PermitClaimable: no head comparison; no primary key.
ClaimsAnyState(p, chain) == head[SubjectOf[p]] # <<>> /\ permitClaims[p] = <<>>
PermitReclaimable(p, chain) == head[SubjectOf[p]] = chain

\* The transaction of claim_execution: the presented state is the head (and so
\* active, of the same epoch and intent), and the permit has no claim yet.
PermitClaimable(p, chain) ==
  /\ head[SubjectOf[p]] = chain
  /\ permitClaims[p] = <<>>

ClaimExecution(x) ==
  /\ stage[x] = "prepared"
  /\ PermitClaimable(permit[x], presented[x])
  /\ permitClaims' = [permitClaims EXCEPT ![permit[x]] = presented[x]]
  /\ stage' = [stage EXCEPT ![x] = "claimed"]
  /\ UNCHANGED <<head, journal, held, permit, presented, effectRuns>>

ExecutionRefused(x) ==
  /\ stage[x] = "prepared"
  /\ ~PermitClaimable(permit[x], presented[x])
  /\ LeaveCall(x)
  /\ UNCHANGED <<tableVars, held, effectRuns>>

\* execute_effect_with_receipt_v1 with a fresh permit ledger: its consume
\* cannot refuse.  The callback may have done anything when it raises.
RunPermitEffect(x) ==
  /\ stage[x] = "claimed"
  /\ effectRuns' = [effectRuns EXCEPT ![permit[x]] = @ + 1]
  /\ stage' = [stage EXCEPT ![x] = "ran"]
  /\ UNCHANGED <<tableVars, held, permit, presented>>

\* The receipt (effect-completed or effect-failed) is returned, or the
\* executor dies somewhere in the call.
Return(x) ==
  /\ stage[x] # "idle"
  /\ LeaveCall(x)
  /\ UNCHANGED <<tableVars, held, effectRuns>>

AdminStep ==
  \/ \E s \in Subject, e \in 0 .. MaxStateEpoch, c \in Constraint :
       RegisterInitial(s, e, c)
  \/ \E a \in Admin :
       \/ \E s \in Subject : Obtain(a, s)
       \/ \E kind \in Kinds, e \in 0 .. MaxStateEpoch, c \in Constraint :
            CommitTransition(a, kind, e, c)

ExecutorStep(x) ==
  \/ \E p \in Permit : \E n \in 1 .. Len(head[SubjectOf[p]]) : Prepare(x, p, n)
  \/ ClaimExecution(x)
  \/ ExecutionRefused(x)
  \/ RunPermitEffect(x)
  \/ Return(x)

AuthNext == AdminStep \/ \E x \in Executor : ExecutorStep(x)

AuthSpec == AuthInit /\ [][AuthNext]_authVars

-----------------------------------------------------------------------------
\* A lawful state: epochs only grow, no state leaves the ceiling, a suspended
\* state is followed only by its end, and an ended one by nothing.
Lawful(s, chain) ==
  /\ \A i \in 1 .. Len(chain) : Attenuates(chain[i].eff, Ceiling[s])
  /\ \A i, j \in 1 .. Len(chain) : i < j =>
       /\ chain[i].epoch < chain[j].epoch
       /\ chain[i].status \in {"active", "suspended"}
       /\ chain[i].status = "suspended" => chain[j].status \in {"revoked", "expired"}

\* Authority never silently recovers and never exceeds its ceiling, over any
\* number of transitions by administrators that work on stale copies.
HeadsAreLawful == \A s \in Subject : Lawful(s, head[s])

\* The journal is the history of the heads: it holds every state on the path
\* to the current one but the first, and no state that is off that path.
JournalIsHistory ==
  /\ \A s \in Subject : \A n \in 2 .. Len(head[s]) :
       \E t \in journal : t[1] = s /\ Len(t[2]) = n
  /\ \A t \in journal : Len(t[2]) >= 2 /\ IsPrefixOf(t[2], head[t[1]])

\* Every claim names a committed state (it lies on the path to the head) that
\* was active, of no later epoch than the permit, live in the permit's epoch
\* and exactly of the permit's scope.
ClaimsAreLawful ==
  \A p \in Permit : permitClaims[p] # <<>> =>
    /\ IsPrefixOf(permitClaims[p], head[SubjectOf[p]])
    /\ Presentable(p, Last(permitClaims[p]))

\* The effect of a permit runs at most once and only under its claim.
AtMostOncePerPermit ==
  \A p \in Permit : effectRuns[p] <= (IF permitClaims[p] = <<>> THEN 0 ELSE 1)

\* An executor inside its call presents a state that was current, and one past
\* the claim holds the claim alone, its effect run exactly when it is past
\* the callback.  With it the invariants above are inductive.
ExecutorHolds ==
  \A x \in Executor :
    /\ stage[x] # "idle" =>
         /\ presented[x] # <<>>
         /\ IsPrefixOf(presented[x], head[SubjectOf[permit[x]]])
         /\ Presentable(permit[x], Last(presented[x]))
    /\ stage[x] \in {"claimed", "ran"} =>
         /\ permitClaims[permit[x]] # <<>>
         /\ effectRuns[permit[x]] = IF stage[x] = "ran" THEN 1 ELSE 0
         /\ \A y \in Executor :
              stage[y] \in {"claimed", "ran"} /\ permit[y] = permit[x] => x = y

\* A head is never lost or rolled back: every commit extends it, although the
\* administrators race with copies of different age.
HeadOnlyExtends ==
  [][\A s \in Subject : IsPrefixOf(head[s], head'[s])]_authVars

\* Once a suspended or ended state, or one of a later epoch than the permit's,
\* is the head, the permit is not claimed any more: not by a call either that
\* passed the checks of claim_execution with an earlier state before.
OldPermitsStayOut ==
  [][\A p \in Permit :
       LET current == head[SubjectOf[p]] IN
       /\ permitClaims[p] = <<>>
       /\ current # <<>>
       /\ Last(current).status # "active" \/ Last(current).epoch > ValidEpoch[p]
       => permitClaims'[p] = <<>>]_authVars

-----------------------------------------------------------------------------
StandingOf(status) == IF status = "active" THEN "live"
                      ELSE IF status = "suspended" THEN "suspended"
                      ELSE "ended"

SubjectStanding ==
  [s \in Subject |->
     IF head[s] = <<>> THEN "absent" ELSE StandingOf(Last(head[s]).status)]

PermitOneShot == INSTANCE OneShotAuthority WITH
  Authority <- Subject,
  Ticket <- Permit,
  AuthorityOf <- SubjectOf,
  standing <- SubjectStanding,
  admitted <- {p \in Permit : permitClaims[p] # <<>>},
  performed <- effectRuns

\* The store and its executors keep the promise of OneShotAuthority: a permit
\* is claimed once and only while its subject is active, the effect follows
\* the claim and runs once, and a lost authority stays lost.
PermitsKeepOneShotPromise == PermitOneShot!Spec
=============================================================================

------------------------------- MODULE MCHost -------------------------------
(***************************************************************************)
(* Components of the host around an effect and of recovery, checked side   *)
(* by side: a behaviour exercises one of them.                             *)
(* Runner accounting: two tenants and three runs. Replay ledgers: three    *)
(* callers, two requests, an allowing and two refusing proofs. Bootstrap   *)
(* effects: a root, a broker below it, and leaves for the principal,       *)
(* lawful ones, one that widens its parent and one that does not consume   *)
(* depth. Library containment: every graph over a ring of three roots, two *)
(* scenarios merged, up to two isolated roots within the budget.           *)
(* Recovery journal: three replicas of which two are a quorum, and a       *)
(* transaction of one step, committed or aborted before or after it; one   *)
(* writer is enough for rival histories, since after a crash it opens the  *)
(* journal anew, next to what it stored before. Recovery writers: two      *)
(* writers over two epochs; leases last one tick of two, the checkpoint    *)
(* moves once; one key, two operations; two observers of different trust   *)
(* domains. Bounded queue: three threads on a ring of two slots, so that   *)
(* full, empty and wrapped rings are reached with threads waiting for the  *)
(* lock.                                                                   *)
(***************************************************************************)
EXTENDS RunnerAccounting, ReplayLedger, BootstrapEffects, LibraryContainment,
        RecoveryJournal, RecoveryWriters, BoundedQueue, TLC

CONSTANTS
  t1, t2, r1, r2, r3, c1, c2, c3, pAllow, pDeny, pContain, root, mid, wide,
  flat, below, owner, broker, user, w1, w2, x1

VARIABLE part  \* the component that this behaviour exercises

MCTenant == {t1, t2}
MCRun == {r1, r2, r3}
MCSeeds == {0, 3}
MCDurations == {0, 499, 500, 1001}
MCDecisionOf == pAllow :> "ALLOW" @@ pDeny :> "DENY" @@ pContain :> "CONTAIN"
Con(scope, until, depth) == [scope |-> scope, until |-> until, depth |-> depth]
MCLink == {root, mid, wide, flat, below}
MCLinkOf ==
  root  :> [parent |-> NoLink, issuer |-> owner, subject |-> broker, con |-> Con({1, 2}, 3, 1)] @@
  mid   :> [parent |-> root, issuer |-> broker, subject |-> user, con |-> Con({1, 2}, 3, 0)] @@
  wide  :> [parent |-> root, issuer |-> broker, subject |-> user, con |-> Con({1, 3}, 3, 0)] @@
  flat  :> [parent |-> root, issuer |-> broker, subject |-> broker, con |-> Con({1, 2}, 3, 1)] @@
  below :> [parent |-> flat, issuer |-> broker, subject |-> user, con |-> Con({1}, 3, 0)]
MCConstraint == {Con({1, 2}, 3, 0), Con({1}, 3, 0), Con({1, 3}, 3, 0)}
MCPermitOf == c1 :> [scope |-> 1, epoch |-> 1] @@ c2 :> [scope |-> 1, epoch |-> 2]
                @@ c3 :> [scope |-> 1, epoch |-> 2]
MCCaller == {c1, c2, c3}
MCRequest == {root, mid}
MCProof == {pAllow, pDeny, pContain}
MCRoots == 1 .. 3
MCEdgeSpace == {<<1, 2>>, <<2, 3>>, <<3, 1>>}
MCBudgets == {2}

MCReplicas == {r1, r2, r3}
MCWriters == {w1}
MCTxns == {x1}
MCSteps == <<"a">>
MCFenced == {w1, w2}
MCDomain == [o \in MCFenced |-> o]

\* Runs, replicas and threads are the same three model values, tenants and
\* operations the same two.
MCSymmetry == Permutations(MCTenant) \cup Permutations(MCRun)

hostVars == <<runnerVars, replayVars, bootstrapVars, libraryVars>>
recoveryVars == <<vars, writersVars, queueVars>>
suiteVars == <<part, hostVars, recoveryVars>>

\* Each component is in an initial state; of a component that is not exercised,
\* in one fixed initial state.
SuiteInit ==
  /\ part \in {"runner", "replay", "effects", "library", "journal", "writers", "queue"}
  /\ RunnerInit
  /\ ReplayInit
  /\ part # "replay" => ~ durable
  /\ BootstrapInit
  /\ LibraryInit
  /\ part # "library" => edges = {}
  /\ Init
  /\ WritersInit
  /\ QueueInit

RunnerStep == part = "runner" /\ RunnerNext /\ UNCHANGED <<replayVars, bootstrapVars, libraryVars>>
ReplayStep == part = "replay" /\ ReplayNext /\ UNCHANGED <<runnerVars, bootstrapVars, libraryVars>>
EffectsStep == part = "effects" /\ BootstrapNext /\ UNCHANGED <<runnerVars, replayVars, libraryVars>>
LibraryStep == part = "library" /\ LibraryNext /\ UNCHANGED <<runnerVars, replayVars, bootstrapVars>>
JournalStep == part = "journal" /\ Next /\ UNCHANGED <<writersVars, queueVars>>
WritersStep == part = "writers" /\ WritersNext /\ UNCHANGED <<vars, queueVars>>
QueueStep == part = "queue" /\ QueueNext /\ UNCHANGED <<vars, writersVars>>

HostStep ==
  /\ RunnerStep \/ ReplayStep \/ EffectsStep \/ LibraryStep
  /\ UNCHANGED <<part, recoveryVars>>

RecoveryStep ==
  /\ JournalStep \/ WritersStep \/ QueueStep
  /\ UNCHANGED <<part, hostVars>>

\* The host's components may come to rest: all runs settled, all epochs over.
Rest ==
  /\ part \in {"runner", "replay", "effects", "library"}
  /\ UNCHANGED suiteVars

SuiteNext == HostStep \/ RecoveryStep \/ Rest

SuiteSpec ==
  /\ SuiteInit
  /\ [][SuiteNext]_suiteVars

=============================================================================

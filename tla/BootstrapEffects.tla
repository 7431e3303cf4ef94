-------------------------- MODULE BootstrapEffects --------------------------
(***************************************************************************)
(* Effects under freshly verified delegated authority, in one process:     *)
(* koschei/fresh_effect_authorization_v1.py over the in-memory ledgers of  *)
(* authorization_state_ledger_v1.py and execution_permit_v1.py, with the   *)
(* delegation chains of authorization_transition_v1.py.                    *)
(*                                                                         *)
(* The process runs one call at a time, but an effect is a callback: while *)
(* it runs, other calls are made below it.  Delegations are revoked by     *)
(* their issuers at any time; a presented link carries the verdict of the  *)
(* epoch in which the adapter last verified it.                            *)
(***************************************************************************)
EXTENDS Naturals, Sequences, FiniteSets

CONSTANTS
  Link,        \* delegation links
  LinkOf,      \* what a link grants: [parent, issuer, subject, con]
  Revocable,   \* the links whose issuers may revoke them
  NoLink,      \* the parent of a root
  Principal,   \* the subject whose effects are executed
  Constraint,  \* constraint sets: [scope, until, depth]
  Permit,
  PermitOf,    \* a permit's request and epoch: [scope, epoch]
  MaxEpoch,
  MaxChain,    \* bound on the length of a presented chain
  MaxHistory   \* bound on the transitions of the subject's state

VARIABLES
  epoch,     \* the current epoch
  revokedAt, \* the epoch in which a link was revoked, or 0
  checked,   \* a link's last verification: [epoch, valid]
  states,    \* the subject's states from the first to the current one
  consumed,  \* ExecutionPermitLedgerV1.consumed
  running,   \* the effects in progress, innermost last
  runs       \* history: how often the effect of a permit ran

bootstrapVars == <<epoch, revokedAt, checked, states, consumed, running, runs>>
world == <<epoch, revokedAt, checked>>
effectVars == <<consumed, running, runs>>

Statuses == {"active", "suspended", "revoked", "expired"}
Chains == UNION {[1 .. n -> Link] : n \in 1 .. MaxChain}
State == [chain : Chains, eff : Constraint, status : Statuses,
          epoch : 1 .. MaxEpoch]
Current == states[Len(states)]
Leaf(chain) == chain[Len(chain)]

BootstrapTypeOK ==
  /\ epoch \in 1 .. MaxEpoch
  /\ revokedAt \in [Link -> 0 .. MaxEpoch]
  /\ checked \in [Link -> [epoch : 0 .. MaxEpoch, valid : BOOLEAN]]
  /\ Len(states) <= MaxHistory /\ \A i \in 1 .. Len(states) : states[i] \in State
  /\ consumed \subseteq Permit
  /\ \A i \in 1 .. Len(running) : running[i] \in consumed
  /\ runs \in [Permit -> Nat]

BootstrapInit ==
  /\ epoch = 1
  /\ revokedAt = [l \in Link |-> 0]
  /\ checked = [l \in Link |-> [epoch |-> 0, valid |-> FALSE]]
  /\ states = <<>>
  /\ consumed = {}
  /\ running = <<>>
  /\ runs = [p \in Permit |-> 0]

-----------------------------------------------------------------------------
(* The world around the process.                                           *)

NextEpoch ==
  /\ epoch < MaxEpoch
  /\ epoch' = epoch + 1
  /\ UNCHANGED <<revokedAt, checked, states, effectVars>>

RevokeLink(l) ==
  /\ l \in Revocable /\ revokedAt[l] = 0
  /\ revokedAt' = [revokedAt EXCEPT ![l] = epoch]
  /\ UNCHANGED <<epoch, checked, states, effectVars>>

\* The adapter verifies its links and their revocation status now.
VerifyLinks ==
  /\ checked' = [l \in Link |-> [epoch |-> epoch, valid |-> revokedAt[l] = 0]]
  /\ checked' # checked
  /\ UNCHANGED <<epoch, revokedAt, states, effectVars>>

-----------------------------------------------------------------------------
(* Constraints, chains and states.                                         *)

Live(c, now) == now < c.until

Attenuates(c, parent) ==
  c.scope \subseteq parent.scope /\ c.until <= parent.until /\ c.depth <= parent.depth

\* assert_attenuates with delegation_hop
HopAttenuates(c, parent) == Attenuates(c, parent) /\ c.depth < parent.depth

\* Mutant of LinkCurrent: the epoch of the verification is not compared.
LinkCurrentEver(l, now) == checked[l].valid /\ Live(LinkOf[l].con, now)

\* DelegationLinkV1.assert_current
LinkCurrent(l, now) ==
  checked[l].epoch = now /\ checked[l].valid /\ Live(LinkOf[l].con, now)

\* assert_delegation_chain_current_v1; a link's parent id and parent
\* commitment both name its parent.
ChainCurrent(chain, now) ==
  /\ \A i \in 1 .. Len(chain) : LinkCurrent(chain[i], now)
  /\ LinkOf[chain[1]].parent = NoLink
  /\ \A i \in 2 .. Len(chain) :
       /\ LinkOf[chain[i]].parent = chain[i - 1]
       /\ LinkOf[chain[i]].issuer = LinkOf[chain[i - 1]].subject
       /\ HopAttenuates(LinkOf[chain[i]].con, LinkOf[chain[i - 1]].con)

\* issue_authorization_state_v1, then register_initial
Issue(chain, c) ==
  /\ states = <<>>
  /\ ChainCurrent(chain, epoch)
  /\ LinkOf[Leaf(chain)].subject = Principal
  /\ Attenuates(c, LinkOf[Leaf(chain)].con)
  /\ Live(c, epoch)
  /\ states' = <<[chain |-> chain, eff |-> c, status |-> "active", epoch |-> epoch]>>
  /\ UNCHANGED <<world, effectVars>>

EffAllowed(cur, kind, c) ==
  CASE kind = "NARROW"  -> Attenuates(c, cur.eff)
    [] kind = "STEP_UP" -> Attenuates(c, LinkOf[Leaf(cur.chain)].con)
    [] OTHER            -> c = cur.eff

StatusAfter ==
  [NARROW |-> "active", STEP_UP |-> "active", SUSPEND |-> "suspended",
   REVOKE |-> "revoked", EXPIRE |-> "expired"]

\* transition_authorization_state_v1 from the current head (commit_transition
\* refuses any other), then commit_transition
CommitTransition(kind, c) ==
  /\ states # <<>> /\ Len(states) < MaxHistory
  /\ epoch > Current.epoch
  /\ Current.status \notin {"revoked", "expired"}
  /\ Current.status = "suspended" => kind \in {"REVOKE", "EXPIRE"}
  /\ EffAllowed(Current, kind, c)
  /\ states' = Append(states, [chain |-> Current.chain, eff |-> c,
                           status |-> StatusAfter[kind], epoch |-> epoch])
  /\ UNCHANGED <<world, effectVars>>

-----------------------------------------------------------------------------
(* execute_effect_with_fresh_authorization_v1                              *)

\* assert_fresh_effect_authorization_v1 for the n-th state: it is the head,
\* active, exact for the request, and its chain is current.  The comparison of
\* intents is left out; it only refuses more.
Fresh(n, p) ==
  /\ n \in 1 .. Len(states) /\ n = Len(states)
  /\ states[n].status = "active"
  /\ Live(states[n].eff, epoch)
  /\ ChainCurrent(states[n].chain, epoch)
  /\ states[n].eff.scope = {PermitOf[p].scope} /\ states[n].eff.depth = 0

\* assert_authenticated and is_live_for
PermitLive(p) == PermitOf[p].epoch = epoch

\* The authority is fresh, the permit is live and consumed, the effect runs.
Execute(n, p) ==
  /\ Fresh(n, p)
  /\ PermitLive(p)
  /\ p \notin consumed
  /\ consumed' = consumed \cup {p}
  /\ running' = Append(running, p)
  /\ runs' = [runs EXCEPT ![p] = @ + 1]
  /\ UNCHANGED <<world, states>>

\* The innermost effect returns or raises; the receipt tells which, the permit
\* stays consumed.
Finish ==
  /\ running # <<>>
  /\ running' = SubSeq(running, 1, Len(running) - 1)
  /\ UNCHANGED <<world, states, consumed, runs>>

BootstrapNext ==
  \/ NextEpoch
  \/ \E l \in Link : RevokeLink(l)
  \/ VerifyLinks
  \/ \E chain \in Chains, c \in Constraint : Issue(chain, c)
  \/ \E kind \in DOMAIN StatusAfter, c \in Constraint : CommitTransition(kind, c)
  \/ \E n \in 1 .. MaxHistory, p \in Permit : Execute(n, p)
  \/ Finish

BootstrapSpec == BootstrapInit /\ [][BootstrapNext]_bootstrapVars

-----------------------------------------------------------------------------
(* Properties.                                                             *)

\* A permit authorizes one effect, also when the effect itself asks again or
\* fails and its caller retries: the permit is consumed before the callback.
SingleUse == \A p \in Permit : runs[p] <= 1

\* "Any freshness, revocation, subject, intent or exact-scope failure occurs
\* before the permit is consumed": a permit is consumed exactly by the effect
\* it authorized.
RefusalKeepsPermit == \A p \in Permit : p \in consumed <=> runs[p] > 0

\* An effect starts only under delegations that nobody revoked in an earlier
\* epoch, although the adapter's verdict on a link is a value from the past.
\* Within an epoch, a verification stays good after the revocation that follows
\* it.
RevocationBindsNextEpoch ==
  [][\A p \in Permit : runs'[p] > runs[p] =>
       \A j \in 1 .. Len(Current.chain) :
         revokedAt[Current.chain[j]] \in {0, epoch}]_bootstrapVars

\* A subject whose authority was suspended, revoked or has expired executes
\* nothing more, and its states are only ever added to.
EndedStaysEnded ==
  [][/\ Len(states') >= Len(states) /\ SubSeq(states', 1, Len(states)) = states
     /\ (\E i \in 1 .. Len(states) : states[i].status # "active") => runs' = runs]_bootstrapVars

=============================================================================

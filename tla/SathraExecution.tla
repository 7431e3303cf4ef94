-------------------------- MODULE SathraExecution --------------------------
(***************************************************************************)
(* Callers of the execution boundary: any number of workers (threads, or   *)
(* processes on the same database) inside                                  *)
(* enforce_atomic_sathra_bound_effect of                                   *)
(* koschei/sathra_request_binding_v1.py.  A call validates the proof and   *)
(* the Sathra binding, computes the decision, claims the request, runs the *)
(* effect callback when the decision is ALLOW, and finalizes the claim.    *)
(* Between any two of these steps other workers and the governance         *)
(* operations of the coordinator run, and the worker may die.              *)
(***************************************************************************)
EXTENDS ExecutionCoordinator

CONSTANTS
  Worker,
  NoRequest  \* a worker outside a call has no request

ASSUME NoRequestAssumption == NoRequest \notin Request

VARIABLES
  pc,        \* where each worker is in its call
  req,       \* the request the call is for
  decision,  \* the enforcement decision, computed before the claim
  effects    \* history: how often the effect callback ran, per request

workerVars == <<pc, req, decision, effects>>
vars == <<heads, tombstones, claims, pc, req, decision, effects>>

Decisions == {"ALLOW", "DENY", "CONTAIN"}
InClaim == {"claimed", "ran", "raised"}

TypeOK ==
  /\ CoordinatorTypeOK
  /\ pc \in [Worker -> {"idle", "bound"} \cup InClaim]
  /\ req \in [Worker -> Request \cup {NoRequest}]
  /\ decision \in [Worker -> Decisions \cup {"none"}]
  /\ \A w \in Worker : pc[w] # "idle" => req[w] \in Request
  /\ effects \in [Request -> Nat]

Init ==
  /\ CoordinatorInit
  /\ pc = [w \in Worker |-> "idle"]
  /\ req = [w \in Worker |-> NoRequest]
  /\ decision = [w \in Worker |-> "none"]
  /\ effects = [r \in Request |-> 0]

-----------------------------------------------------------------------------
Goto(w, label) ==
  /\ pc' = [pc EXCEPT ![w] = label]
  /\ UNCHANGED <<req, decision>>

\* The call returns or raises: its local variables are gone.
Leave(w) ==
  /\ pc' = [pc EXCEPT ![w] = "idle"]
  /\ req' = [req EXCEPT ![w] = NoRequest]
  /\ decision' = [decision EXCEPT ![w] = "none"]

\* The seals of binding, request and proof hold, and evaluate_enforcement has
\* returned d: a failed obligation makes it CONTAIN or DENY.
Bind(w, r, d) ==
  /\ pc[w] = "idle"
  /\ req' = [req EXCEPT ![w] = r]
  /\ decision' = [decision EXCEPT ![w] = d]
  /\ pc' = [pc EXCEPT ![w] = "bound"]
  /\ UNCHANGED <<heads, tombstones, claims, effects>>

Claim(w) ==
  /\ pc[w] = "bound"
  /\ AtomicClaim(req[w])
  /\ Goto(w, "claimed")
  /\ UNCHANGED effects

\* atomic_claim raises: the error leaves the call and nothing was written.
ClaimRefused(w) ==
  /\ pc[w] = "bound"
  /\ ~ClaimAdmissible(req[w])
  /\ Leave(w)
  /\ UNCHANGED <<heads, tombstones, claims, effects>>

\* The non-ALLOW branch: finalized without running the effect.
FinalizeDenied(w) ==
  /\ pc[w] = "claimed"
  /\ decision[w] # "ALLOW"
  /\ FinalizeClaim(req[w],
                   IF decision[w] = "CONTAIN" THEN "CONTAINED" ELSE "REJECTED")
  /\ Leave(w)
  /\ UNCHANGED effects

\* effect(request) returns, or raises after doing an unknown part of its work.
RunEffect(w) ==
  /\ pc[w] = "claimed"
  /\ decision[w] = "ALLOW"
  /\ effects' = [effects EXCEPT ![req[w]] = @ + 1]
  /\ \E outcome \in {"ran", "raised"} : Goto(w, outcome)
  /\ UNCHANGED <<heads, tombstones, claims>>

\* Mutant of FinalizeRun: an effect that raised is settled as REJECTED.
FinalizeRaisedAsRejected(w) ==
  /\ pc[w] \in {"ran", "raised"}
  /\ FinalizeClaim(req[w],
                   IF pc[w] = "ran" THEN "COMMITTED" ELSE "REJECTED")
  /\ Leave(w)
  /\ UNCHANGED effects

FinalizeRun(w) ==
  /\ pc[w] \in {"ran", "raised"}
  /\ FinalizeClaim(req[w],
                   IF pc[w] = "ran" THEN "COMMITTED" ELSE "UNCERTAIN")
  /\ Leave(w)
  /\ UNCHANGED effects

\* The worker is killed, leaves through a BaseException, or gives up because
\* the database stayed locked: nothing is written, a claim it holds stays
\* CLAIMED.
Abandon(w) ==
  /\ pc[w] # "idle"
  /\ Leave(w)
  /\ UNCHANGED <<heads, tombstones, claims, effects>>

WorkerStep(w) ==
  \/ Claim(w)
  \/ ClaimRefused(w)
  \/ FinalizeDenied(w)
  \/ RunEffect(w)
  \/ FinalizeRun(w)

Next ==
  \/ Governance /\ UNCHANGED workerVars
  \/ \E w \in Worker :
       \/ \E r \in Request, d \in Decisions : Bind(w, r, d)
       \/ WorkerStep(w)
       \/ Abandon(w)

Spec == Init /\ [][Next]_vars

-----------------------------------------------------------------------------
\* Tombstones and heads agree: the current epoch of a plan is tombstoned
\* exactly while the plan is frozen, and no later epoch has a tombstone.
\* apply_nuclear_containment and advance_rebirth keep both tables in step.
FrozenIffTombstoned ==
  \A p \in Plan :
    /\ heads[p].frozen <=> <<p, heads[p].epoch>> \in tombstones
    /\ \A t \in tombstones : t[1] = p => t[2] <= heads[p].epoch

\* The effect of a request runs at most once, whatever the workers, retries,
\* crashes, containments and rebirths: the claim is durable and never freed.
AtMostOnceEffect == \A r \in Request : effects[r] <= 1

\* The durable record tells the truth about the effect: no row, REJECTED and
\* CONTAINED mean that it never ran, COMMITTED and UNCERTAIN that it ran; only
\* CLAIMED leaves it open.
RecordTellsEffect ==
  \A r \in Request :
    /\ claims[r] \in {"none", "REJECTED", "CONTAINED"} => effects[r] = 0
    /\ claims[r] \in {"COMMITTED", "UNCERTAIN"} => effects[r] = 1

\* A worker inside its claim holds the CLAIMED row alone, and the effect of
\* the row ran exactly when the worker is past the callback.  With it the
\* invariants above are inductive.
ClaimOwnership ==
  \A w \in Worker : pc[w] \in InClaim =>
    /\ claims[req[w]] = "CLAIMED"
    /\ effects[req[w]] = IF pc[w] = "claimed" THEN 0 ELSE 1
    /\ \A v \in Worker : pc[v] \in InClaim /\ req[v] = req[w] => v = w

\* Nothing enters a dead epoch: once (plan, epoch) is tombstoned no request of
\* that epoch is claimed any more, and its tombstone is never taken back.
DeadEpochStaysClosed ==
  [][/\ tombstones \subseteq tombstones'
     /\ \A r \in Request :
          <<PlanOf[r], EpochOf[r]>> \in tombstones /\ claims[r] = "none"
            => claims'[r] = "none"]_vars

-----------------------------------------------------------------------------
\* The authority of a request is its (plan, epoch): live while it is the head
\* and not frozen, ended by its tombstone.
Standing ==
  [a \in Plan \X (0 .. MaxEpoch) |->
     IF a \in tombstones THEN "ended"
     ELSE IF a[2] # 0 /\ heads[a[1]].epoch = a[2] THEN "live"
     ELSE "absent"]

OneShot == INSTANCE OneShotAuthority WITH
  Authority <- Plan \X (0 .. MaxEpoch),
  Ticket <- Request,
  AuthorityOf <- [r \in Request |-> <<PlanOf[r], EpochOf[r]>>],
  standing <- Standing,
  admitted <- {r \in Request : claims[r] # "none"},
  performed <- effects

\* The boundary keeps the promise of OneShotAuthority: every claim is made in a
\* live epoch, every effect follows its claim, and an epoch that ended stays
\* ended.
KeepsOneShotPromise == OneShot!Spec
=============================================================================

----------------------------- MODULE HostProofs -----------------------------
(***************************************************************************)
(* What holds of the host's components for every value of their constants: *)
(* the runner's accounting (RunnerAccounting), the replay ledgers          *)
(* (ReplayLedger), containment in the library's trust graph                *)
(* (LibraryContainment) and effects under delegated authority              *)
(* (BootstrapEffects).                                                     *)
(***************************************************************************)
EXTENDS RunnerAccounting, ReplayLedger, BootstrapEffects, LibraryContainment, TLAPS

-----------------------------------------------------------------------------
(* Runner accounting.  The sums over runs (Conservation and                *)
(* DeductedIsInvoiced) are folds and stay with TLC; the arithmetic that    *)
(* makes a reservation sufficient is proved for every prior total.         *)

\* The rounded increase of an invoice by ms milliseconds is never negative
\* and never more than the ceiling reserved for max >= ms, whatever total was
\* invoiced before (runner_accounting.settle_run).
LEMMA IncreaseWithinReserve ==
  ASSUME NEW prior \in Nat, NEW ms \in Nat, NEW max \in Nat, ms <= max,
         NEW billable \in BOOLEAN
  PROVE  IncreaseCharge(prior, ms, billable) \in 0 .. ReserveCents(max)
<1>1. CASE billable
  BY <1>1, Z3 DEF IncreaseCharge, RoundHalfUp, ReserveCents, MsPerCent
<1>2. CASE ~billable
  BY <1>2, Z3 DEF IncreaseCharge, RoundHalfUp, ReserveCents, MsPerCent
<1>3. QED
  BY Zenon, <1>1, <1>2

\* A run rounded by itself (DurablePilotBudget.settle) fits its reservation.
LEMMA SingleWithinReserve ==
  ASSUME NEW ms \in Nat, NEW max \in Nat, ms <= max, NEW billable \in BOOLEAN
  PROVE  SingleCharge(ms, billable) \in 0 .. ReserveCents(max)
<1>1. CASE billable
  BY <1>1, Z3 DEF SingleCharge, RoundHalfUp, ReserveCents, MsPerCent
<1>2. CASE ~billable
  BY <1>2, Z3 DEF SingleCharge, ReserveCents, MsPerCent
<1>3. QED
  BY Zenon, <1>1, <1>2

\* The tables are functions on the runs; an active hold carries the ceiling of
\* its maximum; a usage record exists only for a settled run.
IInv ==
  /\ hold = [r \in Run |-> hold[r]]
  /\ usage = [r \in Run |-> usage[r]]
  /\ \A r \in Run :
       /\ hold[r].state = "active"
            => hold[r].max \in Nat /\ hold[r].reserved = ReserveCents(hold[r].max)
       /\ usage[r] # NoUsage => hold[r].state = "settled"

\* Whatever was billed before, an active hold can be settled by either call
\* with every duration it authorizes: the "charge exceeds reservation" branch
\* is dead, and the refund is never negative.
EveryChargeFits ==
  \A r \in Run : hold[r].state = "active" =>
    \A prior \in Nat, ms \in 0 .. hold[r].max, billable \in BOOLEAN :
      /\ SingleCharge(ms, billable) \in 0 .. hold[r].reserved
      /\ IncreaseCharge(prior, ms, billable) \in 0 .. hold[r].reserved

\* Closing a hold keeps IInv, with or without the usage record.
LEMMA CloseIInv ==
  ASSUME IInv, NEW t \in Tenant, NEW r \in Run, NEW ms, NEW cents,
         Settleable(t, r, ms), CloseHold(t, r, cents),
         UNCHANGED usage \/ (\E u : usage' = [usage EXCEPT ![r] = u])
  PROVE  IInv'
<1>1. /\ hold' = [q \in Run |-> hold'[q]]
      /\ hold'[r].state = "settled"
      /\ \A q \in Run \ {r} : hold'[q] = hold[q]
  BY Zenon DEF IInv, CloseHold
<1>2. /\ usage' = [q \in Run |-> usage'[q]]
      /\ \A q \in Run \ {r} : usage'[q] = usage[q]
  BY Zenon DEF IInv
<1>3. QED
  BY Zenon, <1>1, <1>2 DEF IInv

\* Every transaction keeps IInv.
LEMMA NextIInv == IInv /\ [RunnerNext]_runnerVars => IInv'
<1> SUFFICES ASSUME IInv, [RunnerNext]_runnerVars PROVE IInv'
  BY Zenon
<1>1. CASE UNCHANGED runnerVars
  BY Zenon, <1>1 DEF IInv, runnerVars
<1>2. ASSUME NEW t \in Tenant, NEW cents \in Seeds, SeedTenant(t, cents)
      PROVE  IInv'
  BY Zenon, <1>2 DEF IInv, SeedTenant
<1>3. ASSUME NEW t \in Tenant, NEW r \in Run, NEW ms \in Durations,
             Reserve(t, r, ms)
      PROVE  IInv'
  <2>1. /\ hold' = [q \in Run |-> hold'[q]]
        /\ hold'[r].max = ms
        /\ hold'[r].reserved = ReserveCents(ms)
        /\ \A q \in Run \ {r} : hold'[q] = hold[q]
    BY Zenon, <1>3 DEF IInv, Reserve
  <2>2. usage[r] = NoUsage /\ usage' = usage
    BY Zenon, <1>3 DEF IInv, Reserve
  <2>3. QED
    BY Zenon, <2>1, <2>2, AccountingAssumption DEF IInv
<1>4. ASSUME NEW t \in Tenant, NEW r \in Run, NEW ms \in Durations,
             NEW billable \in BOOLEAN, Settle(t, r, ms, billable)
      PROVE  IInv'
  BY Zenon, <1>4, CloseIInv DEF Settle
<1>5. ASSUME NEW t \in Tenant, NEW r \in Run, NEW ms \in Durations,
             NEW billable \in BOOLEAN, SettleRun(t, r, ms, billable)
      PROVE  IInv'
  BY Zenon, <1>5, CloseIInv DEF SettleRun
<1>6. QED
  BY Zenon, <1>1, <1>2, <1>3, <1>4, <1>5 DEF RunnerNext

\* IInv holds in every reachable state.
THEOREM Inductive == RunnerSpec => []IInv
<1>1. RunnerInit => IInv
  BY DEF RunnerInit, IInv, NoHold
<1>2. QED
  BY <1>1, NextIInv, PTL DEF RunnerSpec

\* Every reservation is sufficient, for every set of runs, every duration and
\* every history of earlier settlements.
THEOREM ReservationsSuffice == RunnerSpec => []EveryChargeFits
<1>1. IInv => EveryChargeFits
  <2> SUFFICES ASSUME IInv, NEW r \in Run, hold[r].state = "active",
                      NEW prior \in Nat, NEW ms \in 0 .. hold[r].max,
                      NEW billable \in BOOLEAN
               PROVE  /\ SingleCharge(ms, billable) \in 0 .. hold[r].reserved
                      /\ IncreaseCharge(prior, ms, billable) \in 0 .. hold[r].reserved
    BY Zenon DEF EveryChargeFits
  <2>1. hold[r].max \in Nat /\ hold[r].reserved = ReserveCents(hold[r].max)
    BY Zenon DEF IInv
  <2>2. ms \in Nat /\ ms <= hold[r].max
    BY <2>1
  <2>3. QED
    BY Zenon, <2>1, <2>2, IncreaseWithinReserve, SingleWithinReserve
<1>2. QED
  BY <1>1, Inductive, PTL

\* A settlement is final, and usage is recorded only by settling: repeated,
\* concurrent and cross-tenant calls change nothing of a settled run.
THEOREM SettlementFinal == RunnerSpec => SettledIsFinal
<1> DEFINE Keeps ==
      \A r \in Run :
        /\ hold[r].state = "settled" => hold'[r] = hold[r] /\ usage'[r] = usage[r]
        /\ usage'[r] # NoUsage => hold'[r].state = "settled"
<1>1. IInv /\ IInv' /\ [RunnerNext]_runnerVars => [Keeps]_runnerVars
  <2> SUFFICES ASSUME IInv, IInv', RunnerNext, NEW q \in Run, hold[q].state = "settled"
               PROVE  hold'[q] = hold[q] /\ usage'[q] = usage[q]
    BY Zenon DEF IInv
  <2>1. ASSUME NEW t \in Tenant, NEW cents \in Seeds, SeedTenant(t, cents)
        PROVE  hold'[q] = hold[q] /\ usage'[q] = usage[q]
    BY Zenon, <2>1 DEF SeedTenant
  <2>2. ASSUME NEW t \in Tenant, NEW r \in Run, NEW ms \in Durations,
               Reserve(t, r, ms)
        PROVE  hold'[q] = hold[q] /\ usage'[q] = usage[q]
    BY Zenon, <2>2 DEF Reserve, IInv
  <2>3. ASSUME NEW t \in Tenant, NEW r \in Run, NEW ms \in Durations,
               NEW billable \in BOOLEAN,
               Settle(t, r, ms, billable) \/ SettleRun(t, r, ms, billable)
        PROVE  hold'[q] = hold[q] /\ usage'[q] = usage[q]
    <3>1. q # r
      BY Zenon, <2>3 DEF Settle, SettleRun, Settleable
    <3>2. hold'[q] = hold[q]
      BY Zenon, <2>3, <3>1 DEF Settle, SettleRun, CloseHold, IInv
    <3>3. usage'[q] = usage[q]
      BY Zenon, <2>3, <3>1 DEF Settle, SettleRun, IInv
    <3>4. QED
      BY Zenon, <3>2, <3>3
  <2>4. QED
    BY Zenon, <2>1, <2>2, <2>3 DEF RunnerNext
<1>2. QED
  BY <1>1, Inductive, PTL DEF RunnerSpec, SettledIsFinal

-----------------------------------------------------------------------------
(* The replay ledgers.                                                     *)

\* A caller inside enforce_once is the only one with its request, the record is
\* still its claim or was tombstoned under it, and its effect ran exactly as far
\* as the caller got.
InsideHoldsClaim ==
  \A c \in Caller : pc[c] # "idle" =>
    LET r == call[c].request
        p == call[c].proof
    IN  /\ rows[r].proof = p /\ rows[r].state \in {"CLAIMED", "UNCERTAIN"}
        /\ \A d \in Caller : pc[d] # "idle" /\ call[d].request = r => d = c
        /\ pc[c] = "claimed" => ran[r] = 0
        /\ pc[c] = "decided" => ran[r] = IF DecisionOf[p] = "ALLOW" THEN 1 ELSE 0

ReplayInv ==
  /\ RecordTypes
  /\ InsideHoldsClaim
  /\ AtMostOnce
  /\ FinalityTellsEffect
  /\ ResultIsCommitted

\* A caller that leaves without a result disturbs nothing.
LEMMA LeavingKeeps ==
  ASSUME ReplayInv, NEW c \in Caller, NEW a \in {"none", "error"}, Leave(c, a),
         UNCHANGED <<rows, call, ran>>
  PROVE  ReplayInv'
<1>1. RecordTypes'
  BY Zenon DEF ReplayInv, RecordTypes, Leave, Answers
<1>2. InsideHoldsClaim'
  BY DEF ReplayInv, RecordTypes, InsideHoldsClaim, Leave
<1>3. (AtMostOnce /\ FinalityTellsEffect /\ ResultIsCommitted)'
  BY Zenon DEF ReplayInv, RecordTypes, AtMostOnce, FinalityTellsEffect, ResultIsCommitted, Leave, Answers
<1> QED BY Zenon, <1>1, <1>2, <1>3 DEF ReplayInv

\* The records, the callers and the effects stay in step through races, deaths,
\* busy databases and recovery, for any number of callers and requests.
LEMMA ReplayInductive == ReplaySpec => []ReplayInv
<1> USE ReplayAssumption
<1>1. ReplayInit => ReplayInv
  BY SMTT(30) DEF ReplayInit, ReplayInv, RecordTypes, InsideHoldsClaim, AtMostOnce,
    FinalityTellsEffect, ResultIsCommitted, NoRow, FinalStates, Answers
<1>2. ReplayInv /\ [ReplayNext]_replayVars => ReplayInv'
  <2> SUFFICES ASSUME ReplayInv, [ReplayNext]_replayVars
               PROVE  ReplayInv'
    BY Zenon
  <2>1. ASSUME NEW c \in Caller, NEW r \in Request, NEW p \in Proof, Claim(c, r, p)
        PROVE  ReplayInv'
    <3>1. RecordTypes'
      BY <2>1, SMTT(30) DEF ReplayInv, RecordTypes, Claim, Claimable, FinalStates, Answers
    <3>2. InsideHoldsClaim'
      BY <2>1, SMTT(30) DEF ReplayInv, RecordTypes, InsideHoldsClaim, Claim, Claimable, FinalityTellsEffect
    <3>3. (AtMostOnce /\ FinalityTellsEffect /\ ResultIsCommitted)'
      BY <2>1, SMTT(30) DEF ReplayInv, RecordTypes, AtMostOnce, FinalityTellsEffect,
        ResultIsCommitted, Claim, Claimable, FinalStates, Answers
    <3> QED BY Zenon, <3>1, <3>2, <3>3 DEF ReplayInv
  <2>2. ASSUME NEW c \in Caller, Decide(c)
        PROVE  ReplayInv'
    <3>1. RecordTypes'
      <4>1. pc' \in [Caller -> {"idle", "claimed", "decided", "raised"}]
        BY <2>2 DEF ReplayInv, RecordTypes, Decide
      <4>2. ran' \in [Request -> Nat]
        BY <2>2 DEF ReplayInv, RecordTypes, Decide
      <4> QED BY Zenon, <2>2, <4>1, <4>2 DEF ReplayInv, RecordTypes, Decide
    <3>2. InsideHoldsClaim'
      BY <2>2, SMTT(30) DEF ReplayInv, RecordTypes, InsideHoldsClaim, Decide
    <3>3. (AtMostOnce /\ FinalityTellsEffect)'
      BY <2>2, SMTT(30) DEF ReplayInv, RecordTypes, AtMostOnce, FinalityTellsEffect,
        InsideHoldsClaim, Decide
    <3>4. ResultIsCommitted'
      BY Zenon, <2>2 DEF ReplayInv, ResultIsCommitted, Decide
    <3> QED BY Zenon, <3>1, <3>2, <3>3, <3>4 DEF ReplayInv
  <2>3. ASSUME NEW c \in Caller, Finalize(c)
        PROVE  ReplayInv'
    <3>1. CASE ClaimFinalizable(call[c].request, call[c].proof)
      <4>1. StateFor(c) \in FinalStates
        BY <2>3, <3>1, SMTT(30) DEF ReplayInv, RecordTypes, StateFor, FinalStates
      <4>2. RecordTypes'
        <5>1. AnswerFor(c) \in Answers
          BY Zenon DEF AnswerFor, Answers
        <5>2. call[c].request \in Request /\ call[c].proof \in Proof
          BY Zenon DEF ReplayInv, RecordTypes
        <5>3. rows' \in [Request -> [state : {"none", "CLAIMED"} \cup FinalStates,
                                    proof : Proof \cup {NoProof}]]
          BY <2>3, <3>1, <4>1, <5>2 DEF ReplayInv, RecordTypes, Finalize, SettleRecord
        <5>4. \A r \in Request : rows'[r].state = "none" <=> rows'[r].proof = NoProof
          BY <2>3, <3>1, <4>1, <5>2 DEF ReplayInv, RecordTypes, Finalize, SettleRecord, FinalStates
        <5> QED BY ZenonT(30), <2>3, <3>1, <5>1, <5>3, <5>4 DEF ReplayInv, RecordTypes, Finalize, Leave
      <4>3. InsideHoldsClaim'
        BY <2>3, <3>1, SMTT(30) DEF ReplayInv, RecordTypes, InsideHoldsClaim, Finalize, SettleRecord, Leave
      <4>4. (AtMostOnce /\ FinalityTellsEffect)'
        BY <2>3, <3>1, SMTT(30) DEF ReplayInv, RecordTypes, InsideHoldsClaim, Finalize, SettleRecord, Leave, AtMostOnce, FinalityTellsEffect, StateFor
      <4>5. ResultIsCommitted'
        BY <2>3, <3>1, SMTT(30) DEF ReplayInv, RecordTypes, Finalize, SettleRecord, Leave, ClaimFinalizable, ResultIsCommitted, StateFor, AnswerFor
      <4> QED BY Zenon, <4>2, <4>3, <4>4, <4>5 DEF ReplayInv
    <3>2. CASE ~ClaimFinalizable(call[c].request, call[c].proof)
      BY Zenon, <2>3, <3>2, LeavingKeeps DEF Finalize
    <3> QED BY Zenon, <3>1, <3>2
  <2>4. ASSUME NEW c \in Caller, Busy(c) \/ CrashCaller(c)
        PROVE  ReplayInv'
    BY Zenon, <2>4, LeavingKeeps DEF Busy, CrashCaller
  <2>5. ASSUME NEW r \in Request, NEW p \in Proof, ResolveUncertain(r, p)
        PROVE  ReplayInv'
    BY <2>5, SMTT(30) DEF ReplayInv, RecordTypes, InsideHoldsClaim, ResolveUncertain, SettleRecord, ClaimFinalizable, AtMostOnce, FinalityTellsEffect, ResultIsCommitted, FinalStates
  <2>6. CASE UNCHANGED replayVars
    BY <2>6 DEF ReplayInv, RecordTypes, InsideHoldsClaim, AtMostOnce, FinalityTellsEffect, ResultIsCommitted, replayVars
  <2> QED BY Zenon, <2>1, <2>2, <2>3, <2>4, <2>5, <2>6 DEF ReplayNext
<1> QED BY <1>1, <1>2, PTL DEF ReplaySpec

\* The record of a request tells whether its effect ran: COMMITTED exactly once,
\* REJECTED and CONTAINED never (enforce_once).
THEOREM FinalityIsTrue == ReplaySpec => []FinalityTellsEffect
BY ReplayInductive, PTL DEF ReplayInv

\* However callers race, die and retry, the effect of a request runs at most once
\* (enforce_once claims before the effect and never releases a record).
THEOREM OncePerRequest == ReplaySpec => []AtMostOnce
BY ReplayInductive, PTL DEF ReplayInv

\* A caller that was handed a result has its request committed under its own proof
\* from then on, also when recovery tombstones claims concurrently.
THEOREM ResultStands == ReplaySpec => []ResultIsCommitted
BY ReplayInductive, PTL DEF ReplayInv

\* No step of any caller or of recovery rewrites a terminal record.
THEOREM RecordsAreFinal == ReplaySpec => FinalIsFinal
<1>1. ReplayInv /\ [ReplayNext]_replayVars =>
        [\A r \in Request :
           /\ rows[r].state \in FinalStates => rows'[r] = rows[r]
           /\ rows[r].state = "CLAIMED" => rows'[r].proof = rows[r].proof]_replayVars
  <2> SUFFICES ASSUME ReplayInv, ReplayNext, NEW r \in Request
               PROVE  /\ rows[r].state \in FinalStates => rows'[r] = rows[r]
                      /\ rows[r].state = "CLAIMED" => rows'[r].proof = rows[r].proof
    BY Zenon DEF replayVars
  <2>1. ASSUME NEW c \in Caller, NEW q \in Request, NEW p \in Proof, Claim(c, q, p)
        PROVE  r # q => rows'[r] = rows[r]
    BY Zenon, <2>1 DEF ReplayInv, RecordTypes, Claim
  <2>2. ASSUME NEW q \in Request, NEW p \in Proof, NEW s, ClaimFinalizable(q, p), SettleRecord(q, p, s)
        PROVE  /\ r # q => rows'[r] = rows[r]
               /\ rows'[q].proof = rows[q].proof
    BY Zenon, <2>2 DEF ReplayInv, RecordTypes, ClaimFinalizable, SettleRecord
  <2>3. ASSUME NEW c \in Caller, Finalize(c), ClaimFinalizable(call[c].request, call[c].proof)
        PROVE  /\ r # call[c].request => rows'[r] = rows[r]
               /\ rows'[call[c].request].proof = rows[call[c].request].proof
    BY Zenon, <2>2, <2>3 DEF Finalize, ReplayInv, RecordTypes
  <2> QED
    BY Zenon, <2>1, <2>2, <2>3 DEF ReplayNext, Claim, Claimable, Decide, Finalize, ClaimFinalizable, Busy,
      CrashCaller, ResolveUncertain, FinalStates
<1> QED BY <1>1, ReplayInductive, PTL DEF ReplaySpec, FinalIsFinal

-----------------------------------------------------------------------------
(* Containment in the trust graph.                                         *)

\* A recommendation for the present graph: the whole boundary of what it isolates
\* is cut, and what it preserves is the rest of the graph, or nothing when the
\* isolation is over the budget.
ForThisGraph(s) ==
  /\ s.cuts = Boundary(edges, s.isolated)
  /\ s.preserved = IF s.feasible THEN Nodes \ s.isolated ELSE {}
  /\ s.feasible => Cardinality(s.isolated) <= budget

\* Every scenario is for the present graph, the merged containment is the merge of
\* all of them, and a plan names the generations that the present graph holds.
PlansInv ==
  /\ gen \in [Roots -> 0 .. MaxGen]
  /\ plan # NoPlan =>
       plan.roots \subseteq Nodes /\ plan.revoked = {<<r, gen[r]>> : r \in plan.roots}
  /\ \A s \in scenarios : ForThisGraph(s)
  /\ combined # NoContainment => plan = NoPlan /\ combined = Combined(scenarios)

LEMMA PlansInductive == LibraryInit /\ [][LibraryNext]_libraryVars => []PlansInv
<1> USE LibraryAssumption
<1>1. LibraryInit => PlansInv
  BY DEF LibraryInit, PlansInv
<1>2. PlansInv /\ [LibraryNext]_libraryVars => PlansInv'
  <2> SUFFICES ASSUME PlansInv, [LibraryNext]_libraryVars
               PROVE  PlansInv'
    BY Zenon
  <2>1. ASSUME NEW S \in SUBSET Roots, NEW limit, DerivePlan(S, limit)
        PROVE  PlansInv'
    BY Zenon, <2>1 DEF PlansInv, DerivePlan, Plan, Nodes, ForThisGraph, Boundary
  <2>2. CASE Hop
    BY Zenon, <2>2 DEF PlansInv, Hop, Nodes, ForThisGraph, Boundary, Combined
  <2>3. CASE Recommend
    <3>1. ForThisGraph(Recommendation)
      BY Zenon DEF ForThisGraph, Recommendation
    <3>2. combined = NoContainment
      BY Zenon, <2>3 DEF Recommend, PlansInv
    <3>3. \A s \in scenarios' : ForThisGraph(s)'
      BY ZenonT(30), <2>3, <3>1 DEF PlansInv, Recommend, ForThisGraph, Boundary, Nodes
    <3> QED BY Zenon, <2>3, <3>2, <3>3 DEF PlansInv, Recommend
  <2>4. CASE Combine
    <3>1. Combined(scenarios)' = Combined(scenarios)
      BY Zenon, <2>4 DEF Combine, Combined, Nodes
    <3>2. \A s \in scenarios' : ForThisGraph(s)'
      BY ZenonT(30), <2>4 DEF PlansInv, Combine, ForThisGraph, Boundary, Nodes
    <3> QED BY Zenon, <2>4, <3>1, <3>2 DEF PlansInv, Combine
  <2>5. ASSUME NEW drop \in SUBSET Roots, NEW raise \in SUBSET Roots, Replace(drop, raise)
        PROVE  PlansInv'
    <3>1. gen' \in [Roots -> 0 .. MaxGen]
      BY SMTT(30), <2>5 DEF PlansInv, Replace, Close, Nodes
    <3> QED BY Zenon, <2>5, <3>1 DEF PlansInv, Replace, Close
  <2>6. CASE UNCHANGED libraryVars
    BY Zenon, <2>6 DEF PlansInv, libraryVars, Nodes, ForThisGraph, Boundary, Combined
  <2> QED BY Zenon, <2>1, <2>2, <2>3, <2>4, <2>5, <2>6 DEF LibraryNext, Derive
<1> QED BY <1>1, <1>2, PTL

\* Whatever graph, signals, hop limits and number of scenarios: an edge between
\* what a containment isolates and what it keeps serving is one that it cuts
\* (optimize_containment_v0 and combine_containment_scenarios_v0).
THEOREM ContainmentSeparates == LibrarySpec => []CutsSeparate
<1>1. PlansInv => CutsSeparate
  <2> SUFFICES ASSUME PlansInv, NEW c \in scenarios \cup {combined}, NEW e \in edges,
                      \/ e[1] \in c.isolated /\ e[2] \in c.preserved
                      \/ e[2] \in c.isolated /\ e[1] \in c.preserved
               PROVE  e \in c.cuts
    BY Zenon DEF CutsSeparate
  <2>1. CASE c \in scenarios
    BY Zenon, <2>1 DEF PlansInv, ForThisGraph, Boundary
  <2>2. CASE c = combined /\ combined = NoContainment
    BY Zenon, <2>2 DEF NoContainment
  <2>3. CASE c = combined /\ combined # NoContainment
    <3>1. c.isolated = UNION {s.isolated : s \in scenarios}
      BY <2>3 DEF PlansInv, Combined
    <3>2. c.cuts = UNION {s.cuts : s \in scenarios}
      BY <2>3 DEF PlansInv, Combined
    <3>3. c.preserved \cap c.isolated = {}
      BY <2>3 DEF PlansInv, Combined
    <3>4. \A r : r \in c.isolated => \E s \in scenarios : r \in s.isolated
      BY Zenon, <3>1
    <3>5. PICK s \in scenarios : (e[1] \in s.isolated) # (e[2] \in s.isolated)
      BY <3>1, <3>3, <3>4
    <3>6. e \in s.cuts
      BY Zenon, <3>5 DEF PlansInv, ForThisGraph, Boundary
    <3> QED BY Zenon, <3>2, <3>6
  <2> QED BY Zenon, <2>1, <2>2, <2>3
<1> QED BY <1>1, PlansInductive, PTL DEF LibrarySpec

\* Merging scenarios never gives a root back and never spends more than a scenario
\* was allowed (combine_containment_scenarios_v0).
THEOREM MergeConservative == LibrarySpec => []MergeIsConservative
<1>1. PlansInv => MergeIsConservative
  <2> SUFFICES ASSUME PlansInv, combined # NoContainment, NEW s \in scenarios
               PROVE  /\ combined.preserved \subseteq s.preserved
                      /\ s.isolated \subseteq combined.isolated
                      /\ combined.preserved # {} => Cardinality(s.isolated) <= budget
    BY Zenon DEF MergeIsConservative
  <2>1. combined.isolated = UNION {t.isolated : t \in scenarios}
    BY DEF PlansInv, Combined
  <2>2. s.isolated \subseteq combined.isolated
    BY Zenon, <2>1
  <2>3. combined.preserved = IF \A t \in scenarios : t.feasible
                             THEN Nodes \ combined.isolated ELSE {}
    BY DEF PlansInv, Combined
  <2>4. ForThisGraph(s)
    BY Zenon DEF PlansInv
  <2>5. CASE s.feasible
    BY Zenon, <2>2, <2>3, <2>4, <2>5 DEF ForThisGraph
  <2>6. CASE ~ s.feasible
    BY Zenon, <2>2, <2>3, <2>6
  <2> QED BY Zenon, <2>5, <2>6
<1> QED BY <1>1, PlansInductive, PTL DEF LibrarySpec

\* A closed recovery leaves no compromised generation in the graph
\* (close_recovery_v0).
THEOREM ClosureIsRevocation == LibrarySpec => ClosureRevokes
<1>1. PlansInv /\ [LibraryNext]_libraryVars =>
        [gen' # gen => \A r \in plan.roots : gen'[r] = 0 \/ gen'[r] > gen[r]]_libraryVars
  <2> SUFFICES ASSUME PlansInv, NEW g, NEW E, Close(g, E), NEW r \in plan.roots
               PROVE  gen'[r] = 0 \/ gen'[r] > gen[r]
    BY Zenon DEF LibraryNext, Derive, DerivePlan, Hop, Recommend, Combine, Replace
  <2>p. plan.roots \subseteq Nodes /\ gen \in [Roots -> 0 .. MaxGen]
    BY ZenonT(30) DEF PlansInv, Close
  <2>1. r \in Roots /\ gen[r] \in 1 .. MaxGen
    BY <2>p, LibraryAssumption DEF Nodes
  <2>2. <<r, gen[r]>> \in plan.revoked
    BY Zenon DEF PlansInv, Close
  <2> QED BY Zenon, <2>1, <2>2 DEF Close, Closes
<1> QED BY <1>1, PlansInductive, PTL DEF LibrarySpec, ClosureRevokes

-----------------------------------------------------------------------------
(* Effects under delegated authority.                                      *)

\* A verdict on a link is no newer than the present epoch, and a link that a verdict
\* calls valid was not revoked before the epoch of the verdict.
VerdictsInv ==
  /\ epoch \in Nat \ {0}
  /\ revokedAt \in [Link -> 0 .. epoch]
  /\ checked \in [Link -> [epoch : 0 .. epoch, valid : BOOLEAN]]
  /\ \A l \in Link :
       checked[l].valid => revokedAt[l] = 0 \/ revokedAt[l] >= checked[l].epoch

\* The permits: one that is not consumed never ran an effect.
PermitsInv ==
  /\ runs \in [Permit -> Nat]
  /\ RefusalKeepsPermit
  /\ SingleUse

\* Once a state of the subject is not active, neither is any later one.
HistoryInv ==
  /\ states \in Seq([chain : Chains, eff : Constraint, status : Statuses, epoch : Nat])
  /\ \A i, j \in 1 .. Len(states) :
       i <= j /\ states[i].status # "active" => states[j].status # "active"

BootstrapInv == VerdictsInv /\ PermitsInv /\ HistoryInv

LEMMA BootstrapInductive == BootstrapSpec => []BootstrapInv
<1>1. BootstrapInit => BootstrapInv
  BY DEF BootstrapInit, BootstrapInv, VerdictsInv, PermitsInv, HistoryInv, RefusalKeepsPermit, SingleUse
<1>2. BootstrapInv /\ [BootstrapNext]_bootstrapVars => BootstrapInv'
  <2> SUFFICES ASSUME BootstrapInv, [BootstrapNext]_bootstrapVars
               PROVE  BootstrapInv'
    BY Zenon
  <2>1. CASE NextEpoch
    BY <2>1 DEF NextEpoch, effectVars, BootstrapInv, VerdictsInv, PermitsInv, HistoryInv, RefusalKeepsPermit, SingleUse
  <2>2. ASSUME NEW l \in Link, RevokeLink(l)
        PROVE  BootstrapInv'
    <3>1. VerdictsInv'
      BY <2>2 DEF RevokeLink, BootstrapInv, VerdictsInv
    <3> QED BY SMTT(30), <2>2, <3>1 DEF RevokeLink, effectVars, BootstrapInv, PermitsInv, HistoryInv, RefusalKeepsPermit, SingleUse
  <2>3. CASE VerifyLinks
    <3>1. checked' \in [Link -> [epoch : 0 .. epoch, valid : BOOLEAN]]
      BY <2>3 DEF VerifyLinks, BootstrapInv, VerdictsInv
    <3>2. \A l \in Link : checked'[l].valid => revokedAt[l] = 0
      BY Zenon, <2>3 DEF VerifyLinks
    <3>3. VerdictsInv'
      BY Zenon, <2>3, <3>1, <3>2 DEF VerifyLinks, BootstrapInv, VerdictsInv
    <3> QED BY Zenon, <2>3, <3>3 DEF VerifyLinks, effectVars, BootstrapInv, PermitsInv, HistoryInv, RefusalKeepsPermit, SingleUse
  <2>4. ASSUME NEW chain \in Chains, NEW c \in Constraint, Issue(chain, c)
        PROVE  BootstrapInv'
    <3>1. HistoryInv'
      BY <2>4 DEF Issue, BootstrapInv, VerdictsInv, HistoryInv, Statuses
    <3> QED BY Zenon, <2>4, <3>1 DEF Issue, world, effectVars, BootstrapInv, VerdictsInv, PermitsInv, RefusalKeepsPermit, SingleUse
  <2>5. ASSUME NEW kind \in DOMAIN StatusAfter, NEW c \in Constraint, CommitTransition(kind, c)
        PROVE  BootstrapInv'
    <3>1. HistoryInv'
      <4> DEFINE States == [chain : Chains, eff : Constraint, status : Statuses, epoch : Nat]
                 new == [chain |-> Current.chain, eff |-> c, status |-> StatusAfter[kind],
                         epoch |-> epoch]
      <4>1. states \in Seq(States) /\ Len(states) \in 1 .. Len(states) /\ Current \in States
        <5>1. states \in Seq(States) /\ states # <<>>
          BY Zenon, <2>5 DEF CommitTransition, BootstrapInv, HistoryInv
        <5> HIDE DEF States
        <5> QED BY <5>1 DEF Current
      <4>2. StatusAfter[kind] \in Statuses
        BY DEF StatusAfter, Statuses
      <4>3. new \in States
        BY Zenon, <4>1, <4>2 DEF BootstrapInv, VerdictsInv
      <4>4. Current.status = "suspended" => new.status # "active"
        BY <2>5 DEF CommitTransition, StatusAfter
      <4>5. Current.status # "active" => Current.status = "suspended"
        BY Zenon, <2>5, <4>1 DEF CommitTransition, Statuses
      <4>6. states' = Append(states, new)
        BY Zenon, <2>5 DEF CommitTransition
      <4>7. \A i \in 1 .. Len(states) : states[i].status # "active" => new.status # "active"
        BY <4>1, <4>4, <4>5 DEF BootstrapInv, HistoryInv, Current
      <4> HIDE DEF new
      <4>8. /\ Len(states') = Len(states) + 1 /\ states'[Len(states) + 1] = new
            /\ \A i \in 1 .. Len(states) : states'[i] = states[i]
            /\ states' \in Seq(States)
        BY <4>1, <4>3, <4>6
      <4>9. \A i, j \in 1 .. Len(states') :
              i <= j /\ states'[i].status # "active" => states'[j].status # "active"
        <5>1. \A i, j \in 1 .. Len(states) :
                i <= j /\ states[i].status # "active" => states[j].status # "active"
          BY Zenon DEF BootstrapInv, HistoryInv
        <5>2. Len(states) \in Nat
          BY <4>1
        <5> QED BY SMTT(30), <4>7, <4>8, <5>1, <5>2
      <4> QED BY SMTT(30), <4>8, <4>9 DEF HistoryInv
    <3> QED BY Zenon, <2>5, <3>1 DEF CommitTransition, world, effectVars, BootstrapInv, VerdictsInv, PermitsInv, RefusalKeepsPermit, SingleUse
  <2>6. ASSUME NEW n, NEW p \in Permit, Execute(n, p)
        PROVE  BootstrapInv'
    <3>1. PermitsInv'
      BY <2>6 DEF Execute, BootstrapInv, PermitsInv, RefusalKeepsPermit, SingleUse
    <3> QED BY <2>6, <3>1 DEF Execute, world, BootstrapInv, VerdictsInv, HistoryInv
  <2>7. CASE Finish
    BY ZenonT(30), <2>7 DEF Finish, world, BootstrapInv, VerdictsInv, PermitsInv, HistoryInv, RefusalKeepsPermit, SingleUse
  <2>8. CASE UNCHANGED bootstrapVars
    BY <2>8 DEF bootstrapVars, BootstrapInv, VerdictsInv, PermitsInv, HistoryInv, RefusalKeepsPermit, SingleUse
  <2> QED BY Zenon, <2>1, <2>2, <2>3, <2>4, <2>5, <2>6, <2>7, <2>8 DEF BootstrapNext
<1> QED BY <1>1, <1>2, PTL DEF BootstrapSpec

\* What a fresh authorization has established (assert_fresh_effect_authorization_v1).
LEMMA FreshIsUnrevoked ==
  ASSUME BootstrapInv, NEW n, NEW p \in Permit, Fresh(n, p)
  PROVE  \A j \in 1 .. Len(Current.chain) : revokedAt[Current.chain[j]] \in {0, epoch}
<1>1. n = Len(states) /\ n \in 1 .. Len(states) /\ Current = states[n]
  BY Zenon DEF Fresh, Current
<1>2. Current.chain \in Chains
  <2> DEFINE States == [chain : Chains, eff : Constraint, status : Statuses, epoch : Nat]
  <2>1. states \in Seq(States)
    BY Zenon DEF BootstrapInv, HistoryInv
  <2>2. states[n] \in States
    <3> HIDE DEF States
    <3> QED BY <1>1, <2>1
  <2> QED BY Zenon, <1>1, <2>2
<1>3. \A j \in 1 .. Len(Current.chain) : Current.chain[j] \in Link
  BY <1>2 DEF Chains
<1>4. ASSUME NEW j \in 1 .. Len(Current.chain)
      PROVE  revokedAt[Current.chain[j]] \in {0, epoch}
  <2> DEFINE l == Current.chain[j]
  <2>1. l \in Link
    BY SMTT(30), <1>3
  <2>2. checked[l].epoch = epoch /\ checked[l].valid
    BY Zenon, <1>1 DEF Fresh, ChainCurrent, LinkCurrent
  <2> QED BY <2>1, <2>2 DEF BootstrapInv, VerdictsInv
<1> QED BY Zenon, <1>1, <1>4 DEF Fresh

\* Revoking any link of a delegation chain stops every effect from the next epoch
\* on, however long the chain and whenever the adapter verified it
\* (execute_effect_with_fresh_authorization_v1).
THEOREM RevocationBinds == BootstrapSpec => RevocationBindsNextEpoch
<1>1. BootstrapInv /\ [BootstrapNext]_bootstrapVars =>
        [\A p \in Permit : runs'[p] > runs[p] =>
           \A j \in 1 .. Len(Current.chain) :
             revokedAt[Current.chain[j]] \in {0, epoch}]_bootstrapVars
  <2> SUFFICES ASSUME BootstrapInv, BootstrapNext, NEW p \in Permit, runs'[p] > runs[p]
               PROVE  \A j \in 1 .. Len(Current.chain) :
                        revokedAt[Current.chain[j]] \in {0, epoch}
    BY Zenon DEF bootstrapVars
  <2>1. runs[p] \in Nat
    BY Zenon DEF BootstrapInv, PermitsInv
  <2>2. runs' # runs
    BY <2>1
  <2>3. PICK n \in 1 .. MaxHistory, q \in Permit : Execute(n, q)
    BY Zenon, <2>2 DEF BootstrapNext, NextEpoch, RevokeLink, VerifyLinks, Issue, CommitTransition, Finish, effectVars
  <2> QED BY SMTT(30), <2>3, FreshIsUnrevoked DEF Execute
<1> QED BY <1>1, BootstrapInductive, PTL DEF BootstrapSpec, RevocationBindsNextEpoch

\* A permit runs one effect, also when the effect asks again from within its own
\* callback or its caller retries (ExecutionPermitLedgerV1.consume comes first).
THEOREM PermitsAreSingleUse == BootstrapSpec => []SingleUse
BY BootstrapInductive, PTL DEF BootstrapInv, PermitsInv

\* A subject whose authority was suspended, revoked or has expired executes nothing
\* more, and its states are only added to (commit_transition).
THEOREM EndedIsEnded == BootstrapSpec => EndedStaysEnded
<1>1. BootstrapInv /\ [BootstrapNext]_bootstrapVars =>
        [/\ Len(states') >= Len(states) /\ SubSeq(states', 1, Len(states)) = states
         /\ (\E i \in 1 .. Len(states) : states[i].status # "active") => runs' = runs]_bootstrapVars
  <2> SUFFICES ASSUME BootstrapInv, BootstrapNext
               PROVE  /\ Len(states') >= Len(states) /\ SubSeq(states', 1, Len(states)) = states
                      /\ (\E i \in 1 .. Len(states) : states[i].status # "active") => runs' = runs
    BY Zenon DEF bootstrapVars
  <2> DEFINE States == [chain : Chains, eff : Constraint, status : Statuses, epoch : Nat]
  <2>1. states \in Seq(States)
    BY Zenon DEF BootstrapInv, HistoryInv
  <2>2. \/ states' = states
        \/ states = <<>>
        \/ \E s : states' = Append(states, s)
    BY Zenon DEF BootstrapNext, NextEpoch, RevokeLink, VerifyLinks, Issue, CommitTransition, Execute, Finish
  <2>3. Len(states') >= Len(states) /\ SubSeq(states', 1, Len(states)) = states
    BY <2>1, <2>2
  <2>4. ASSUME NEW n \in 1 .. MaxHistory, NEW p \in Permit, Execute(n, p)
        PROVE  \A i \in 1 .. Len(states) : states[i].status = "active"
    BY <2>1, <2>4 DEF Execute, Fresh, BootstrapInv, HistoryInv
  <2>5. (\E i \in 1 .. Len(states) : states[i].status # "active") => runs' = runs
    BY Zenon, <2>4 DEF BootstrapNext, NextEpoch, RevokeLink, VerifyLinks, Issue, CommitTransition, Finish, effectVars
  <2> QED BY SMTT(30), <2>3, <2>5
<1> QED BY <1>1, BootstrapInductive, PTL DEF BootstrapSpec, EndedStaysEnded
=============================================================================

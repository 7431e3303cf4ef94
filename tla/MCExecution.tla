---------------------------- MODULE MCExecution ----------------------------
(***************************************************************************)
(* The two ways in which an effect is admitted, checked side by side: a    *)
(* behaviour exercises one of them.                                        *)
(* Galaxy gate: one plan, one Aevra with Haras of epochs 1 and 2, two      *)
(* workers; a request of each epoch, or one request that workers present   *)
(* directly and by a handle. Authorization store: one subject (subjects    *)
(* share nothing), two permits of different epochs, two administrators     *)
(* whose copies age, two executors; the ceiling covers two scopes, and a   *)
(* state can be executed only when narrowed to one.                        *)
(***************************************************************************)
EXTENDS GalaxyExecution, AuthorizationStore, TLC

CONSTANTS p1, p2, r1, r2, w1, w2, a1, h1, h2, m1, m2, k1, s1, x1, x2

VARIABLE part  \* the component that this behaviour exercises

MCPlan == {p1}
MCRequest == {r1, r2}
MCPlanOf == r1 :> p1 @@ r2 :> p1
MCEpochOf == r1 :> 1 @@ r2 :> 2
MCWorker == {w1, w2}
MCAevra == {a1}
MCAevraOf == r1 :> a1 @@ r2 :> a1
MCHara == {h1, h2}
MCHaraAevra == h1 :> a1 @@ h2 :> a1
MCHaraMatrix == h1 :> m1 @@ h2 :> m2
MCHaraEpoch == h1 :> 1 @@ h2 :> 2
MCHandle == {k1}
MCHandleRequest == k1 :> r1

MCCeiling == [scope |-> {1, 2}, from |-> 1, until |-> 4, depth |-> 1]
MCExact == [scope |-> {1}, from |-> 1, until |-> 4, depth |-> 0]
MCShort == [scope |-> {1}, from |-> 2, until |-> 3, depth |-> 0]
MCSubject == {s1}
MCConstraint == {MCCeiling, MCExact, MCShort}
MCCeilingOf == s1 :> MCCeiling
MCPermit == {p1, p2}
MCSubjectOf == p1 :> s1 @@ p2 :> s1
MCValidEpoch == p1 :> 2 @@ p2 :> 3
MCScopeOf == p1 :> 1 @@ p2 :> 1
MCExecutor == {x1, x2}

\* Workers and administrators are the same two model values.
MCSymmetry == Permutations(MCWorker) \cup Permutations(MCExecutor)

suiteVars == <<part, galaxyVars, authVars>>

SuiteInit ==
  /\ part \in {"gate", "handle", "store"}
  /\ GalaxyInit
  /\ AuthInit

GatePart ==
  part = "gate" /\ GalaxyNext /\ minted' = {} /\ UNCHANGED <<part, authVars>>
HandlePart ==
  /\ part = "handle" /\ GalaxyNext
  /\ \A w \in Worker : gateReq'[w] # r2
  /\ UNCHANGED <<part, authVars>>
StorePart == part = "store" /\ AuthNext /\ UNCHANGED <<part, galaxyVars>>

SuiteNext == GatePart \/ HandlePart \/ StorePart

SuiteSpec == SuiteInit /\ [][SuiteNext]_suiteVars
=============================================================================

------------------------------- MODULE MCFiles ------------------------------
(***************************************************************************)
(* The components that keep files through crashes, checked side by side: a *)
(* behaviour exercises one of them.                                        *)
(* Bounded persistence: two processes and three commit calls, so that two  *)
(* may race while a third comes after a crash of either. Native cache: two *)
(* builders of one key, two outputs that differ, two failures (one that    *)
(* starts a rollback and one that interrupts it) and one death. Workspace  *)
(* build: two builds of one package, two versions of the sources, no edit  *)
(* while a build runs (the run live_edit has them). Alias rotation: two    *)
(* objects; the plans move both to fresh aliases, one of which may be      *)
(* occupied, or to the aliases they have, swap them, or chain them.        *)
(***************************************************************************)
EXTENDS BoundedPersistence, NativeCache, WorkspaceBuild, AliasRotation

CONSTANTS
  p1, p2, o1, o2, v1, v2, x1, x2

VARIABLE part  \* the component that this behaviour exercises

A == <<"alias", "A">>
B == <<"alias", "B">>
C == <<"alias", "C">>
D == <<"alias", "D">>
Moves(x, y) == <<[object |-> x1, from |-> A, to |-> x], [object |-> x2, from |-> B, to |-> y]>>
MCProcs == {p1, p2}
MCOutputs == {o1, o2}
MCVersions == {v1, v2}
MCObject == {x1, x2}
MCAlias == {A, B, C, D}
MCAdmitted == [o \in {x1, x2} |-> IF o = x1 THEN A ELSE B]
MCPlans == {Moves(C, D), Moves(D, C), Moves(A, B), Moves(B, A), Moves(B, C)}

\* The plan of the docstring of apply_alias_moves_atomically.
MCSwapPlans == {Moves(C, D), Moves(B, A)}

suiteVars == <<part, persistVars, cacheVars, buildVars, vars>>

\* Each component is in an initial state; of a component that is not exercised,
\* in one fixed initial state.
SuiteInit ==
  /\ part \in {"commit", "cache", "build", "alias"}
  /\ PersistInit
  /\ CacheInit
  /\ BuildInit
  /\ part # "build" => source = v1
  /\ Init
  /\ part # "alias" => ~ stranger /\ plan = Moves(C, D)

CommitStep == part = "commit" /\ PersistNext /\ UNCHANGED <<part, cacheVars, buildVars, vars>>
CacheStep == part = "cache" /\ CacheNext /\ UNCHANGED <<part, persistVars, buildVars, vars>>
BuildStep == part = "build" /\ BuildNext /\ UNCHANGED <<part, persistVars, cacheVars, vars>>
AliasStep == part = "alias" /\ Next /\ UNCHANGED <<part, persistVars, cacheVars, buildVars>>

SuiteNext == CommitStep \/ CacheStep \/ BuildStep \/ AliasStep

\* A process inside the native cache's call keeps running.
SuiteSpec ==
  /\ SuiteInit
  /\ [][SuiteNext]_suiteVars
  /\ \A b \in Builders : WF_cacheVars(part = "cache" /\ RunBuilder(b))

=============================================================================

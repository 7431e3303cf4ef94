-------------------------- MODULE LibraryContainment --------------------------
(***************************************************************************)
(* Containment of a compromise in the trust graph of the library:          *)
(* koschei/library_trust_graph_v0.py, library_compromise_recovery_v0.py,   *)
(* library_blast_radius_v0.py, library_containment_optimizer_v0.py and     *)
(* library_multi_scenario_containment_v0.py.  Several planners may derive  *)
(* plans for one graph from different signals; their scenarios are merged, *)
(* and a plan is closed by a replacement graph.                            *)
(***************************************************************************)
EXTENDS Integers, FiniteSets

CONSTANTS
  Roots,
  EdgeSpace,   \* the composition edges that may occur, pairs of distinct roots
  Budgets,     \* the disruption budgets that occur
  MaxGen,      \* bound on generations
  MaxScenarios \* bound on the scenarios that are merged

ASSUME LibraryAssumption ==
  /\ EdgeSpace \subseteq Roots \X Roots
  /\ MaxGen \in Nat \ {0}

VARIABLES
  gen,        \* generation of each root in the graph, 0 if it has none
  edges,      \* the composition edges of the graph
  plan,       \* the recovery plan in hand
  affected, frontier, hops, maxHops,   \* the loop of derive_blast_radius_v0
  budget,     \* max_disruption_cost; every root costs 1
  scenarios,  \* the containment recommendations derived so far
  combined    \* the merged containment

libraryVars == <<gen, edges, plan, affected, frontier, hops, maxHops, budget, scenarios,
          combined>>

NoLimit == -1   \* max_hops=None
Nodes == {r \in Roots : gen[r] > 0}
NoPlan == [roots |-> {}, revoked |-> {}, disabled |-> {}]
NoContainment == [isolated |-> {}, cuts |-> {}, preserved |-> {}, feasible |-> FALSE]
Containment == [isolated : SUBSET Roots, cuts : SUBSET EdgeSpace,
                preserved : SUBSET Roots, feasible : BOOLEAN]

LibraryTypeOK ==
  /\ gen \in [Roots -> 0 .. MaxGen]
  /\ edges \subseteq EdgeSpace /\ \A e \in edges : {e[1], e[2]} \subseteq Nodes
  /\ plan \in [roots : SUBSET Nodes, revoked : SUBSET (Roots \X (1 .. MaxGen)),
               disabled : SUBSET edges]
  /\ affected \subseteq Nodes /\ frontier \subseteq affected
  /\ scenarios \subseteq Containment
  /\ combined \in Containment

\* A graph that build_library_trust_graph_v0 accepts: no dangling edge.
LibraryInit ==
  /\ gen = [r \in Roots |-> 1]
  /\ edges \in SUBSET EdgeSpace
  /\ plan = NoPlan
  /\ affected = {} /\ frontier = {} /\ hops = 0 /\ maxHops = NoLimit
  /\ budget \in Budgets
  /\ scenarios = {}
  /\ combined = NoContainment

Touching(E, S) == {e \in E : e[1] \in S \/ e[2] \in S}
Boundary(E, S) == {e \in E : (e[1] \in S) # (e[2] \in S)}
Adjacent(S) == {e[1] : e \in Touching(edges, S)} \cup {e[2] : e \in Touching(edges, S)}

\* derive_recovery_plan_v0 for signals against the roots S at their generations
Plan(S) ==
  [roots |-> S, revoked |-> {<<r, gen[r]>> : r \in S}, disabled |-> Touching(edges, S)]

\* The plan, and the start of derive_blast_radius_v0 for it.
DerivePlan(S, limit) ==
  /\ plan = NoPlan
  /\ Cardinality(scenarios) < MaxScenarios
  /\ combined = NoContainment
  /\ S # {}
  /\ S \subseteq Nodes
  /\ plan' = Plan(S)
  /\ affected' = S
  /\ frontier' = S
  /\ hops' = 0
  /\ maxHops' = limit
  /\ UNCHANGED <<gen, edges, budget, scenarios, combined>>

Expanding == frontier # {} /\ (maxHops = NoLimit \/ hops < maxHops)

\* One round of the loop, composition taken as bidirectional.
Hop ==
  /\ Expanding
  /\ frontier' = Adjacent(frontier) \ affected
  /\ affected' = affected \cup frontier'
  /\ hops' = hops + 1
  /\ UNCHANGED <<gen, edges, plan, maxHops, budget, scenarios, combined>>

\* Mutant of Recommendation: the edges of the plan are cut, not the boundary.
RecommendationOfPlan ==
  LET feasible == Cardinality(affected) <= budget
  IN  [isolated |-> affected, cuts |-> plan.disabled, feasible |-> feasible,
       preserved |-> IF feasible THEN Nodes \ affected ELSE {}]

\* optimize_containment_v0 on the radius: every affected root is isolated, the
\* whole boundary cut; over budget, nothing is preserved.
Recommendation ==
  LET feasible == Cardinality(affected) <= budget
  IN  [isolated |-> affected, cuts |-> Boundary(edges, affected), feasible |-> feasible,
       preserved |-> IF feasible THEN Nodes \ affected ELSE {}]

\* The end of derive_blast_radius_v0, and the recommendation for it.
Recommend ==
  /\ plan # NoPlan
  /\ ~Expanding
  /\ scenarios' = scenarios \cup {Recommendation}
  /\ plan' = NoPlan
  /\ affected' = {} /\ frontier' = {} /\ hops' = 0 /\ maxHops' = NoLimit
  /\ UNCHANGED <<gen, edges, budget, combined>>

\* combine_containment_scenarios_v0
Combined(S) ==
  LET isolated == UNION {s.isolated : s \in S}
      feasible == \A s \in S : s.feasible
  IN  [isolated |-> isolated, cuts |-> UNION {s.cuts : s \in S}, feasible |-> feasible,
       preserved |-> IF feasible THEN Nodes \ isolated ELSE {}]

Combine ==
  /\ plan = NoPlan
  /\ scenarios # {}
  /\ combined = NoContainment
  /\ combined' = Combined(scenarios)
  /\ UNCHANGED <<gen, edges, plan, affected, frontier, hops, maxHops, budget, scenarios>>

\* The replacement graph (g, E) closes the plan p, derived from the present graph.
Closes(p, g, E) ==
  /\ <<g, E>> # <<gen, edges>>
  /\ \A r \in Roots : \A n \in 1 .. MaxGen :
       <<r, n>> \in p.revoked => (g[r] = 0 \/ g[r] > n)

\* close_recovery_v0: the replacement becomes the graph; what was derived from the
\* old graph no longer matches its digest.
Close(g, E) ==
  /\ plan # NoPlan
  /\ Closes(plan, g, E)
  /\ \E r \in Roots : g[r] > 0
  /\ \A e \in E : g[e[1]] > 0 /\ g[e[2]] > 0
  /\ gen' = g
  /\ edges' = E
  /\ plan' = NoPlan
  /\ affected' = {} /\ frontier' = {} /\ hops' = 0 /\ maxHops' = NoLimit
  /\ scenarios' = {}
  /\ combined' = NoContainment
  /\ UNCHANGED budget

\* Replacements: the roots advance or leave, the edges among the rest stay.
Replace(drop, raise) ==
  LET g == [r \in Roots |-> IF r \in drop THEN 0
                            ELSE IF r \in raise THEN gen[r] + 1 ELSE gen[r]]
      E == {e \in edges : e[1] \notin drop /\ e[2] \notin drop}
  IN  /\ raise \subseteq Nodes
      /\ \A r \in raise : gen[r] < MaxGen
      /\ Close(g, E)

Derive ==
  \/ \E S \in SUBSET Roots, limit \in NoLimit .. Cardinality(Roots) - 1 : DerivePlan(S, limit)
  \/ Hop
  \/ Recommend
  \/ Combine

LibraryNext ==
  \/ Derive
  \/ \E drop \in SUBSET Roots : \E raise \in SUBSET (Roots \ drop) : Replace(drop, raise)

LibrarySpec == LibraryInit /\ [][LibraryNext]_libraryVars

-----------------------------------------------------------------------------
Linked(r, s) == <<r, s>> \in edges \/ <<s, r>> \in edges

\* The roots that a walk of at most n edges connects with S.
Within[n \in Nat, S \in SUBSET Roots] ==
  IF n = 0 THEN S
  ELSE Within[n - 1, S \cup {r \in Roots : \E s \in S : Linked(r, s)}]

\* No path from what is isolated to what keeps serving: in every scenario and in
\* the merged containment each edge between the two sides is cut, whatever hop
\* limits the merged scenarios used.
CutsSeparate ==
  \A c \in scenarios \cup {combined} : \A e \in edges :
    (\/ e[1] \in c.isolated /\ e[2] \in c.preserved
     \/ e[2] \in c.isolated /\ e[1] \in c.preserved) => e \in c.cuts

\* "any infeasible scenario makes the combined recommendation infeasible", and
\* merging never gives a root back: what is preserved in the end was preserved
\* by every scenario, and each scenario stayed within the budget.
MergeIsConservative ==
  combined # NoContainment =>
    \A s \in scenarios :
      /\ combined.preserved \subseteq s.preserved
      /\ s.isolated \subseteq combined.isolated
      /\ combined.preserved # {} => Cardinality(s.isolated) <= budget

\* A closed recovery leaves no compromised generation behind.
ClosureRevokes ==
  [][gen' # gen => \A r \in plan.roots : gen'[r] = 0 \/ gen'[r] > gen[r]]_libraryVars

=============================================================================

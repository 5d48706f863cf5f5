------------------------------ MODULE PlanGraph ------------------------------
(* The dependency graph of an orchestrator plan (PlanStep.depends_on).      *)
EXTENDS Naturals

CONSTANT NumSteps     \* steps of the plan, in plan order

ASSUME NumStepsAssumption == NumSteps \in Nat \ {0}

Steps == 1..NumSteps

VARIABLE dependsOn    \* the plan: PlanStep.depends_on, by step

\* Ids are unique and known; anything else is refused before the search.
Plans == [Steps -> SUBSET Steps]

\* Every step of S waits for a step of S: none of them can ever start.
Deadlocked(S, graph) ==
    S # {} /\ \A s \in S : graph[s] \cap S # {}

Acyclic(graph) == \A S \in SUBSET Steps : ~Deadlocked(S, graph)
=============================================================================

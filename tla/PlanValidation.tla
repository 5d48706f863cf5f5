--------------------------- MODULE PlanValidation ---------------------------
(***************************************************************************)
(* OrchestratorPlan.validate_dependency_graph: the depth-first search by   *)
(* which a plan is accepted or rejected before anything is scheduled.  The *)
(* recursion's call stack is a variable; in which order a step's           *)
(* dependencies are visited is left open.                                  *)
(***************************************************************************)
EXTENDS PlanGraph, Sequences, SequencesExt

VARIABLES
    stack,       \* the calls of visit that have not returned
    visited,     \* steps whose visit returned
    verdict      \* "open", "accepted" or "rejected"

searchVars == <<dependsOn, stack, visited, verdict>>

\* The plan's graph, and the search so far.
SearchTypeOK ==
    /\ dependsOn \in Plans
    /\ stack \in Seq(Steps)
    /\ visited \subseteq Steps
    /\ verdict \in {"open", "accepted", "rejected"}

Visiting == {stack[i] : i \in DOMAIN stack}

SearchInit ==
    /\ dependsOn \in Plans
    /\ stack = <<>> /\ visited = {} /\ verdict = "open"

\* The early check: a step that names itself.
RejectSelfLoop ==
    /\ verdict = "open" /\ stack = <<>> /\ visited = {}
    /\ \E s \in Steps : s \in dependsOn[s]
    /\ verdict' = "rejected"
    /\ UNCHANGED <<dependsOn, stack, visited>>

Searching ==
    verdict = "open" /\ \A s \in Steps : s \notin dependsOn[s]

\* visit(step) from the outer loop.
Start(s) ==
    /\ Searching /\ stack = <<>> /\ s \notin visited
    /\ stack' = <<s>>
    /\ UNCHANGED <<dependsOn, visited, verdict>>

\* Mutant: a step that is still being visited is taken for a visited one.
UnseenAsVisited(s) == {d \in dependsOn[s] : d \notin visited \cup Visiting}
\* Dependencies on which visit does not return at once.
Unseen(s) == dependsOn[s] \ visited

\* visit(dependency), from the call on top of the stack.
Descend(d) ==
    /\ Searching /\ stack # <<>>
    /\ d \in Unseen(Last(stack)) \ Visiting
    /\ stack' = Append(stack, d)
    /\ UNCHANGED <<dependsOn, visited, verdict>>

\* A dependency that is being visited closes a cycle.
\* Mutant: visiting.remove(step) is missing, so that a second dependent of a
\* step is taken for a cycle.
RejectRevisit ==
    /\ Searching /\ stack # <<>>
    /\ dependsOn[Last(stack)] \cap (Visiting \cup visited) # {}
    /\ verdict' = "rejected"
    /\ UNCHANGED <<dependsOn, stack, visited>>

Reject ==
    /\ Searching /\ stack # <<>>
    /\ Unseen(Last(stack)) \cap Visiting # {}
    /\ verdict' = "rejected"
    /\ UNCHANGED <<dependsOn, stack, visited>>

\* Every dependency is visited.
Return ==
    /\ Searching /\ stack # <<>> /\ Unseen(Last(stack)) = {}
    /\ visited' = visited \cup {Last(stack)}
    /\ stack' = Front(stack)
    /\ UNCHANGED <<dependsOn, verdict>>

Accept ==
    /\ Searching /\ stack = <<>> /\ visited = Steps
    /\ verdict' = "accepted"
    /\ UNCHANGED <<dependsOn, stack, visited>>

SearchNext ==
    \/ RejectSelfLoop
    \/ \E s \in Steps : Start(s) \/ Descend(s)
    \/ Reject \/ Return \/ Accept

SearchSpec == SearchInit /\ [][SearchNext]_searchVars

-----------------------------------------------------------------------------
\* An accepted plan has no dependency cycle: build_execution_waves, which is
\* only given accepted plans, can schedule all of it.
AcceptedIsAcyclic == verdict = "accepted" => Acyclic(dependsOn)

\* A plan is rejected only for a cycle: no plan that could be executed is
\* turned back to the user.
RejectedIsCyclic == verdict = "rejected" => ~Acyclic(dependsOn)
=============================================================================

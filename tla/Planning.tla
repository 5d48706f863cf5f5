------------------------------ MODULE Planning ------------------------------
(***************************************************************************)
(* A plan from the orchestrator's answer to its waves: write scopes are    *)
(* normalized, the dependency search accepts or rejects the graph, and     *)
(* build_execution_waves schedules an accepted plan, with the overlaps of  *)
(* the scopes it really has.  A list of scopes is the set of its members.  *)
(***************************************************************************)
EXTENDS PlanValidation, ExecutionWaves, WriteScope

CONSTANT Scopes     \* the raw scopes that steps may have: for each step a set of them

ASSUME PlanningAssumption == Scopes \subseteq SUBSET Raw

VARIABLE scopes     \* PlanStep.write_scope, by step

planningVars == <<searchVars, wavesVars, scopes>>

Init ==
    /\ SearchInit
    /\ scopes \in [Steps -> Scopes]
    /\ overlap = {} /\ remaining = Steps /\ completed = {} /\ waves = <<>>
    /\ next = 1 /\ selected = {} /\ result = "waiting"

Normalized == \A s \in Steps : \A p \in scopes[s] : Accepted(p)

\* The field validators run before the plan's own.
RefuseScope ==
    /\ verdict = "open" /\ ~Normalized
    /\ verdict' = "refused"
    /\ UNCHANGED <<dependsOn, stack, visited, scopes, overlap, remaining,
                   completed, waves, next, selected, result>>

Search ==
    /\ Normalized /\ SearchNext
    /\ UNCHANGED <<scopes, overlap, remaining, completed, waves, next, selected,
                   result>>

\* Only an accepted plan is stored, approved and dispatched.
Begin ==
    /\ verdict = "accepted" /\ result = "waiting"
    /\ result' = "building"
    /\ overlap' = {pair \in Steps \X Steps :
                      pair[1] # pair[2]
                      /\ ScopesOverlap(scopes[pair[1]], scopes[pair[2]])}
    /\ UNCHANGED <<dependsOn, stack, visited, verdict, scopes, remaining,
                   completed, waves, next, selected>>

Build ==
    /\ WavesNext
    /\ UNCHANGED <<stack, visited, verdict, scopes>>

Next == RefuseScope \/ Search \/ Begin \/ Build

Spec == Init /\ [][Next]_planningVars

-----------------------------------------------------------------------------
Together(s, t) == \E i \in DOMAIN waves : {s, t} \subseteq waves[i]
Share(s, t) ==
    \E file \in Files, p \in scopes[s], q \in scopes[t] : Allows(p, file) /\ Allows(q, file)

\* No two steps of a wave have scopes that allow both a common file, however the
\* scopes are spelled.  (Nothing holds an agent to its step's scopes.)
NoSharedFile ==
    \A s, t \in Steps : s # t /\ Together(s, t) => ~Share(s, t)

\* Literal scopes without a common file never serialise their steps: app and
\* app2 are disjoint although one is a prefix of the other.
OverlapIsReal ==
    \A pair \in overlap : LET s == pair[1] t == pair[2] IN
        (\A p \in scopes[s] \cup scopes[t] : Literal(p)) => Share(s, t)
=============================================================================

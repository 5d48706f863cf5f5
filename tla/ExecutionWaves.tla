--------------------------- MODULE ExecutionWaves ---------------------------
(***************************************************************************)
(* build_execution_waves: the plan's steps are taken, wave by wave, in     *)
(* plan order; a step joins the wave when the waves before hold all its    *)
(* dependencies and its write scope overlaps no scope already in the wave. *)
(* Dispatch, prepare_execution and retry each run it on the stored plan.   *)
(***************************************************************************)
EXTENDS PlanGraph, Sequences

VARIABLES
    overlap,     \* pairs of steps whose write scopes overlap
    remaining,   \* steps not in a closed wave
    completed,   \* steps in a closed wave
    waves,       \* the closed waves
    next,        \* the step the inner loop is at
    selected,    \* the steps of the open wave
    result       \* "building", "built" or "cycle"

wavesVars == <<dependsOn, overlap, remaining, completed, waves, next, selected, result>>

\* scopes_overlap is symmetric; every symmetric relation is that of some
\* scopes (a scope shared by each pair), a step's own scopes not looked at.
Overlaps == {R \in SUBSET (Steps \X Steps) :
                \A s, t \in Steps : <<s, t>> \in R => <<t, s>> \in R /\ s # t}

\* The plan's graph, its scopes and the progress of the two loops.
WavesTypeOK ==
    /\ dependsOn \in Plans
    /\ overlap \in Overlaps
    /\ remaining \subseteq Steps /\ completed \subseteq Steps
    /\ waves \in Seq(SUBSET Steps)
    /\ next \in 1..(NumSteps + 1)
    /\ selected \subseteq Steps
    /\ result \in {"building", "built", "cycle"}

WavesInit ==
    /\ dependsOn \in Plans /\ overlap \in Overlaps
    /\ remaining = Steps /\ completed = {} /\ waves = <<>>
    /\ next = 1 /\ selected = {} /\ result = "building"

\* Mutant: dependencies in the open wave count as satisfied.
ReadyInWave(s) == s \in remaining /\ dependsOn[s] \subseteq completed \cup selected
Ready(s) == s \in remaining /\ dependsOn[s] \subseteq completed

\* Mutant: only the overlap with the step just before is looked at.
FitsLast(s) ==
    \A t \in selected : (\A u \in selected : u <= t) => <<s, t>> \notin overlap
Fits(s) == \A t \in selected : <<s, t>> \notin overlap

\* One round of the inner loop.
\* Mutants: the loop runs one step too far; the first step that does not fit
\* ends the loop (break for continue).
ConsiderPast ==
    /\ result = "building" /\ remaining # {} /\ next <= NumSteps + 1
    /\ selected' = IF Ready(next) /\ Fits(next) THEN selected \cup {next}
                                                ELSE selected
    /\ next' = next + 1
    /\ UNCHANGED <<dependsOn, overlap, remaining, completed, waves, result>>
ConsiderOrBreak ==
    /\ result = "building" /\ remaining # {} /\ next <= NumSteps
    /\ selected' = IF Ready(next) /\ Fits(next) THEN selected \cup {next}
                                                ELSE selected
    /\ next' = IF Ready(next) /\ ~Fits(next) THEN NumSteps + 1 ELSE next + 1
    /\ UNCHANGED <<dependsOn, overlap, remaining, completed, waves, result>>
Consider ==
    /\ result = "building" /\ remaining # {} /\ next <= NumSteps
    /\ selected' = IF Ready(next) /\ Fits(next) THEN selected \cup {next}
                                                ELSE selected
    /\ next' = next + 1
    /\ UNCHANGED <<dependsOn, overlap, remaining, completed, waves, result>>

\* Mutant: the wave's steps stay in remaining.
CloseKeeping ==
    /\ result = "building" /\ next > NumSteps /\ selected # {}
    /\ waves' = Append(waves, selected)
    /\ completed' = completed \cup selected
    /\ next' = 1 /\ selected' = {}
    /\ UNCHANGED <<dependsOn, overlap, remaining, result>>
CloseWave ==
    /\ result = "building" /\ next > NumSteps /\ selected # {}
    /\ waves' = Append(waves, selected)
    /\ completed' = completed \cup selected
    /\ remaining' = remaining \ selected
    /\ next' = 1 /\ selected' = {}
    /\ UNCHANGED <<dependsOn, overlap, result>>

\* Mutant: the builder gives up as soon as one step is not selected.
FindCycleEarly ==
    /\ result = "building" /\ next > NumSteps /\ remaining \ selected # {}
    /\ result' = "cycle"
    /\ UNCHANGED <<dependsOn, overlap, remaining, completed, waves, next, selected>>
FindCycle ==
    /\ result = "building" /\ remaining # {}
    /\ next > NumSteps /\ selected = {}
    /\ result' = "cycle"
    /\ UNCHANGED <<dependsOn, overlap, remaining, completed, waves, next, selected>>

Finish ==
    /\ result = "building" /\ remaining = {}
    /\ result' = "built"
    /\ UNCHANGED <<dependsOn, overlap, remaining, completed, waves, next, selected>>

WavesNext == Consider \/ CloseWave \/ FindCycle \/ Finish

WavesSpec == WavesInit /\ [][WavesNext]_wavesVars

-----------------------------------------------------------------------------
(* Properties *)

\* A step's dependencies are in waves before its own: a later agent sees the
\* integrated work of the steps it depends on.
DependenciesFirst ==
    \A i \in DOMAIN waves : \A s \in waves[i] : \A d \in dependsOn[s] :
        \E j \in DOMAIN waves : j < i /\ d \in waves[j]

\* Steps that may write the same files never run in parallel.
NoOverlapInWave ==
    \A i \in DOMAIN waves : \A s, t \in waves[i] : <<s, t>> \notin overlap

\* Each step is scheduled once: prepare_execution writes one wave_index per
\* step, and the chain executes each wave's steps once.
ScheduledOnce ==
    /\ \A i, j \in DOMAIN waves : i # j => waves[i] \cap waves[j] = {}
    /\ result = "built" => \A s \in Steps : \E i \in DOMAIN waves : s \in waves[i]

\* Only a plan with a dependency cycle is refused, never one whose scopes
\* merely exclude each other.
CycleIsReal == result = "cycle" => ~Acyclic(dependsOn)

\* A step waits only for a dependency in the wave before its own, or for an
\* earlier step of that wave with an overlapping scope: nothing is serialised
\* without need.
NoNeedlessDelay ==
    \A i \in DOMAIN waves : i > 1 => \A s \in waves[i] :
        \/ dependsOn[s] \cap waves[i - 1] # {}
        \/ \E t \in waves[i - 1] : t < s /\ <<s, t>> \in overlap
=============================================================================

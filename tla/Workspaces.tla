----------------------------- MODULE Workspaces -----------------------------
(***************************************************************************)
(* The directories that agents edit: the one clone of a repository, and    *)
(* the worktree of each step of an orchestrator's plan.                    *)
(***************************************************************************)
EXTENDS Naturals, Sequences, FiniteSets

CONSTANTS
    Tasks,        \* single-agent tasks: run_agent_task in the clone
    Steps,        \* orchestrator steps: execute_step in a worktree each
    Files,
    MaxLosses     \* bound on faults: crashes, lost answers, refused messages, time limits

Runs == Tasks \cup Steps
Clone == "clone"
Places == {Clone} \cup Steps
Nobody == "nobody"

\* What a file holds: nothing, what was committed of some file, or a run's edit.
Absent == "absent"
Contents == {Absent} \cup Files \cup Runs

ASSUME WorkspacesAssumption ==
    /\ MaxLosses \in Nat /\ Tasks \cap Steps = {}
    /\ Clone \notin Steps /\ Nobody \notin Runs /\ Absent \notin Files \cup Runs

VARIABLES
    tree,       \* by place and file: the content
    owner,      \* by file: the run that last changed it in the clone (ghost)
    losses

workspaceVars == <<tree, owner, losses>>

\* Also after git reset --hard and git clean -fd.
Clean == [f \in Files |-> f]

WorkspacesTypeOK ==
    /\ tree \in [Places -> [Files -> Contents]]
    /\ owner \in [Files -> Runs \cup {Nobody}]
    /\ losses \in 0..MaxLosses

WorkspacesInit ==
    /\ tree = [p \in Places |-> Clean]
    /\ owner = [f \in Files |-> Nobody]
    /\ losses = 0

\* The directory the run was given (repo_path).
PathOf(r) == IF r \in Steps THEN r ELSE Clone

Changed(before, after) == {f \in Files : before[f] # after[f]}

\* A run r (or Nobody) leaves the directory p with these files.
Edits(r, p, after) ==
    /\ tree' = [tree EXCEPT ![p] = after]
    /\ owner' = IF p # Clone THEN owner
                ELSE [f \in Files |-> IF f \in Changed(tree[p], after) THEN r ELSE owner[f]]

Lose == losses < MaxLosses /\ losses' = losses + 1
=============================================================================

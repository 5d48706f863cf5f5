----------------------------- MODULE AgentRuns -----------------------------
(***************************************************************************)
(* Agents that work in the directories of one repository, and the index    *)
(* that is kept of its clone: AgentTools and CodeIndex together.           *)
(***************************************************************************)
EXTENDS AgentTools, CodeIndex

CONSTANT Batches    \* bound: what is begun together, of the runs and the full index

ASSUME AgentRunsAssumption == Batches \subseteq SUBSET (Runs \cup {Full})

allVars == <<workspaceVars, toolVars, indexVars>>

\* Workspaces, runs, discovered tools, index and jobs keep their types.
TypeOK == WorkspacesTypeOK /\ ToolsTypeOK /\ IndexTypeOK

Init == WorkspacesInit /\ ToolsInit /\ IndexInit

\* run_agent_task after the agent has returned: what it reports is queued for the
\* index, unless it is nothing or the broker refuses the message.
TaskEnds(t) ==
    /\ At(t, "returned")
    /\ run' = [run EXCEPT ![t] = [NewRun EXCEPT !.pc = "done", !.changed = run[t].changed,
                                               !.edited = run[t].edited]]
    /\ \/ /\ run[t].changed # {}
          /\ job' = [job EXCEPT ![t] =
               [NewJob EXCEPT !.pc = "queued", !.files = run[t].changed]]
          /\ UNCHANGED losses
       \/ /\ IF run[t].changed = {} THEN UNCHANGED losses ELSE Lose
          /\ UNCHANGED job
    /\ UNCHANGED <<tree, owner, mode, routes, inflight, index, raced>>

Begun == {r \in Runs : ~At(r, "idle")} \cup {j \in {Full} : job[j].pc # "queued"}
MayBegin(x) == \E batch \in Batches : Begun \cup {x} \subseteq batch

AgentStep(r) ==
    \/ ModelAsks(r) \/ ModelStops(r)
    \/ CallSucceeds(r) \/ CallFails(r)
    \/ LegacySucceeds(r) \/ LegacyRaises(r) \/ LegacyEnds(r)
    \/ MockRuns(r)
    \/ r \in Steps /\ (VerifyStarts(r) \/ CheckRuns(r) \/ VerifyEnds(r))

AgentFault(r) ==
    \/ RunRaises(r) \/ CallGarbled(r) \/ CallOutlived(r) \/ CommandHangs(r)
    \/ r \in Steps /\ CheckHangs(r)
    \/ SoftLimit(r) \/ HardLimit(r) \/ WorkerLost(r)

JobStep(j) == ((j = Full => MayBegin(j)) /\ JobReads(j)) \/ JobCompares(j) \/ JobWrites(j)

Next ==
    \/ \E r \in Runs :
          /\ (MayBegin(r) /\ Begin(r)) \/ AgentStep(r) \/ AgentFault(r) \/ \E t \in Names : ServerEdits(r, t)
          /\ UNCHANGED indexVars
    \/ \E t \in Tasks : TaskEnds(t)
    \/ \E j \in Jobs :
          /\ JobStep(j) \/ JobFails(j) \/ JobLost(j)
          /\ UNCHANGED toolVars

Spec == Init /\ [][Next]_allVars

\* A worker that runs goes on: the model and the commands answer or are stopped,
\* and a run that hangs meets its time limits.
Fairness ==
    /\ \A r \in Runs :
          /\ WF_allVars((AgentStep(r) \/ (Hangs(r) /\ (SoftLimit(r) \/ HardLimit(r))))
                        /\ UNCHANGED indexVars)
    /\ \A t \in Tasks : WF_allVars(TaskEnds(t))
FairSpec == Spec /\ Fairness

-----------------------------------------------------------------------------
Over(r) == run[r].pc \in {"done", "failed", "killed"}

\* The remote tools that the operator has trusted: named for the agent, not denied,
\* and allowed by name where the name sounds dangerous.
Trusted == {t \in Dynamic \ Denylist : t \in Allowlist \/ t \notin Dangerous}

\* A file is gone, and no other one took its content.
Vanishes(p, f) ==
    /\ tree[p][f] # Absent /\ tree'[p][f] = Absent
    /\ \A g \in Files \ {f} : tree'[p][g] # tree[p][f]

\* No call makes a file vanish but one of a trusted remote tool, made by the run
\* that discovered it or late by the server, and then in the clone.  The
\* workspace's own tools, the legacy markers and what a server offers under a
\* dangerous or a denied name never do: their deletions need a confirmation that
\* no agent can give, or are not discovered.
DeletionIsTrusted ==
    [][\A p \in Places, f \in Files : Vanishes(p, f) =>
          /\ p = Clone
          /\ \/ \E r \in Runs : run'[r] # run[r] /\ routes[r] \cap Trusted # {}
             \/ \E x \in inflight \ inflight' : x[2] \in Trusted]_allVars

\* A step is done only with a change that all the commands which apply to it have
\* verified, each of them ended by itself with status 0, or that is documents only.
DoneIsVerified ==
    \A s \in Steps : At(s, "done") =>
        /\ Uncommitted(s) # {}
        /\ \A f \in Uncommitted(s) \ Documents : \A c \in Checks[f] :
              [check |-> c, result |-> [exit |-> 0, timedOut |-> FALSE]] \in run[s].results
        /\ \A x \in run[s].results : x.result = [exit |-> 0, timedOut |-> FALSE]

\* The index holds what the clone holds of each file that a task's own tools or
\* markers edited and that nobody has edited since, once the task's job went
\* through, unless another job that had the file was at work together with that
\* one or since.  So every such edit is in the task's report, both ends of a rename.
IndexAgrees ==
    \A f \in Files \ raced : \A t \in Tasks :
        owner[f] = t /\ At(t, "done") /\ f \in run[t].edited /\ job[t].pc = "done"
        => index[f] = Draft(f)

\* A run that has begun comes to an end, whatever the model, the tools and the
\* commands do.
RunsEnd == \A r \in Runs : run[r].pc \in AtWork ~> Over(r) \/ At(r, "idle")

\* A step's agent edits the worktree of the step and leaves the clone alone.
\* (Refuted: the file tools resolve the repository, not the worktree.)
StepEditsItsWorktree == \A f \in Files : owner[f] \notin Steps
=============================================================================

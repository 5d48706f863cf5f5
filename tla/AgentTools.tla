----------------------------- MODULE AgentTools -----------------------------
(***************************************************************************)
(* An agent at work: the rounds of model answers and tool calls, the tool  *)
(* registry with what MCP discovery adds to it, the file tools and command *)
(* tools, the legacy file markers, and the verification that decides over  *)
(* a step's run.  Every run has a worker process of its own; the runs and  *)
(* the MCP server share the directories.                                   *)
(***************************************************************************)
EXTENDS Workspaces

CONSTANTS
    MaxRounds,    \* agent_tool_max_rounds
    MaxCalls,     \* bound on the tool calls of one answer of the model
    MaxMarkers,   \* bound on the legacy markers of one answer
    MaxRepairs,   \* orchestrator_step_max_repair_attempts
    Documents,    \* the files that need no check
    Checks,       \* by file: the commands that verify a change of it
    Profile,      \* AGENT_TOOL_PROFILES of the agent
    Offered,      \* the tools that an MCP server may offer
    Dangerous,    \* those whose names tell of deleting or of running something
    Allowlist,    \* mcp_dynamic_allowlist
    Denylist,     \* mcp_dynamic_denylist
    Dynamic,      \* the remote tools the agent's dynamic profile names
    Fallback      \* agent_legacy_file_protocol_fallback

ASSUME AgentToolsAssumption ==
    /\ {MaxRounds, MaxCalls, MaxMarkers} \subseteq Nat \ {0} /\ MaxRepairs \in Nat
    /\ Documents \subseteq Files /\ Fallback \in BOOLEAN
    /\ Profile \subseteq {"read", "changes", "write", "rename", "delete", "check"}

VARIABLES
    mode,       \* how tools are called: local, hybrid or mcp
    routes,     \* by run: the remote tools its process discovered
    run,        \* by run: the loop's local state; edited: the clone's files that the
                \* workspace's own tools edited for a task in calls that succeeded (ghost)
    inflight    \* calls the MCP server has yet to make, after the caller gave up

toolVars == <<mode, routes, run, inflight>>

\* The workspace's own tools, "read" for all that only read and "check" for tests,
\* lint, type check and build.
FileTools == {"read", "changes", "write", "rename", "delete"}
Commands == {"check"}
Local == FileTools \cup Commands
Names == Local \cup Offered \cup {"unknown"}
HighRisk == {"delete"}

\* Discovery refuses what the deny list names, and what sounds dangerous unless
\* the allow list names it.  What it accepts has a low or medium risk.
\* Mutant: only the deny list is looked at.
AcceptedByList(offer) == offer \ Denylist
Accepted(offer) == {t \in offer \ Denylist : t \in Allowlist \/ t \notin Dangerous}

Working == {"model", "calls", "hung", "legacy"}
Verifying == {"verify", "check hung"}
AtWork == Working \cup Verifying \cup {"mock", "returned"}
NewRun == [pc |-> "idle", adapter |-> "none", round |-> 0, calls |-> 0, changed |-> {}, edited |-> {},
           results |-> {}, attempt |-> 0, limited |-> FALSE, stage |-> 1]

\* One command of the runner: its exit status, and whether it was stopped; and one
\* that did not run, or that the runner raised an exception about.
CommandResults == [exit : {0, 1}, timedOut : BOOLEAN]
NoResult == [exit |-> 1, timedOut |-> FALSE]

ToolsTypeOK ==
    /\ mode \in {"local", "hybrid", "mcp"}
    /\ routes \in [Runs -> SUBSET Offered]
    /\ \A r \in Runs :
          /\ run[r].pc \in AtWork \cup {"idle", "failed", "killed", "done"}
          /\ run[r].adapter \in {"none", "model", "mock"}
          /\ run[r].round \in 0..MaxRounds /\ run[r].calls \in 0..(MaxCalls + MaxMarkers)
          /\ run[r].attempt \in 0..MaxRepairs
          /\ run[r].changed \cup run[r].edited \subseteq Files
          /\ \A x \in run[r].results : x.result \in CommandResults
    /\ inflight \subseteq Runs \X Names

ToolsInit ==
    /\ mode \in {"local", "hybrid", "mcp"}
    /\ routes = [r \in Runs |-> {}]
    /\ run = [r \in Runs |-> NewRun]
    /\ inflight = {}

At(r, pc) == run[r].pc = pc
Goes(r, pc) == run' = [run EXCEPT ![r].pc = pc]

\* Nothing is left of a run that ends without a result.
Ends(r, pc) == run' = [run EXCEPT ![r] = [NewRun EXCEPT !.pc = pc]]

-----------------------------------------------------------------------------
(***************************************************************************)
(* The registry of a process                                               *)
(***************************************************************************)
\* Discovery adds tools, and leaves a local tool its definition and handler.
Listed(r) == Local \cup routes[r]

\* A remote tool needs the dynamic profile; nothing grants a tool of high risk,
\* which a route to the server's tool of the same name does not lower.
Granted(r) ==
    {t \in Listed(r) :
        /\ t \in Profile \/ (t \notin Local /\ t \in Dynamic)
        /\ t \notin HighRisk}

Remote(t) == mode = "mcp" \/ (mode = "hybrid" /\ t \notin Local)

\* The server has no command tools.
Served(t) == t \notin Commands

\* ToolRegistry.call without the user's confirmation.
Allows(t) == t \notin HighRisk

\* What a tool does to a directory: write, rename onto, delete.
After(dir, t, f, g, r) ==
    CASE t = "write" -> [dir EXCEPT ![f] = r]
      [] t = "rename" /\ f # g -> [dir EXCEPT ![g] = dir[f], ![f] = Absent]
      [] t = "delete" -> [dir EXCEPT ![f] = Absent]
      [] OTHER -> dir

Applicable(dir, t, f) == t = "rename" => dir[f] # Absent

\* structured_content["changed_files"]; get_changed_files lists what anybody left
\* uncommitted.
\* Mutant: a rename reports its target only.
ReportedTarget(dir, t, f, g) ==
    CASE t \in {"write", "delete"} -> {f}
      [] t = "rename" -> {g}
      [] t = "changes" -> Changed(dir, Clean)
      [] OTHER -> {}
Reported(dir, t, f, g) ==
    CASE t \in {"write", "delete"} -> {f}
      [] t = "rename" -> {f, g}
      [] t = "changes" -> Changed(dir, Clean)
      [] OTHER -> {}

-----------------------------------------------------------------------------
(***************************************************************************)
(* The rounds                                                              *)
(***************************************************************************)
\* One call has its answer; after the last one the model is asked again, and after
\* the last round the run is an exception.
Answered(s) ==
    IF s.calls > 1 THEN [s EXCEPT !.pc = "calls", !.calls = @ - 1]
    ELSE IF s.round < MaxRounds THEN [s EXCEPT !.pc = "model", !.calls = 0]
    ELSE [NewRun EXCEPT !.pc = "failed"]

\* Mutant: a round is counted when the model stops only.
ModelAsksUncounted(r) ==
    /\ At(r, "model")
    /\ \E n \in 1..MaxCalls : run' = [run EXCEPT ![r].pc = "calls", ![r].calls = n]
    /\ UNCHANGED <<workspaceVars, mode, routes, inflight>>
ModelAsks(r) ==
    /\ At(r, "model")
    /\ \E n \in 1..MaxCalls :
         run' = [run EXCEPT ![r].pc = "calls", ![r].round = @ + 1, ![r].calls = n]
    /\ UNCHANGED <<workspaceVars, mode, routes, inflight>>

\* An answer without calls is the result; it may hold legacy markers.
ModelStops(r) ==
    /\ At(r, "model")
    /\ \/ run' = [run EXCEPT ![r].pc = "returned", ![r].round = 0]
       \/ /\ Fallback
          /\ \E n \in 1..MaxMarkers :
               run' = [run EXCEPT ![r].pc = "legacy", ![r].round = 0, ![r].calls = n]
    /\ UNCHANGED <<workspaceVars, mode, routes, inflight>>

\* What a call with tool t may do to a directory, and what it then reports.  A
\* tool of the server's own may do anything, whatever it is called, and need not
\* report it.
Outcome(dir, t, f, g, r) ==
    [after |-> After(dir, t, f, g, r), files |-> Reported(dir, t, f, g)]
OwnOutcomes(dir, t, r) ==
    {Outcome(dir, t, p[1], p[2], r) : p \in {q \in Files \X Files : Applicable(dir, t, q[1])}}
RemoteOutcomes(dir, r) ==
    UNION {{o, [o EXCEPT !.files = {}]} :
             o \in UNION {OwnOutcomes(dir, t, r) : t \in {"write", "rename", "delete"}}}
Outcomes(dir, t, r) ==
    IF t \in Local THEN OwnOutcomes(dir, t, r) ELSE RemoteOutcomes(dir, r)

\* The clone's files that a task edits (ghost).
EditedBy(r, after) == IF r \in Tasks THEN Changed(tree[Clone], after) ELSE {}

\* The trusted identity leads to the repository's clone, whatever directory the
\* run was given.
CallSucceeds(r) ==
    /\ At(r, "calls")
    /\ \E t \in {u \in Granted(r) : Allows(u) /\ (Remote(u) => Served(u))} :
       \E o \in Outcomes(tree[Clone], t, r) :
          /\ Edits(r, Clone, o.after)
          /\ run' = [run EXCEPT ![r] =
               Answered([run[r] EXCEPT
                 !.changed = @ \cup o.files,
                 !.edited = @ \cup (IF t \in Local THEN EditedBy(r, o.after) ELSE {})])]
    /\ UNCHANGED <<losses, mode, routes, inflight>>

\* A tool the run does not have, a refused argument, a missing file, a failing
\* command, a tool the server does not know: the model is told.
CallFails(r) ==
    /\ At(r, "calls")
    /\ run' = [run EXCEPT ![r] = Answered(@)]
    /\ UNCHANGED <<workspaceVars, mode, routes, inflight>>

\* The granted tools that may edit.
Editing(r) == {t \in Granted(r) : t \in {"write", "rename"} \/ t \notin Local}

\* The edit is made (or half made), the caller sees an exception.
CallGarbled(r) ==
    /\ At(r, "calls") /\ Lose
    /\ \E t \in Editing(r) : \E o \in Outcomes(tree[Clone], t, r) :
          /\ Edits(r, Clone, o.after)
          /\ run' = [run EXCEPT ![r] = Answered(@)]
    /\ UNCHANGED <<mode, routes, inflight>>

\* The client has given up, the server has not.
CallOutlived(r) ==
    /\ At(r, "calls") /\ Lose
    /\ \E t \in Editing(r) : Remote(t) /\ inflight' = inflight \cup {<<r, t>>}
    /\ run' = [run EXCEPT ![r] = Answered(@)]
    /\ UNCHANGED <<tree, owner, mode, routes>>

ServerEdits(r, t) ==
    /\ <<r, t>> \in inflight
    /\ \E o \in Outcomes(tree[Clone], t, r) : Edits(Nobody, Clone, o.after)
    /\ inflight' = inflight \ {<<r, t>>}
    /\ UNCHANGED <<losses, mode, routes, run>>

\* A command that was killed for its time, but whose child keeps the pipes open:
\* the runner waits for them without a limit.
CommandHangs(r) ==
    /\ At(r, "calls") /\ Lose
    /\ \E t \in Commands \cap Granted(r) : ~Remote(t)
    /\ Goes(r, "hung")
    /\ UNCHANGED <<tree, owner, mode, routes, inflight>>

-----------------------------------------------------------------------------
(***************************************************************************)
(* The legacy markers: renames, then deletions, then files, in the run's   *)
(* own directory.  They are refused where MCP is on.                       *)
(***************************************************************************)
Stages == <<"rename", "delete", "write">>

LegacySucceeds(r) ==
    /\ At(r, "legacy") /\ run[r].calls > 0 /\ mode = "local"
    /\ \E k \in {i \in run[r].stage..3 : Allows(Stages[i])} :
       \E o \in Outcomes(tree[PathOf(r)], Stages[k], r) :
          /\ Edits(r, PathOf(r), o.after)
          /\ run' = [run EXCEPT ![r].stage = k, ![r].calls = @ - 1, ![r].changed = @ \cup o.files,
                               ![r].edited = @ \cup EditedBy(r, o.after)]
    /\ UNCHANGED <<losses, mode, routes, inflight>>

\* The first marker that cannot be applied ends the run; the others stay applied.
LegacyRaises(r) ==
    /\ At(r, "legacy") /\ run[r].calls > 0
    /\ Ends(r, "failed")
    /\ UNCHANGED <<workspaceVars, mode, routes, inflight>>

LegacyEnds(r) ==
    /\ At(r, "legacy") /\ run[r].calls = 0
    /\ run' = [run EXCEPT ![r].pc = "returned", ![r].stage = 1]
    /\ UNCHANGED <<workspaceVars, mode, routes, inflight>>

\* The adapter of an agent without a model: one file in the run's directory.
MockRuns(r) ==
    /\ At(r, "mock")
    /\ \E o \in Outcomes(tree[PathOf(r)], "write", r) :
          /\ Edits(r, PathOf(r), o.after)
          /\ run' = [run EXCEPT ![r].pc = "returned", ![r].changed = o.files,
                               ![r].edited = EditedBy(r, o.after)]
    /\ UNCHANGED <<losses, mode, routes, inflight>>

\* The model's service, the adapter, git or the verification raises.
RunRaises(r) ==
    /\ run[r].pc \in {"model", "mock", "returned", "verify"} /\ Lose
    /\ Ends(r, "failed")
    /\ UNCHANGED <<tree, owner, mode, routes, inflight>>

-----------------------------------------------------------------------------
(***************************************************************************)
(* A run's beginning and end                                               *)
(***************************************************************************)
\* prepare_branch or reset_step_worktree; the process has made its discovery,
\* which may have failed and is not made in local mode.
Begin(r) ==
    /\ At(r, "idle")
    /\ Edits(Nobody, PathOf(r), Clean)
    /\ \E offer \in (IF mode = "local" THEN {{}} ELSE SUBSET Offered) :
         routes' = [routes EXCEPT ![r] = Accepted(offer)]
    /\ \E pc \in {"model", "mock"} :
         run' = [run EXCEPT ![r] = [NewRun EXCEPT !.pc = pc, !.adapter = pc]]
    /\ UNCHANGED <<losses, mode, inflight>>

\* What verify() makes of the step's worktree.
Uncommitted(s) == Changed(tree[s], Clean)
Selected(s) == UNION {Checks[f] : f \in Uncommitted(s)}
Unchecked(s) == Selected(s) \ {x.check : x \in run[s].results}
OnlyDocuments(s) == Uncommitted(s) # {} /\ Uncommitted(s) \subseteq Documents

\* Mutant: a command that was stopped in time to exit with 0 passes.
PassedByExit(x) == x.result.exit = 0
Passed(x) == x.result.exit = 0 /\ ~x.result.timedOut

\* What the agent reported is dropped: a step's files are those that differ in its
\* worktree, whatever its tools have edited in the clone.
VerifyStarts(s) ==
    /\ At(s, "returned") /\ s \in Steps
    /\ run' = [run EXCEPT ![s].pc = "verify", ![s].changed = {}]
    /\ UNCHANGED <<workspaceVars, mode, routes, inflight>>

CheckRuns(s) ==
    /\ At(s, "verify") /\ ~OnlyDocuments(s)
    /\ \E c \in Unchecked(s), result \in CommandResults :
         run' = [run EXCEPT ![s].results = @ \cup {[check |-> c, result |-> result]}]
    /\ UNCHANGED <<workspaceVars, mode, routes, inflight>>

\* The same runner, and so the same wait.
CheckHangs(s) ==
    /\ At(s, "verify") /\ ~OnlyDocuments(s) /\ Unchecked(s) # {} /\ Lose
    /\ Goes(s, "check hung")
    /\ UNCHANGED <<tree, owner, mode, routes, inflight>>

\* Documents need no check; a change that no check applies to fails.
Verified(s) ==
    \/ OnlyDocuments(s)
    \/ Selected(s) # {} /\ \A x \in run[s].results : Passed(x)

\* Mutant: one repair too many.
ExhaustedLate(s) == run[s].attempt > MaxRepairs
Exhausted(s) == run[s].attempt = MaxRepairs

\* The agent runs again on a failed verification.
VerifyEnds(s) ==
    /\ At(s, "verify")
    /\ OnlyDocuments(s) \/ Unchecked(s) = {}
    /\ run' = [run EXCEPT ![s] =
         IF Verified(s) THEN [NewRun EXCEPT !.pc = "done", !.results = run[s].results]
         ELSE IF Exhausted(s) THEN [NewRun EXCEPT !.pc = "failed"]
         ELSE [run[s] EXCEPT !.pc = run[s].adapter, !.attempt = @ + 1, !.results = {}]]
    /\ UNCHANGED <<workspaceVars, mode, routes, inflight>>

-----------------------------------------------------------------------------
(***************************************************************************)
(* Time limits and lost workers                                            *)
(***************************************************************************)
Hangs(r) == run[r].pc \in {"hung", "check hung"}

\* The soft limit is an exception.  A tool or a check that it falls into reports
\* it as its own failure, and the run goes on; anywhere else it ends the run.
SoftLimit(r) ==
    /\ run[r].pc \in AtWork /\ ~run[r].limited
    /\ IF Hangs(r) THEN UNCHANGED losses ELSE Lose
    /\ \/ /\ ~Hangs(r)
          /\ Ends(r, "failed")
       \/ /\ run[r].pc \in {"calls", "hung"}
          /\ run' = [run EXCEPT ![r] = [Answered(@) EXCEPT !.limited = TRUE]]
       \/ /\ run[r].pc \in Verifying /\ ~OnlyDocuments(r)
          /\ \E c \in Unchecked(r) :
               run' = [run EXCEPT ![r].pc = "verify", ![r].limited = TRUE,
                        ![r].results = @ \cup {[check |-> c, result |-> NoResult]}]
    /\ UNCHANGED <<tree, owner, mode, routes, inflight>>

\* The hard limit ends the process, and the message is acknowledged.
HardLimit(r) ==
    /\ run[r].pc \in AtWork /\ run[r].limited
    /\ Ends(r, "killed")
    /\ UNCHANGED <<workspaceVars, mode, routes, inflight>>

\* A lost worker's message is delivered again; a step's is skipped then.
WorkerLost(r) ==
    /\ run[r].pc \in AtWork /\ Lose
    /\ Ends(r, IF r \in Steps THEN "killed" ELSE "idle")
    /\ UNCHANGED <<tree, owner, mode, routes, inflight>>
=============================================================================

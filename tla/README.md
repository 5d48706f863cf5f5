# AgentHub backend: specification and proofs

AgentHub answers chat messages with coding agents that work on a git repository.
Its hardest part is the *orchestrator*: a user confirms a plan of several steps,
Celery workers run the steps in parallel, each in a git worktree of its own, merge
their commits wave by wave into an integration branch, and generate one CodeChange
that is reviewed and turned into a pull request. Cancellation, retry, reconcile and
cleanup requests race with all of it. Next to it, single agents work in the one
clone of a repository, with file and command tools, and what they leave is
captured, reviewed, revised, pushed and indexed. This directory holds TLA+
specifications of both, TLC configurations that check them on small instances, and
proofs that TLAPS checks for every value of the constants. Paths below are relative to
`src/app/` unless they begin with `docs/`.

1. [Inventory of the system](#1-inventory-of-the-system)
2. [What is modelled, and how it corresponds to the code](#2-what-is-modelled)
3. [Runs, bounds and fairness](#3-runs-bounds-and-fairness)
4. [Proofs](#4-proofs)
5. [Known divergences](#5-known-divergences)
6. [What is not modelled](#6-what-is-not-modelled)
7. [Plan](#7-plan)

## 1. Inventory of the system

FastAPI processes serve HTTP and WebSocket clients; Celery workers (broker and
lock store: Redis) run agents; SQLAlchemy keeps the state in a relational database;
git repositories and worktrees live on a disk that workers share.

### The orchestrator

| Component | State | Operations | What makes it correct |
|---|---|---|---|
| Plan schema (`agents/graph/schemas.py`) | none | validation of ids, scopes, cycles | accepts exactly the acyclic plans |
| Scheduling (`services/orchestrator_schedule_service.py`) | none | `build_execution_waves`, `scopes_overlap` | dependencies in earlier waves, disjoint scopes within a wave, every step once |
| Dispatch (`services/orchestrator_dispatch_service.py`) | parent's `metadata_json`: generation, canvas and task ids, plan status | `build_orchestrator_canvas`, `dispatch_orchestrator_execution` | one canvas per generation; a failed publication is recorded |
| Execution (`services/orchestrator_execution_service.py`, `workers/orchestrator_tasks.py`) | parent and child `Task` rows, worktrees, integration branch, `CodeChange` | `prepare_execution`, `prepare_wave`, `execute_step`, `merge_wave`, `finalize_execution` | see section 2 |
| Recovery (`services/orchestrator_recovery_service.py`) | the same | cancel, retry in place, reconcile, cleanup | old generations stay inert, finished work is kept |
| Worktrees (`services/worktree_service.py`) | registered worktrees, step and integration branches | ensure, reset, commit, cherry-pick, remove | rows and git agree |
| Repository lock (`services/repository_lock_service.py`) | a Redis key with a TTL | acquire, release | excludes, and recovers from a dead holder |
| Plan graph (`agents/graph/*`, `agents/langgraph_adapter.py`) | LangGraph checkpoints | plan, interrupt for approval, dispatch, reject | a plan runs only after its approval, and once |
| Orchestrator workers (`workers/agent_tasks.py`) and requests (`api/messages.py`, `api/tasks.py`) | the `Task` row's status and `celery_task_id` | run, resume; message, confirm, cancel | the status agrees with what is going on |

A confirmed plan becomes a canvas (a Celery chain):
`prepare -> [prepare_wave -> chord(step, ..., step) -> merge_wave]* -> finalize`.
Every callback opens its own database session, passes a *barrier* (generation
current, parent not terminal), takes the parent's row lock for the part that
writes, and returns a dictionary on every path, so that a business failure never
breaks the chain: the next callback finds the parent FAILED at its barrier. The
execution *generation* is the fence against old callbacks: cancel and retry
advance it.

Hard behaviours: callbacks of two generations interleave; rows are read without
the lock and used after a long git or agent operation; Celery redelivers the
message of a lost worker, and drops that of a task killed at the hard limit;
revocation is a broadcast that may miss a worker; the dispatcher's second
transaction races with the canvas it published; reconcile and cleanup read
snapshots; a merge fails half way between git and the rows. Before all that,
planning, confirmation and cancellation write the same row without any lock,
from sessions that hold what they read earlier.

### Single agents and what becomes of their work

| Component | State | Hard behaviours |
|---|---|---|
| Task API and service (`api/tasks.py`, `services/task_service.py`) | `Task` rows | the retry of a plain task races with workers; capacity is counted before an await |
| Agent worker (`workers/agent_tasks.py`) | `Task` rows, revisions | status written over a cancellation; redelivery of finished tasks; exceptions in three nested handlers |
| Messages and chat (`api/messages.py`, `services/chat_service.py`) | conversations, messages | task committed before its message is published |
| CodeChange, review, pull request (`services/code_change_service.py`, `services/repo_service.py`, `services/github_service.py`, `services/code_review_service.py`) | `CodeChange`, `PullRequest`, GitHub | commit, push, pull request and rows fail separately; captured from a tree that others edit |
| Deployment (`services/deployment_service.py`) | `Deployment` rows, previews | preconditions; an old preview is removed before the build |
| Shared workspace (`services/workspace_service.py`) | the clone: HEAD, branches, uncommitted edits | every task and request checks out and resets the same tree |
| Verification and commands (`services/verification_service.py`, `services/command_runner.py`) | child processes | time limits that are taken for failures, a command that cannot be ended, a bounded repair loop |
| Tools (`agents/tool_calling.py`, `tools/*`) and MCP (`mcp/*`) | routing tables of each process | three modes of calls and legacy markers; the answer of a remote edit is lost |
| Repository index (`rag/*`, `workers/index_tasks.py`) | chunks and files | jobs that read, embed for seconds and then write; a list of files that must be complete |

### The rest

| Component | State | Hard behaviours |
|---|---|---|
| Context assembly (`agents/context/*`) | none | a token budget |
| Realtime (`core/broadcaster.py`, `core/websocket_manager.py`, `api/websocket.py`) | connection lists | a list changed while it is iterated |
| Rate limit (`core/rate_limit.py`) | a sliding window | boundaries of the window |
| Authentication, configuration, models | users, settings | none of interest here |

`PROJECT.json` lists every component with its status, and under `hazards` the
places, by line, where an interleaving, a loss or a boundary can go wrong, with
the properties that look for it.

## 2. What is modelled

| Module | Models | Lines of code it stands for |
|---|---|---|
| `OrchestratorExecution` | dispatch, the five callbacks, cancel, retry: the core | dispatch, execution and recovery services, worktrees |
| `OrchestratorContract` | what the core promises to its clients (abstract) | the status, the generation, the branch, the CodeChanges |
| `ExecutionInvariants` | the inductive invariant of the core's safety, and the mapping from the core to the contract | - |
| `ExecutionProgress` | the inductive invariants of its progress: who is in charge, how far the steps are, what git holds | - |
| `OrchestratorRecovery` | lost workers, lost API processes, reconcile, cleanup; extends the core | recovery service, Celery configuration |
| `RecoveryInvariants` | what is left of the core's invariants when workers are lost and reconciles and cleanups come at any time, and which of these do harm | - |
| `PlanApproval` | one orchestrator task from the message to its dispatch: requests, workers, the LangGraph thread | `api/messages.py`, `api/tasks.py`, `services/task_service.py`, `workers/agent_tasks.py`, `agents/graph/*` |
| `CodeChanges` | a code change from the task that makes it to its pull request and preview | `workers/agent_tasks.py`, `services/task_service.py`, `services/repo_service.py`, `services/code_change_service.py`, `services/workspace_service.py`, `services/deployment_service.py`, their endpoints |
| `Workspaces` | the directories that agents edit | `services/workspace_service.py`, `services/worktree_service.py` |
| `AgentTools` | an agent's rounds of tool calls, the registry, discovery, the tools, the verification of a step | `agents/tool_calling.py`, `tools/*`, `mcp/*`, `services/command_runner.py`, `services/verification_service.py` |
| `CodeIndex` | index jobs | `rag/index_service.py`, `workers/index_tasks.py` |
| `AgentRuns` | composes `AgentTools` and `CodeIndex` over one `Workspaces` | `workers/agent_tasks.py` |
| `PlanGraph`, `PlanValidation` | the depth-first search of the plan validator | `agents/graph/schemas.py` |
| `ExecutionWaves` | `build_execution_waves` | `services/orchestrator_schedule_service.py` |
| `WriteScope` | normalisation and overlap of write scopes, against a reference definition | both of the above |
| `Planning` | composes the three: scopes, search, waves | both of the above |
| `RepositoryLock` | the Redis lock | `services/repository_lock_service.py` |
| `*_proofs` | theorems | - |
| `MCExecution`, `MCLateDispatch`, `MCRecovery`, `MCPlanApproval`, `MCPlanning`, `MCCodeChanges`, `MCAgentRuns` | small plans, scopes, files and two later initial states, for TLC | - |

### OrchestratorExecution

*Granularity.* A section of code that holds the parent's row lock from its
`SELECT ... FOR UPDATE` to its commit or rollback is one action. What a handler
reads before it takes the lock is an action of its own, and what it read stays in
the canvas record (`busy`, `todo`, `base`) until the locked part uses it, however
stale. Between an agent's claim (`StepClaims`) and the commit of its result
(`StepSucceeds`, `StepFails`, `StepDiscarded`) anything may happen. The row
lock is PostgreSQL's; on SQLite, the default of `core/config.py`, `FOR UPDATE` is
a no-op and writers exclude each other only at their commits, which is not
modelled.

| Variable | In the code |
|---|---|
| `parent` | the orchestrator's `Task` row: `status`, and of `metadata_json` the plan status, `execution_generation`, whose task ids are recorded, `canvas_id`, `integration_worktree_path`, `code_change_id` |
| `child[s]` | the step's `Task` row: `status`, `execution_generation`, `merge_status`, `celery_task_id` (`claim`), `result_commit_hash` (`commit`), `base_commit_hash` (`base`: the commits it contains), `worktree_path` (`path`) |
| `canvas[d]` | where the canvas published by dispatcher `d` is: its stage, its wave, the steps of the open chord, and what the running handler has read |
| `disp[d]`, `canceller[k]` | a dispatch (of the resume task or of a retry) and a cancel request between their transactions |
| `applied` | step commits the integration branch contains |
| `trees` | registered git worktrees |
| `codeChanges` | how many CodeChange rows of this parent were committed: named by its `code_change_id`, and orphaned |

| Action | Code |
|---|---|
| `DispatchFindsQueued`, `DispatchBuilds`, `DispatchMismatches`, `DispatchPublishes`, `DispatchPublishFails`, `DispatchConfirms` | `dispatch_orchestrator_execution`: first transaction, `apply_async`, second transaction, and the handlers of their failures |
| `CallbackSkipped` | the barriers of prepare, prepare_wave and merge |
| `PrepareReuses`, `PrepareReads`, `PrepareCommits`, `PrepareFails` | `prepare_execution` |
| `WaveReads`, `WaveCommits`, `WaveFails` | `prepare_wave` |
| `StepSkips`, `StepRefused`, `StepClaims`, `StepDiscarded`, `StepSucceeds`, `StepFails` | `execute_step` |
| `MergeRepeated`, `MergeFindsFailure`, `MergeSucceeds`, `MergeConflicts`, `MergeFails` | `merge_wave` |
| `FinalizeReturns`, `FinalizeReads`, `FinalizeCommits`, `FinalizeFails`, `FinalizeCleans`, `FinalizeCleanupFails` | `finalize_execution` and its cleanup after the commit |
| `RetryCommits`, `RetryPersists` | `retry_failed_orchestrator`, `_persist_recovery_failure` |
| `CancelCommits`, `CancelRevokes`, `CancelCleans`, `CancelCleanupFails`, `CancelReports` | `cancel_orchestrator`, `_cleanup_safe_step_worktrees` |

The initial state is that of a confirmed plan whose resume task is about to enter
`dispatch_node`. Steps are numbers; a commit is a pair of a step and the canvas
whose run produced it, which is all that the code's comparisons can tell. A
cherry-pick of a commit the branch already contains is refused by git as empty;
a conflict of contents is a choice, under the fault `"conflict"`. Faults are a
constant set, so that a run says which of them it allows.

Abstracted: what an agent writes, messages and broadcasts, the diff and its
verification (one choice between `FinalizeCommits` and `FinalizeFails`; the latter may
come after the flush of the CodeChange, whose row its exception handler commits), the
agent's own repair attempts (one choice between `StepSucceeds` and `StepFails`).
In `execute_step` the branch `parent.status == CANCELLED` under the final lock
cannot be reached without a change of the generation, because cancel advances it;
its guard is kept.

### OrchestratorRecovery

Extends the core by *losses* (`PrepareLost`, `StepLost`, `MergeLost`,
`FinalizeLost`, `RetryLost`): a worker vanishes at any point of a handler, and its
message is delivered again (`task_acks_late`, `task_reject_on_worker_lost` in
`workers/celery_app.py`) or, at the hard time limit, is gone. `MergeLost` matters
most: `merge_wave` commits its rows once, after the last cherry-pick, so a loss at
step `k` leaves picks no row tells of. Reconcile and cleanup read the rows without
a lock (`ReconcileReads`, `CleanupReads`) and act later on that snapshot
(`ReconcileRepairs`, `CleanupRemoves`). Reconcile also assigns `metadata_json`,
the text it has read, and SQLAlchemy writes no column whose value did not change:
the parent's row stays as it is. Whether a picked commit counts as an ancestor of the
branch is a choice: a cherry-pick makes a new commit unless parent and second
happen to reproduce it. `cleaner[x].took` is a history of the model: the directories that
a cleanup removed although a retry had begun since its read (`Overtaken`).

### PlanApproval

One orchestrator task before the core: `create_message` publishes the run message,
`run_orchestrator_task` enters the graph, which plans and interrupts for approval,
`confirm_task_plan` publishes a resume message, and `resume_orchestrator_task`
enters the graph where the thread stands and dispatches. The execution is one
action, `ExecutionEnds`, and a cancellation from the dispatch on is one,
`CancelExecution`: both are the core's in detail.

| Variable | In the code |
|---|---|
| `row` | the task's row: `status`, `celery_task_id`, and of `metadata_json` the plan status, the plan and the generation (0: none) |
| `child[k]` | whether the child of step key `k` exists, and was cancelled |
| `thread` | the checkpoint of the LangGraph thread: the node it stopped at and `execution_dispatched` |
| `worker[m]` | how far the handler of Celery message `m` is; `saw` and `node` are the statuses that its session and that of `plan_node` have loaded |
| `api` | the request in progress, and the row it has read |
| `revoked`, `canvases` | Celery's revocations and published canvases |
| `approved` | the plans a user has confirmed (a history of the model) |

The API is one uvicorn process (the repository's README starts no more), and its
handlers are coroutines that use the database without awaiting: from its first
read to its last commit a request excludes the others, but not the workers, who
write between its read, its commit and its publication. `create_message` awaits a
broadcast between the commit and the publication, so that a cancellation may come
first. SQLAlchemy writes an assigned column only if it differs from the loaded
value, and sessions keep what they loaded (`expire_on_commit=False` in
`db/session.py`); `Written` says so, and it matters: the planner's and the
resume's last writes depend on the status their session read at the start.

| Action | Code |
|---|---|
| `MessagePublishes`, `MessagePublishFails` | the end of `create_message` |
| `ConfirmReads`, `ConfirmCommits`, `ConfirmPublishes`, `ConfirmPublishFails` | `confirm_task_plan`, `confirm_orchestrator_plan` |
| `CancelRevokes`, `CancelCommits`, `CancelExecution` | `cancel_task` before and after `is_orchestrator_task` holds |
| `Starts`, `Enters`, `Returns`, `Fails` | `run_orchestrator_task`, `resume_orchestrator_task`, the adapter's `run`, `resume` and `_to_run_result` |
| `Thinks`, `CreatesChild`, `RecordsPlan` | `plan_node`, `create_subtask`; `approval_node` interrupts |
| `DispatchRepeats`, `Dispatches`, `Checkpoints` | `dispatch_node`, `dispatch_orchestrator_execution` in one step |
| `Killed`, `Lost` | a revocation with `terminate=True` that reaches its worker; redelivery |

The read and the commit of RUNNING at a handler's start are one action, and so are
the planner's commit and the interrupt that follows. `reject_plan_node` is left
out: no request resumes with anything but `{"approved": True}`. A dispatch that the
broker refuses is the core's.

### CodeChanges

The task rows, the one clone of a repository that all its tasks and requests work
in, the CodeChange rows and GitHub. A commit is a number, in the order in which
commits are made; the working tree is dirty or clean, and `edits` of a change says
which it was when the change was captured. `Checkouts` and `MayRefuse` are what git
does with uncommitted edits: it takes them along, or refuses.

| Variable | In the code |
|---|---|
| `task`, `change` | `Task` rows with the change that a revision answers; `CodeChange` rows |
| `run[t]` | the Celery message of task `t` and how far its worker is; `"stuck"`: no message was published |
| `repo` | HEAD, the tip of each branch, the newest commit, whether there are uncommitted edits |
| `api` | the request that holds the API's event loop, between its steps |
| `waiting`, `asked` | requests that await: a message between the count and its task, a user's change between its branch and its capture |
| `remote`, `pulls`, `previews` | pushed branches, open pull requests, local deployments |

| Action | Code |
|---|---|
| `MessageCounts`, `MessageCreates`, `RetryTask`, `Revise` | `create_message`, `create_retry_task`, `create_revision_task`, with the capacity check |
| `CancelRevokes`, `CancelCommits` | `cancel_task` |
| `Start`, `Prepare`, `Write`, `Finish`, `Return`, `Fail` | `run_agent_task`, `prepare_branch` |
| `RevisionBranches`, `RevisionCaptures`, `RevisionGivesUp` | `maybe_generate_revision_code_change` |
| `UserBranches`, `UserCaptures` | `generate_code_change` for a user |
| `Accept`, `Reject` | the review |
| `PullOpens`, `PullCommits`, `PullPushes`, `PullAnswered`, `PullMarks` | `create_pull_request_from_code_change` |
| `Deploy`, `BuildFails` | `create_local_deployment` |
| `Lost`, `Crash` | redelivery or the hard limit; the API process dies |

A handler of the API is interrupted by another one only where it awaits: a pull
request awaits nothing, although it runs git and calls GitHub, so the API serves
nobody meanwhile; `generate_code_change` awaits after its checkout, and
`create_message` after the count. Workers interrupt all of them. A push has three
outcomes: git fails and the request with it; GitHub refuses it, which
`push_branch` does not notice, since it calls `origin.push` without `raise_if_error`;
or the branch's tip is on GitHub (`Pushed`). GitHub uses an open pull request again, and
answers a new one without commits between its branches with an error (`MayOpen`).

### Workspaces, AgentTools, CodeIndex, AgentRuns

`tree[p][f]` is the content of file `f` in directory `p`: absent, as committed, or the
edit of a run. An agent (`run[r]`) is asked, answers with some calls or with its result,
and each call picks a tool that its profile grants (`Granted`), a way to it (`Remote`)
and an outcome: it succeeds and reports its files, it fails, its answer is lost
(`CallGarbled`), or the MCP server goes on after the client has given up
(`CallOutlived`, `ServerEdits`). Discovery adds tools to a process (`Accepted`,
`Listed`) by their names: a denied one never, a dangerous one if the allow list has it,
and then without the risk that asks for a confirmation. What a discovered tool does is
the server's: it may write, rename or delete any file of the clone and need not report
it (`RemoteOutcomes`). Commands run in the worker only, may be killed for their time,
and may leave `communicate()` waiting, an agent's (`CommandHangs`) and a verification's
(`CheckHangs`). The legacy markers of an answer are applied stage by stage and not
undone. An agent without a model is `MockRuns`.

A task's run ends with `TaskEnds`, which publishes the files it reports to the index. A
step's run is followed by its verification: `Selected` are the commands that apply to
what git says was changed in the step's worktree (what the agent reported, or edited in
the clone, is dropped by `VerifyStarts` as by the code), `CheckRuns` runs one,
`VerifyEnds` decides: done, another attempt, failed. `SoftLimit` is an exception that a
tool or a check takes for its own failure, `HardLimit` ends the process.

An index job reads its files, compares them with the rows, and writes after the
embeddings have come; Celery tries a failed one again. A file of two jobs that were at
work together is in `raced`, which only `IndexAgrees` reads; `owner` and `edited` (the
files a task edited with its own tools or markers) are history of the same kind.

### Plan validation, waves, scopes, lock

`PlanValidation` unrolls the recursion of `visit` into a stack; the order in which a
step's dependencies are visited is left open. `Planning` runs it on the plans whose
scopes `normalize_write_scope` accepts, and hands what it accepts to the wave builder
together with the overlaps of the plan's own scopes. `ExecutionWaves` is the two loops
of `build_execution_waves`, one action per round of the inner one, over an arbitrary
graph and an arbitrary symmetric overlap relation, for which the theorems are proved.
`WriteScope` models the conversions by what they do: `normalize_write_scope` (leading
`./`, empty and `.` segments, absolute paths and `..` refused), the literal prefix of a
pattern, and `scopes_overlap` over two lists of scopes (the empty one overlaps with
none), against a reference that says which files a scope allows. A list is a set here:
its order and repetitions make no difference. Nothing in the code holds an agent to its
step's scopes; they only decide what runs together. Trimming, back slashes, drive
letters and `.git` are left out. `RepositoryLock` counts time in ticks: the key expires
`TTL` ticks after it was set, and nobody renews it; a body may last `MaxHold` ticks,
more or fewer than the TTL.

## 3. Runs, bounds and fairness

| Run | Instance | Distinct states | What it shows |
|---|---|---|---|
| `execution_chain` | two steps in two waves, the first dispatch, one retry, one cancellation, every fault but a refused publication, fair | 501,993 | the barriers, kept work, complete successes, and that the parent becomes terminal |
| `execution_diamond` | two parallel steps and a third after them, one retry, one cancellation; steps, picks, merges, finalizers and publications fail | 826,385 | bases of later waves, half merged waves, worktrees left behind or taken from a run, the one CodeChange, the refinement of the contract |
| `late_dispatch` | chain, two retries and a cancellation behind it, one retry stalled, one retry and one cancellation to come | 83,277 | two canvases in one generation: one run of each step, merged rows on the branch |
| `recovery_repair` | one step, one retry, one loss, a failing step, reconcile again and again, one cleanup | 850,565 | only a retry that comes between its read and its removal lets a cleanup take a running step's directory; what an undisturbed reconcile leaves |
| `plan_approval` | two plans without a common step, two confirmations, one cancellation, refused messages, one lost resume, fair | 64,524 | only a confirmed plan runs, its children exist, the status agrees with what is going on |
| `planning` | three steps, all 512 graphs, every choice of nine lists of scopes | 1,386,712 | accepted if and only if acyclic, and scheduled in order, at once and apart |
| `repository_lock` | three callers, TTL 3, hold up to 5 ticks, wait 1 tick | 20,048 | late releases, crashes, lost answers |
| `code_changes` | a task that has ended in a clone with or without history and with or without an orchestrator's change; one further task, two changes, two new commits, one fault | 4,012,339 | what is called COMMITTED has its branch and pull request on GitHub, nothing leaves unreviewed, revisions follow rejections, no task stays open |
| `agent_runs` | one task with the full index, or one step; two files, two rounds of up to two calls, two markers, one repair, one fault; three tools offered by discovery; local, hybrid and remote, fair | 373,539 | verification, index, deletions, the end of every run |
| `lost_step` | one step, one loss | - | refutes `SuccessIsComplete`, section 5 |
| `empty_pull_request` | as `code_changes` | - | refutes `PushedHasTheChange`, section 5 |
| `shared_clone` | as `agent_runs` | - | refutes `StepEditsItsWorktree`, section 5 |

*Why these bounds are enough to meet the interesting cases.* Two waves are the least in
which a failed or half merged wave is followed by another, and a wave of two the least
in which a merge stops between two steps; the diamond has both. One retry after the
first dispatch gives two generations of canvases, one cancellation a third; every race
in the code is between an old generation and the current one. Two canvases alive in one
generation need a retry that stalls between its commit and its dispatch while the
execution is cancelled and retried. `late_dispatch` starts behind that history, which is
written out in `MCLateDispatch` (from `Init` it takes four dispatches, too many to
explore); the state satisfies the inductive invariant `ExecutionInv`, as TLC confirms of
all its successors. One loss is enough because a loss leaves the handler where a fresh
delivery finds it; a second one meets the same states. In `recovery_repair` one step and
one retry are what a cleanup needs to take a directory from a run, and what a reconcile
needs to meet every row: pending, running, failed, merged, set back. In `plan_approval`
two plans tell the one that was confirmed from another; a second confirmation finds the
plan confirmed, or reads between the first one's steps. Three steps hold a cycle behind
a visited step, a diamond's shared dependency, and every way in which a dependency and a
scope can both delay a step; the nine lists are a file, a file below it, a name that it
is a prefix of, two patterns, an odd spelling, one that is refused, two scopes of which
either may overlap, and none. (The theorems about search and waves hold for any number.)
In the lock, `MaxHold > TTL` lets a body outlive its key by long enough for another
holder to take it, and to lose it in turn.

`code_changes` starts when the clone's first task has ended (`MCCodeChanges`), with
its edits in the tree: every property is about what two tasks, or a task and the
user, do to the same tree, and a second task is a message's, a retry of the first or
a revision of its change. Two changes are a change and its revision, or two of one
task; two commits are one that is pushed and one that comes after it. In
`agent_runs` two rounds are one that is followed by another and the last one; two
calls are one that is followed by another in its round; two files make a rename, and
one of them is a document, for which there is no check. Of the three tools that discovery
may be offered, all of dangerous names, one is on the allow list (and fares like one of a
harmless name), one on neither list and one on the deny list. `Batches` lets the task run
beside the full index and the step beside nothing: a step does not touch the index,
and what it does to the clone is `shared_clone`'s subject. One fault (a lost answer,
a hanging command, a time limit, a lost worker, a refused message) leaves room for
the code's answer to it.

The execution may stop: a terminal parent whose canvases are done has no
successor, so that deadlock is not checked; that the execution does not stop too
early is `Converges`. The same goes for the lock (callers that are dead), the
algorithms and the agents' runs (they end; `RunsEnd`), and `CodeChanges`, where
nobody has to ask for anything more.

*Fairness.* `FairSpec` assumes weak fairness of every canvas's next callback, of every
member of a chord, of a dispatch in progress and of a cancel request in progress: Celery
delivers a queued message to some worker, a worker that runs a handler finishes it or is
stopped by its time limit (an outcome the fault actions cover), and an HTTP handler or
resume task ends. Weak fairness is enough because a handler that waits for a row lock
stays enabled: lock holders never wait for it. Nobody has to cancel, confirm or retry.
`Converges` is not checked with the fault `"publish"`, and does not hold then (section
5). `PlanApproval` assumes the same of its handlers and of a request that has begun. The
lock's `FairSpec` lets time pass, polls go on and bodies end. `AgentRuns` assumes that a
worker that runs goes on: the model's service and the commands answer or are stopped by
their own time limits (`timeout` of the client, `communicate(timeout=...)`), and where
nothing stops a command (`CommandHangs`, `CheckHangs`) Celery's limits do. Neither the
end of verification nor that of the rounds is assumed: the bounds of both loops are what
`RunsEnd` depends on.

Every property has a mutant, an operator named after a plausible mistake next to
the operator it replaces (`Barred` and `BarredIfStale`, `Reported` and
`ReportedTarget`): with it the run finds the property violated.

The properties, and the mistake in the code each would reveal:

- `SuccessIsComplete`: SUCCESS for a plan with a failed or unfinished step. The
  finalizer looks at no step; it relies on the chain and on the barriers.
- `OneCodeChange`: a plan that comes to name a second CodeChange, SUCCESS without one, or
  more left behind by failed finalizers than one in a generation.
- `OneRunPerGeneration`, `WorktreeKept`: two agents current in one step, or an
  agent whose directory a late cleanup of a cancellation or a finalizer has removed.
- `WorktreeSpared`: the same with losses, reconciles and requested cleanups, but for the one
  race that does take directories (section 5, "cleaned up under a retry"): a cleanup that
  removes more than it may, or a redelivered run without its directory.
- `BaseContainsPredecessors`, `MergedIsApplied`, `ConflictIsReal`: rows and git
  disagree after a failure in the middle, and a later wave starts from the wrong
  commit.
- `WorkIsKept`, `RevivalNeedsRetry`, `OldGenerationIsInert`: what a step of the
  system may never do to finished work, to a terminal parent, and out of an old
  generation.
- `NoWorktreeLeft`: cleanup does all of its work, also when the dispatcher turns a
  SUCCESS into FAILED and a retry back.
- `QuietReconcileAgrees`: a reconcile nothing interferes with leaves a row called merged
  without its commit, or one that it never called merged without its directory. Rows that
  it sets back are excepted: they wait for the next reconcile (section 5, "reopened merge").
- `ApprovedRuns`, `StepsHaveChildren`: a plan runs that was not the confirmed one,
  or is recorded before its children are.
- `AwaitingIsPending`: the unconditional writes of PENDING and RUNNING leave a
  status that contradicts what is going on, once all is quiet.
- `ConfirmedProceeds`: a resume message that does not take the thread on.
- `NoSharedFile`, `OverlapIsReal`: scopes spelled differently let two steps of a wave
  claim a common file, or prefixes of names serialise steps that have nothing in common.
- `CommittedIsPublished`, `NothingUnreviewed`: a failure, a refusal or a crash between
  commit, push, pull request and row, after which a change is COMMITTED and its branch
  not on GitHub or without a pull request (that the branch holds this very change is
  `PushedHasTheChange`, which the code refutes); a way to GitHub or to a preview past
  the review.
- `RevisionFollowsReject`: a chain of revisions broken by a retry or a late review.
- `NothingAbandoned`: an exception in one of the worker's nested handlers after
  which nobody will write the row.
- `IndexAgrees`: an edit of a task that a tool's report leaves out, and so the index never
  hears of (both ends of a rename), or an index that keeps rows of what is gone.
- `DoneIsVerified`: a step that passes on a command that was stopped, on an earlier
  attempt's results or without any check.
- `DeletionIsTrusted`: a way to a tool (an own one, a marker, a remote one under a dangerous
  name) that deletes although nobody was asked and the operator did not allow it; or a
  deletion outside the clone.
- `RunsEnd`: a loop without a bound, a wait without a limit.

## 4. Proofs

The theorems of the execution hold for every plan (any number of steps and waves),
every number of dispatchers and cancellations, and every set of faults, under
`PlanAssumption` and `ActorAssumption`; those about progress add a hypothesis on
retries.

*Type correctness* (`ExecutionSafety_proofs`, `TypeCorrect`): one lemma per
group of handlers, one for the rest of a chain (`SuccessorType`).

*The inductive invariant* (`ExecutionInv` in `ExecutionInvariants`, proved inductive in
`ExecutionSafety_proofs` as `InvInit` and `InvNext`). `OneCodeChange` alone is not
inductive: a finalizer that has read "no CodeChange yet" could be one of two.
`ChangesFit` says that an execution that goes on made its CodeChanges, those that failed
finalizers left included, in earlier generations, and `FinalizerIsRight` that such a
reader is still right unless the barrier under the lock will stop it. That in turn needs
`CanvasLifecycle`: no canvas is ahead of the parent's generation, and none runs before
it is built. `OneRunPerGeneration` follows from `ClaimHeld` (a current run holds its
child's claim, and the child looks RUNNING to everyone who could take it), and
`MergedIsApplied` is inductive together with `CommitIsSuccess`. The lemmas named
`...Moves` summarise what each group of actions may do to a canvas, `...Parent` what it
may do to the parent row; the theorems are proved from the summaries, not from forty
actions each.

*Theorems of the execution*: `OneCodeChangeAlways`, `OneRunPerGenerationAlways`
(also with overlapping dispatches), `MergedIsAppliedAlways`,
`RevivalNeedsRetryAlways`, `OldGenerationIsInertAlways`, and
`ImplementsContractAlways`: the parent's status, generation, branch and CodeChanges
behave as `OrchestratorContract` says. The contract is what a client can
rely on: the branch only grows, the plan names one CodeChange, once it succeeds, and a
failure before that may leave one that nothing names, once in a generation; a SUCCESS may
surprisingly turn into FAILED, because a dispatch can notice too late that its
canvas is over, but nothing else.

*Progress of the execution* (`ExecutionProgress_proofs`). `SuccessIsComplete` and
what follows are false if a retry commits while the dispatch of an earlier retry is
still to begin (section 5, "late dispatch"): two canvases then work in one
generation. The theorems are of `TimelySpec`, the specification whose steps also
satisfy `TimelyRetry`, which excludes that one order and nothing else: retries, any
number of them, cancellations, lost results and late callbacks come as they may.
`OneRetryIsTimely` says that the hypothesis is no restriction when the execution is
retried once: then they are theorems of `Spec`, and these are the instances of
`execution_chain` and `execution_diamond`.

The invariant `ProgressInv` has three parts. `WhoIsInCharge`: at most one canvas or
dispatch is of the parent's generation, and what a cancellation revoked is of an
earlier one; a retry opens its generation only after the cancellation or failure
that ended the last. `CanvasFits`: the rows follow the canvas in charge; a step
of its generation is PENDING ahead of it, RUNNING while it is at work, SUCCESS or
FAILED when it has returned, and everything behind it is finished. `RowFits`: what a
retry did not take along was finished before. `SuccessIsCompleteAlways` is then what
the finalizer finds behind it, and `WorkIsKeptAlways` looks at each way a row is
written. `GitInv` adds what git holds. `WaveIsRead`: what `prepare_wave` has read
without the lock (members, base commit) is still so when it writes, unless a
barrier stops it. `StepsAreReady`: a step that is queued or at work has its
directory and a base with its predecessors' commits. `CommitIsKnown`,
`BranchIsKnown` and `BranchIsFolded`: commits on the branch are those the rows name,
and while nothing has failed the branch has only what is folded in. With it,
`BaseContainsPredecessorsAlways`, `WorktreeKeptAlways` and `ConflictIsRealAlways`.
`NoWorktreeLeftAlways` needs a finalizer whose cleanup does not fail
(`"cleanup" \notin Faults`), and `SuccessHasPath`, by which the cleanup finds every
directory. TLC checked both invariants on the instances of the two runs and, under
`Init /\ [][Next /\ TimelyRetry]_vars`, on one step with two retries, one
cancellation and failing steps and merges (599,024 states); without `TimelyRetry`
it refutes `ProgressInv` there.

*Plan approval* (`PlanApproval_proofs`), for any plans and any number of requests
and losses, under `ApprovalAssumption`. `TypeCorrect` needs `ThreadReady`: whoever
confirms or resumes finds a recorded plan and a thread that has begun, or the
resume would enter a node the graph does not have. `ApprovedRunsAlways` holds if
the run message is not delivered twice (`Run \notin Losable`), and section 5 shows
why it must say so. Its invariant, `ApprovalInv`, adds that nobody plans once a
plan is recorded (`PlannedOnce`) and that the plan in the row is the one that every
confirmation in progress has read and every resume message stands for
(`ConfirmedIsRecorded`).
`StepsHaveChildrenAlways` needs no such hypothesis: the children's transaction makes
those of the plan it has just read, and a plan replaced by a second planner gets
its own before anybody can run it (`ChildrenInv`). `AwaitingIsPendingAlways` needs
it again. Its invariant, `AwaitingInv`, says who may still write a status while the
plan awaits its confirmation, and that what he has read makes him write PENDING.

*Code changes* (`CodeChanges_proofs`), for any number of tasks, changes, workers,
waiting handlers and losses, under `CodeChangesAssumption`. The invariant `Inv` adds
five facts to the properties. `Handler`: the change that a pull request's handler works
on is still ACCEPTED, because the handler has the event loop to itself and workers only
add rows; and after GitHub's answer its pull request is open. The push proves nothing,
since a refused one goes on. `Opened`: a branch with a pull request is ahead of the
default branch on GitHub, because GitHub opened none otherwise and takes nothing back.
`Sources` and `Chain`: what a task or a revision answers exists, was rejected and has a
smaller number, which also bounds the numbers of a chain of revisions, and so the types.
`Closed`: a run that has written its result has closed its task, whatever cancellation
wrote since. `Grows` and `HubGrows` say what any step may do to the rows and to GitHub
(statuses only move forward, tasks, parents and numbers never change, nothing is
unpublished), `RunsMove` what it may do to a run and its task; the parts follow from
these summaries: `TypeCorrect`, `CommittedIsPublishedAlways`, `NothingUnreviewedAlways`,
`RevisionFollowsRejectAlways`, `NothingAbandonedAlways`.

*Agents' runs* (`AgentRuns_proofs`), for any number of runs, steps, files, commands,
rounds, jobs and retries, every profile, and faults of every kind, under
`WorkspacesAssumption`, `AgentToolsAssumption` and `CodeIndexAssumption`. The types of
whole records (`Run`, `Job`) say more than `TypeOK`; `Counted` says when rounds begin at
0 again, without which the counters have no bound. `NothingUnreported`: on each way to a
tool of the workspace what a task has edited is noted with the call. For
`DoneIsVerifiedAlways` the results at hand must be those of the verification in progress
(`Fresh`). `IndexAgreesAlways` relates three copies of a file, in the clone, in a job's
drafts and in the index: a job starts from what its task reported (`JobOfTask`), its
drafts are what the clone holds unless the file has another editor or another job at
work (`DraftsAgree`), and what it decides to leave alone is right until another one
writes (`ComparedAgrees`); with `NothingUnreported` that is so of all that the task
edited, not only of what it reported. `DeletionIsTrustedAlways` looks at each way an
edit can change a directory, and needs of the types that a process has only routes to
accepted tools and that calls in flight are of editing tools that were granted. The
proof of `DoneIsVerified` corrected the model: a soft limit does not reach a step that
changed documents only, for which `VerificationService` returns before it starts a
command.

*Recovery* (`OrchestratorRecovery_proofs`), of `RecoverySpec`: any plan, any number of
dispatchers, cancellations, reconciles and cleanups, any number of losses, every
fault. `RecoverySteps` splits a step into one of the core's, for which its lemmas are
used again, and `Interferes`: a loss, the writes of a reconcile, the removals of a
cleanup. `Ebbs` says what such a step may do to a canvas (take it back to where it
began, end it, or end the run of a step), `InterferesFields` to the rows.
`RecoveryInv` is what survives all of them, with no hypothesis: the types,
`CanvasLifecycle`, `OneCodeChange` with `FinalizerIsRight` (a finalizer delivered
again reads anew whether there is a CodeChange), `ClaimHeld` and `CommitIsSuccess`.
From it follow `RecoveryOneCodeChange`, `RecoveryOneRun`, `RecoveryRevival`,
`RecoveryInert` and `QuietReconcileAgreesAlways`.

The other properties of the core do not survive as they are, and the hypotheses say
what each depends on:

- `RecoveryMergedIsApplied` needs `FreshRepair` and `GentleCleanup`. A reconcile
  writes the merge status that it computed from rows it read without a lock; if a
  retry has replaced a commit meanwhile, the row says "merged" of a commit the
  branch does not have. `GentleCleanup` excludes divergence 6. A reconcile that
  finds a lost merge's commits on the branch and marks them is covered.
- `RecoveryImplementsContract` needs `GentleCleanup` only: the contract promises that
  the branch never loses a commit.
- `RecoveryWorktreeSpared` needs `Timely`: the core's `TimelyRetry`, and no dispatch
  reported as failed although its canvas is at work (`EarlyFailure`). It says of every
  loss, reconcile, retry and cleanup that only a cleanup which a retry has overtaken
  takes a directory. `RecoveryWorktreeKept` follows where that does not happen
  (`TimelyCleanup`; divergence 18 is what happens otherwise). Its invariant, `TreeInv`,
  cannot say what `ProgressInv` says, since a lost step leaves RUNNING behind it for
  good. It keeps what directories depend on: current runs are members of the wave in
  progress (`AtWorkInWave`); steps ahead of the canvas are PENDING (`ComingIsPending`),
  so that no merge, finalizer or cleanup has them among what it removes; what
  `prepare_wave` read before its lock is complete (`WaveHasAll`); nothing is left to run
  after SUCCESS, nor after any other end (`SuccessIsPast`, `TerminalIsQuiet`); and a
  step that may begin has its directory (`HasTree`). With the integration worktree,
  which a lost `prepare_execution` leaves unrecorded, goes `Prepared`.

TLC checks `TreeInv` and `WorktreeSpared` under `RecoveryInit /\ [][RecoveryNext /\
Timely]_allVars` on one step with a retry, a cancellation and a loss (36,963 states), one
step with a retry, a cleanup, a loss and failing publications (118,690), and two steps in
two waves with a cancellation, a reconcile and two losses (653,541).

*Planning* (`Planning_proofs`). `SearchInv` (the stack is a path, visited steps reach no
cycle) gives `SearchCorrect`, `AcceptedIsAcyclicAlways` and `RejectedIsCyclicAlways`. A
cycle is taken as a set of steps that each wait for one of the set, which needs no
induction over paths. `WavesCorrect` is about the wave builder on any graph, cyclic or
not, and any overlap relation; `PlanningCorrect` composes both from the raw answer to
the waves, and `DependenciesFirstAlways`, `ScheduledOnceAlways` and
`NoNeedlessDelayAlways` follow. `NoSharedFileAlways` and `OverlapIsRealAlways` are about
the scopes: any lists of them, of any length, over any characters, with any wildcards,
under `FileAssumption` (files are as deep as scopes are long, and what a scope spells
without a wildcard may be a file's name). Prefixes and normalised paths are recursive
functions; instead of an induction over their length, the proofs take the least place at
which a claim would fail, which is one step after a place at which it holds.
`AcceptedIsSchedulable` says that the builder never gives up on a plan that the
validator accepted, and `BuiltIsExecutable` that what it builds satisfies the
`PlanAssumption` under which the theorems of the execution hold.

*Lock* (`RepositoryLock_proofs`). `KeyAge` (a key and its owner are of the same age)
gives `FreshHolderOwnsKeyAlways`, and `OnlyOverstayersOverlap`: the lock does not
exclude (its bodies may outlive the TTL of 120 s), but of two callers inside at once one
has held it for the TTL or longer.

*Model-checked only.* `Converges`, `LockRecovers`, `ConfirmedProceeds` and `RunsEnd`
are liveness properties under fairness, beyond what the prover handles. Every safety
property that a passing run checks has a theorem; `SuccessIsComplete` has none under
losses, where `lost_step` refutes it, and `WorkIsKept` none under reconcile, which
takes healthy merges back (divergence 4).

## 5. Known divergences

Where the code does not do what its documentation, or a reader, expects of it. The
first three are runs; TLC finds each of 4 to 19 when the named property is added to
the named configuration (without the others, and under `Spec` if it is an
invariant). Line numbers without a file are of `docs/orchestrator-celery-worktree.md`.

1. *Lost step* (run `lost_step`). Line 51: a lost worker must persist a failure. A
   step whose worker is lost is delivered again, finds its own claim and returns
   "skipped" with the row still RUNNING; `merge_wave` looks for FAILED rows only,
   marks the step "skipped", and the finalizer reports SUCCESS.
2. *Empty pull request* (run `empty_pull_request`). `README.md:339`: accepting and
   publishing a change commits and pushes it. `services/repo_service.py:204` asks
   whether the branch is at the change's `commit_hash`, which for a task's change is
   the commit it was captured on, and for an orchestrator's the commit that holds
   it. The first case is the usual one: nothing is committed, and a branch without
   the change is pushed. (If that leaves the branch without commits of its own, GitHub
   answers the pull request with 422, the request fails, and the change stays ACCEPTED
   however often it is tried again.)
3. *Shared clone* (run `shared_clone`). Line 36: every step runs in its own
   directory. `execute_step` passes the worktree and the repository's identity;
   the tools prefer the identity (`agents/tool_calling.py:360`) and edit the clone. The
   step's report lists what git finds in the worktree
   (`services/orchestrator_execution_service.py:459`), and so none of these edits.
4. *Reopened merge* (`WorkIsKept` in `RecoveryRepair.cfg`). Line 50: what was merged
   stays so. Reconcile asks whether the step's commit is an ancestor of the
   integration branch; after a cherry-pick it is not, and a healthy "merged" row is
   set back to "ready", so that a retry runs the step again.
5. *Spurious conflict* (`ConflictIsReal` in `LostStep.cfg`). Line 47: repeated
   merges are harmless. A merge lost between its cherry-picks and its commit picks
   a commit again on redelivery, and git's refusal is recorded as a conflict.
6. *Integration removed* (`IntegrationIsKept` in `RecoveryRepair.cfg`). Line 42: the
   branch serves review and pull request. A forced cleanup that read "no CodeChange"
   removes it under the retry that generates one.
7. *Shared worktree* (`ExclusiveWorktree` in `ExecutionChain.cfg`). Line 36: parallel
   agents never share a workspace. A run that a revocation did not reach works on
   in the directory the retry's run of the step resets and uses.
8. *Unconverged* (`Converges` in `ExecutionChain.cfg`, with a second retry). Line 7:
   the finalizer takes the parent to a terminal status. A short canvas finishes
   before its dispatcher's second transaction, which then reports the dispatch as
   failed; the SUCCESS becomes FAILED with its `code_change_id`, and the next
   retry's finalizer returns without a status.
9. *Late dispatch* (`SuccessIsComplete` in `LateDispatch.cfg`). Line 42: the
   finalizer runs when all waves are done. `dispatch_orchestrator_execution` takes
   the generation it finds, not the one its retry opened. Of two canvases in one
   generation, one folds the step the other is running in as "skipped", or runs a
   step that had nothing to commit again after SUCCESS.
10. *Never redispatched* (`Converges` in `LostStep.cfg`, under `RecoveryFairSpec` with
    one reconciler). Line 50: recovery delivers missing work again. Nothing does
    when the message is gone.
11. *Lock lost* (`MutualExclusion` in `RepositoryLock.cfg`). Line 36: git metadata
    operations are locked. The key expires after 120 s and is not renewed; git
    commands have no timeout.
12. *Planned again* (`ApprovedRuns` in `PlanApproval.cfg`, with the run message in
    `Losable`). `docs/agent-security-model.md:54`: a repeated delivery does not get
    past the confirmation. A worker lost after the planner's commit has its message
    delivered again; `run_orchestrator_task` plans again and replaces a plan that
    the user has confirmed meanwhile. The resume that follows dispatches the new one.
13. *Back to life* (`TerminalStays` in `PlanApproval.cfg`). Line 49: a cancelled task
    is not revived. Both orchestrator workers set RUNNING without looking at the
    status, so that a message whose revocation missed its worker revives a cancelled
    task; a resume delivered again, or the planner's late PENDING, overwrites the
    SUCCESS of an execution.
14. *Nobody runs it* (`RunningIsRun` without its premises). A worker killed by a
    revocation after the cancellation's commit and its own write of RUNNING leaves
    RUNNING for ever.
15. *Confirmed and forgotten* (`ConfirmedProceeds` without its last disjunct). The
    broker refuses the resume message after the confirmation's commit; the plan
    cannot be confirmed again.
16. *Late result* (in `CodeChanges.cfg`, that no step takes a task out of CANCELLED).
    `run_agent_task` writes RUNNING, SUCCESS and FAILED over whatever the row has; a
    cancellation whose revocation came too late is undone, and a revision goes on
    to its change.
17. *Capacity* (in `CodeChanges.cfg`, that no more than `Capacity` tasks are active).
    `create_message` awaits between the count and the task: two requests of one user
    both find room.
18. *Cleaned up under a retry* (`WorktreeKept` in `RecoveryRepair.cfg`). Line 42: step
    worktrees are removed once the orchestrator is over. `cleanup_terminal_orchestrator`
    reads that it is over, then waits for the repository's lock; a retry that comes
    between gets its steps' directories removed while agents are at work in them.
19. *Orphan CodeChange* (`OneCodeChangeEver` in `ExecutionChain.cfg`). Lines 42 and 47: the
    finalizer generates the only CodeChange, however often it runs.
    `generate_code_change(auto_commit=False)` adds and flushes the row
    (`services/repo_service.py:171`); an exception between that and the commit, such as
    the soft time limit, is handled in the same session, whose commit of FAILED commits the
    row as well (`services/orchestrator_execution_service.py:857`). No `code_change_id`
    names it, and a retry generates another one.

What the models of single agents also showed, each of them behaviour of the models
that a property makes an exception for:

- A message that the broker refuses, or an API process that dies before it, leaves a
  PENDING task that counts against the user's capacity for good; a cancellation
  that dies between the revocation and its commit leaves RUNNING (`NothingAbandoned`).
- A soft time limit that falls into a tool or a check is taken for its failure, and
  the run goes on to the hard limit, at which nothing is written (line 51). The
  handler for a soft limit in a revision's change (`workers/agent_tasks.py:64`)
  uses a name that is not defined there, so that the outer one writes FAILED over
  SUCCESS.
- A push that GitHub refuses raises nothing (`services/workspace_service.py:353`): if the
  branch has an open pull request of an earlier push, the change is called COMMITTED
  although its commit is not on GitHub. `CommittedIsPublished` is about the branch only.
- A tool that the operator allowed by a dangerous name deletes without a confirmation, as
  does one whose harmless name hides what it does; neither need report it, and then the
  index keeps the rows (`IndexAgrees` is about a task's own tools).
- Tasks of a repository share one tree: a change captured while, or after, another
  task has edited it holds the other's edits, a preview copies whatever the tree
  holds, a pull request's checkout is refused or takes edits along, and
  `prepare_branch` throws away what another task is at. `workspace.get_changed_files`
  reports all of it as the caller's.
- A message delivered again after its change was captured makes a second change.
- In an empty repository a retried pull request has nothing to commit: the first
  attempt's commit has taken the edits.
- When the rounds are exhausted, or a legacy marker cannot be applied, the run is an
  exception: its edits stay in the tree and nothing of them is reported or indexed
  (`IndexAgrees` looks at runs that are done). Edits of calls that failed are not
  reported either.
- Two index jobs that have a file in common may leave the older content, and
  `prepare_branch` resets files that the index goes on describing (`raced`, `owner`).
- The Qwen adapter passes neither `dependency_results` nor `verification_failure` to
  its model: a repair attempt is not told what failed (`agents/qwen_adapter.py`).

## 6. What is not modelled

Of the modelled components: SQLite's locking; a generic database failure in the
first transaction of a dispatch; cancelling a single child through the task API;
a review of the CodeChange between cleanup's read and removal; a crash between
the publication of a chain's next message and the acknowledgement of the current
one, which would duplicate the rest of the chain. `PlanApproval` and the core
are not composed: the core's RUNNING stands for the PENDING that a planner may
write late, too, and its resume message is neither delivered again nor followed
by `resume_orchestrator_task`'s second write of RUNNING
(`workers/agent_tasks.py:364`, which writes only if the status it read was
another). Broadcasts do not fail. An
exception of `prepare_execution` or `prepare_wave` commits, with FAILED, the children it
has changed by then; here it changes none or all. `prepare_wave`'s `base_commit_hash` always
reaches the row, although SQLAlchemy would skip a value equal to a stale one.
Reconcile's git work is one action with its commit, since it holds no lock that
others wait for and its reads are what is stale. Row locks are taken in one
action, so that deadlocks between transactions that lock parent and child in
opposite orders are out of the model (planned).

`CodeChanges` knows that a tree has edits, not which: that is `AgentRuns`' part, and the
two are not composed. Requests to GitHub succeed or fail, and the state of a pull
request after its creation is not followed; the default branch on GitHub does not move.
Several API processes, which would let reviews interleave, are left out, since the
repository starts one. In `AgentRuns` the server of MCP works on the same clone, a
discovered tool has an effect but no arguments, a command edits nothing, although a
build may; the second index message of a revision (`workers/agent_tasks.py:59`) is not
sent, since it names files that the first one named; file names are as the model wrote
them, while `validate_path` strips them; a file's chunks are one value, which leaves out
that the Python chunker drops code outside functions and classes; the agents' tools that
only read, and semantic search among them, are one tool.

Of the other components: audit of tool calls, the ranking of search results,
embeddings, prompts and the language models are input, output or text. Context
assembly is a function of texts under a budget (which its mandatory blocks may
exceed), realtime events are best effort and nothing waits for them, and rate
limiting is a deque: all three are planned as small modules. Authentication, the
configuration and the declarations of models have no behaviour of their own.

## 7. Plan

Done, in this order: the core and its contract; its proofs; recovery; the scheduling
algorithms, their proofs; the lock; the plan's approval and its proofs; planning from
scopes to waves; code changes and their proofs; agents' runs, tools and index, and their
proofs; the progress of the execution and its proofs; what losses, reconciles and
cleanups leave of both, and the proofs. Next, most important first:

1. `BaseContainsPredecessors` and the others under overlapping dispatches: what of
   them is left without `TimelyRetry`.
2. `RowLocks`: the order in which transactions of the core lock parent and
   children; deadlock, its abort by the database, and what the aborted handler
   leaves.
3. `CodeChanges` over `Workspaces`: which edits a change holds, as the composition of
   the two; a task's status as its user sees it, as an abstract specification.
4. `EventFanout`: WebSocket connections during a broadcast. `RateLimit`,
   `ContextBudget`: small algorithms with boundary hazards, with theorems.

----------------------------- MODULE CodeChanges -----------------------------
(***************************************************************************)
(* The life of a code change: single-agent tasks that workers run in the   *)
(* one working tree of their repository, the changes captured from it,     *)
(* their review, revision, pull request and preview.                       *)
(*                                                                         *)
(* The API is one process with one event loop: a handler is interrupted by *)
(* another waiting only where it awaits, by a worker's git command or      *)
(* commit anywhere.  Git commands are single steps.  Commits are numbered  *)
(* in the order they are made; an uncommitted tree is dirty or clean.      *)
(***************************************************************************)
EXTENDS Naturals, Sequences, FiniteSets

CONSTANTS
    MaxTasks,      \* bound on the tasks created
    MaxChanges,    \* bound on the CodeChange rows
    MaxLosses,     \* bound on lost workers, API crashes, pushes and GitHub calls that fail
    MaxWaiting,    \* bound on the handlers that await, of either kind
    Capacity,      \* max_concurrent_tasks_per_user
    MaxCommits,    \* bound on the commits of the clone
    Workers        \* Celery worker processes

ASSUME CodeChangesAssumption ==
    /\ {MaxTasks, MaxChanges, MaxWaiting, Capacity, Workers} \subseteq Nat \ {0}
    /\ MaxCommits \in Nat \ {0, 1}
    /\ MaxLosses \in Nat

Tasks == 1..MaxTasks
Main == 0                   \* Repository.default_branch
Plan == MaxTasks + 1        \* an orchestrator's task and its integration branch
Owners == Tasks \cup {Plan}
Branches == {Main} \cup Owners           \* agent-task-<id> for a task
NoCommit == 0               \* an empty repository's placeholder hash
Commits == NoCommit..MaxCommits

VARIABLES
    task,        \* Task rows; status "none" before the row exists
    run,         \* by task: where its Celery message and its worker are
    repo,        \* the shared clone: HEAD, branch tips, newest commit, uncommitted edits
    change,      \* CodeChange rows
    asked,       \* tasks for which a user's generate request has its branch
    waiting,     \* create_message handlers between the count and the task
    api,         \* the handler that occupies the API's event loop
    remote,      \* by branch: its commit on GitHub
    pulls,       \* branches with an open pull request on GitHub
    previews,    \* branches whose tree a local deployment shows
    losses

vars == <<task, run, repo, change, asked, waiting, api, remote, pulls, previews,
          losses>>
rows == <<task, change>>
hub == <<remote, pulls>>

Active == {"PENDING", "RUNNING"}
InWorker == {"started", "ready", "finished", "branched"}
NoTask == [status |-> "none", source |-> 0]
Free == [pc |-> "idle", on |-> 0, hash |-> NoCommit]

\* base: the commit a change was captured on; edits: whether its diff has any.
Change == [task : Owners, base : Commits, commit : Commits, edits : BOOLEAN,
           status : {"GENERATED", "ACCEPTED", "REJECTED", "COMMITTED"},
           parent : 0..MaxChanges, index : 1..MaxChanges]

\* Rows, runs, the clone and GitHub keep their types.
TypeOK ==
    /\ task \in [Tasks -> [status : Active \cup {"none", "SUCCESS", "FAILED",
                                                 "CANCELLED"},
                           source : 0..MaxChanges]]
    /\ run \in [Tasks -> InWorker \cup {"none", "stuck", "queued",
                                        "ended", "killed"}]
    /\ repo \in [head : Branches, tip : [Branches -> Commits],
                 last : Commits, dirty : BOOLEAN]
    /\ change \in Seq(Change) /\ Len(change) <= MaxChanges
    /\ asked \subseteq Tasks
    /\ waiting \in 0..MaxWaiting
    /\ api \in [pc : {"idle", "cancel", "commit", "push", "github", "mark"},
                on : 0..(MaxTasks + MaxChanges), hash : Commits]
    /\ remote \in [Branches -> Commits]
    /\ pulls \subseteq Branches
    /\ previews \subseteq Owners
    /\ losses \in 0..MaxLosses

\* A clone has history (one commit), or is still empty.  finalize_execution may
\* have made its change already (worktree mode), with its commit on its branch.
Cloned(main, planned, at, dirty) ==
    /\ planned => main # NoCommit
    /\ repo = [head |-> at, dirty |-> dirty,
               last |-> IF planned THEN main + 1 ELSE main,
               tip |-> [b \in Branches |->
                          CASE b \in {Main, at} -> main
                            [] b = Plan /\ planned -> main + 1
                            [] OTHER -> NoCommit]]
    /\ change = IF ~planned THEN <<>>
                ELSE <<[task |-> Plan, base |-> main, commit |-> main + 1,
                        edits |-> TRUE, status |-> "GENERATED", parent |-> 0,
                        index |-> 1]>>

\* GitHub has the default branch that was cloned.
NothingPublished ==
    /\ asked = {} /\ waiting = 0 /\ api = Free
    /\ remote = [b \in Branches |-> IF b = Main THEN repo.tip[Main] ELSE NoCommit]
    /\ pulls = {} /\ previews = {}
    /\ losses = 0

Init ==
    /\ \E main \in {NoCommit, 1}, planned \in BOOLEAN : Cloned(main, planned, Main, FALSE)
    /\ task = [t \in Tasks |-> NoTask]
    /\ run = [t \in Tasks |-> "none"]
    /\ NothingPublished

-----------------------------------------------------------------------------
(***************************************************************************)
(* The shared clone                                                        *)
(***************************************************************************)
HeadCommit == repo.tip[repo.head]

\* git checkout -B: the branch is made at HEAD, uncommitted edits stay.
Rebranched(r, b) == [r EXCEPT !.head = b, !.tip[b] = r.tip[r.head]]

\* git checkout carries uncommitted edits along, or refuses to.
Checkouts(r, b) == IF r.tip[b] = NoCommit THEN {} ELSE {[r EXCEPT !.head = b]}
MayRefuse(r, b) == r.tip[b] \notin {r.tip[r.head]} \ {NoCommit}

\* git add -A and commit, on whatever branch HEAD is.
Committed == [repo EXCEPT !.tip[repo.head] = repo.last + 1, !.last = @ + 1,
                          !.dirty = FALSE]

\* What generate_code_change captures of the shared tree, and its row.  A retry
\* of a revision has the revision's source.
Captured(t) ==
    LET source == task[t].source IN
    [task |-> t, base |-> HeadCommit, commit |-> HeadCommit, edits |-> repo.dirty,
     status |-> "GENERATED", parent |-> source,
     index |-> IF source = 0 THEN 1 ELSE change[source].index + 1]

-----------------------------------------------------------------------------
(***************************************************************************)
(* Tasks: messages, retries and revisions                                  *)
(***************************************************************************)
Idle == api.pc = "idle"
Existing == {t \in Tasks : task[t].status # "none"}
HasCapacity ==
    Cardinality({t \in Existing : task[t].status \in Active}) < Capacity

\* A new row, in the order of the ids, and its message, unless the broker refuses
\* it or the process dies between the two commits.
Creates(source) ==
    \E t \in Tasks \ Existing :
        /\ \A u \in Tasks : u < t => u \in Existing
        /\ task' = [task EXCEPT ![t] = [status |-> "PENDING", source |-> source]]
        /\ \E sent \in {"queued", "stuck"} : run' = [run EXCEPT ![t] = sent]

\* create_message awaits the event of the message between the count and the task.
MessageCounts ==
    /\ Idle /\ waiting < MaxWaiting /\ HasCapacity
    /\ waiting' = waiting + 1
    /\ UNCHANGED <<rows, run, repo, asked, api, hub, previews, losses>>

\* Mutant: the task is created again, without its message.
MessageCreatesAgain ==
    /\ Idle /\ Creates(0)
    /\ waiting' = waiting - 1
    /\ UNCHANGED <<repo, change, asked, api, hub, previews, losses>>
MessageCreates ==
    /\ Idle /\ waiting > 0
    /\ Creates(0)
    /\ waiting' = waiting - 1
    /\ UNCHANGED <<repo, change, asked, api, hub, previews, losses>>

RetryTask(t) ==
    /\ Idle /\ HasCapacity /\ task[t].status = "FAILED"
    /\ Creates(task[t].source)
    /\ UNCHANGED <<repo, change, asked, waiting, api, hub, previews, losses>>

Revise(c) ==
    /\ Idle /\ HasCapacity /\ change[c].status = "REJECTED"
    /\ Creates(c)
    /\ UNCHANGED <<repo, change, asked, waiting, api, hub, previews, losses>>

\* cancel_task: the revocation may come too late, or to a pool that cannot
\* terminate a run; then the row is written, over whatever it is by now.
CancelRevokes(t) ==
    /\ Idle /\ task[t].status \in Active
    /\ api' = [Free EXCEPT !.pc = "cancel", !.on = t]
    /\ \/ UNCHANGED run
       \/ /\ run[t] \in InWorker \cup {"queued"}
          /\ run' = [run EXCEPT ![t] = "killed"]
    /\ UNCHANGED <<rows, repo, asked, waiting, hub, previews, losses>>

CancelCommits ==
    /\ api.pc = "cancel"
    /\ task' = [task EXCEPT ![api.on].status = "CANCELLED"]
    /\ api' = Free
    /\ UNCHANGED <<run, repo, change, asked, waiting, hub, previews, losses>>

-----------------------------------------------------------------------------
(***************************************************************************)
(* run_agent_task                                                          *)
(***************************************************************************)
\* RUNNING whatever the status was.
Start(t) ==
    /\ run[t] = "queued"
    /\ Cardinality({u \in Tasks : run[u] \in InWorker}) < Workers
    /\ task' = [task EXCEPT ![t].status = "RUNNING"]
    /\ run' = [run EXCEPT ![t] = "started"]
    /\ UNCHANGED <<repo, change, asked, waiting, api, hub, previews, losses>>

\* prepare_branch: git reset --hard and clean -fd, checkout of the default branch
\* (a failure is ignored) and checkout -B.
Prepare(t) ==
    /\ run[t] = "started"
    /\ LET clean == [repo EXCEPT !.dirty = FALSE] IN
       \E r \in (IF clean.tip[Main] = NoCommit THEN {clean} ELSE Checkouts(clean, Main)) :
          repo' = Rebranched(r, t)
    /\ run' = [run EXCEPT ![t] = "ready"]
    /\ UNCHANGED <<rows, asked, waiting, api, hub, previews, losses>>

\* The agent's tools write the tree as it is by now.
Write(t) ==
    /\ run[t] = "ready" /\ ~repo.dirty
    /\ repo' = [repo EXCEPT !.dirty = TRUE]
    /\ UNCHANGED <<rows, run, asked, waiting, api, hub, previews, losses>>

\* The result is written over any status the row has by now.
Finish(t) ==
    /\ run[t] = "ready"
    /\ \E status \in {"SUCCESS", "FAILED"} :
         task' = [task EXCEPT ![t].status = status]
    /\ run' = [run EXCEPT ![t] = "finished"]
    /\ UNCHANGED <<repo, change, asked, waiting, api, hub, previews, losses>>

\* A successful revision goes on to its change.
Revises(t) == task[t].status = "SUCCESS" /\ task[t].source # 0

Return(t) ==
    /\ run[t] = "finished" /\ ~Revises(t)
    /\ run' = [run EXCEPT ![t] = "ended"]
    /\ UNCHANGED <<rows, repo, asked, waiting, api, hub, previews, losses>>

RevisionBranches(t) ==
    /\ run[t] = "finished" /\ Revises(t)
    /\ repo' = Rebranched(repo, t)
    /\ run' = [run EXCEPT ![t] = "branched"]
    /\ UNCHANGED <<rows, asked, waiting, api, hub, previews, losses>>

RevisionCaptures(t) ==
    /\ run[t] = "branched" /\ Len(change) < MaxChanges
    /\ change' = Append(change, Captured(t))
    /\ run' = [run EXCEPT ![t] = "ended"]
    /\ UNCHANGED <<task, repo, asked, waiting, api, hub, previews, losses>>

\* An exception while a revision's change is made is only logged.
RevisionGivesUp(t) ==
    /\ run[t] = "branched" \/ (run[t] = "finished" /\ Revises(t))
    /\ run' = [run EXCEPT ![t] = "ended"]
    /\ UNCHANGED <<rows, repo, asked, waiting, api, hub, previews, losses>>

\* Mutant: the failure is logged and not recorded.
FailSilently(t) ==
    /\ run[t] \in InWorker
    /\ run' = [run EXCEPT ![t] = "ended"]
    /\ UNCHANGED <<rows, repo, asked, waiting, api, hub, previews, losses>>
\* Any other exception, and the soft time limit anywhere (the handler for a
\* revision's change fails on an undefined name and so ends here too): FAILED,
\* also after SUCCESS was committed.
Fail(t) ==
    /\ run[t] \in InWorker
    /\ task' = [task EXCEPT ![t].status = "FAILED"]
    /\ run' = [run EXCEPT ![t] = "ended"]
    /\ UNCHANGED <<repo, change, asked, waiting, api, hub, previews, losses>>

\* A lost worker's message is delivered again; at the hard limit it is gone.
Lost(t) ==
    /\ run[t] \in InWorker /\ losses < MaxLosses
    /\ losses' = losses + 1
    /\ \E next \in {"queued", "killed"} : run' = [run EXCEPT ![t] = next]
    /\ UNCHANGED <<rows, repo, asked, waiting, api, hub, previews>>

-----------------------------------------------------------------------------
(***************************************************************************)
(* Code changes                                                            *)
(***************************************************************************)
\* generate_code_change for a user, at any time; it awaits between checkout -B
\* and the capture.
UserBranches(t) ==
    /\ Idle /\ t \in Existing /\ Cardinality(asked) < MaxWaiting /\ Len(change) < MaxChanges
    /\ repo' = Rebranched(repo, t)
    /\ asked' = asked \cup {t}
    /\ UNCHANGED <<rows, run, waiting, api, hub, previews, losses>>

UserCaptures(t) ==
    /\ Idle /\ t \in asked /\ Len(change) < MaxChanges
    /\ change' = Append(change, Captured(t))
    /\ asked' = asked \ {t}
    /\ UNCHANGED <<task, run, repo, waiting, api, hub, previews, losses>>

SetStatus(c, status) == change' = [change EXCEPT ![c].status = status]

\* Mutant: a rejected change can be accepted after all.
AcceptUnlessCommitted(c) ==
    /\ Idle /\ change[c].status \in {"GENERATED", "REJECTED"}
    /\ SetStatus(c, "ACCEPTED")
    /\ UNCHANGED <<task, run, repo, asked, waiting, api, hub, previews, losses>>
Accept(c) ==
    /\ Idle /\ change[c].status = "GENERATED"
    /\ SetStatus(c, "ACCEPTED")
    /\ UNCHANGED <<task, run, repo, asked, waiting, api, hub, previews, losses>>

Reject(c) ==
    /\ Idle /\ change[c].status = "GENERATED"
    /\ SetStatus(c, "REJECTED")
    /\ UNCHANGED <<task, run, repo, asked, waiting, api, hub, previews, losses>>

-----------------------------------------------------------------------------
(***************************************************************************)
(* Pull requests and previews: nothing in them awaits, so that the API     *)
(* serves nobody else meanwhile; workers go on.                            *)
(***************************************************************************)
\* Mutant: any change that is not rejected will do.
MayPublishUnrejected(c) == change[c].status \in {"GENERATED", "ACCEPTED"}
MayPublish(c) == change[c].status = "ACCEPTED"

AlreadyCommitted(c) ==
    LET tip == repo.tip[change[c].task] IN tip # NoCommit /\ tip = change[c].commit

CallFails == losses < MaxLosses /\ losses' = losses + 1 /\ api' = Free
ApiAt(pc) == api' = [api EXCEPT !.pc = pc]

PullOpens(c) ==
    LET branch == change[c].task IN
    /\ Idle /\ MayPublish(c)
    /\ IF AlreadyCommitted(c)
       THEN /\ api' = [pc |-> "push", on |-> c, hash |-> change[c].commit]
            /\ UNCHANGED repo
       ELSE /\ repo' \in Checkouts(repo, branch) \cup
                         (IF MayRefuse(repo, branch)
                          THEN {Rebranched(repo, branch)} ELSE {})
            /\ api' = [pc |-> "commit", on |-> c, hash |-> NoCommit]
    /\ UNCHANGED <<rows, run, asked, waiting, hub, previews, losses>>

\* commit_changes: a clean tree has nothing to commit, and the request fails.
PullCommits ==
    /\ api.pc = "commit"
    /\ IF ~repo.dirty
       THEN api' = Free /\ UNCHANGED repo
       ELSE /\ repo.last < MaxCommits
            /\ repo' = Committed
            /\ api' = [api EXCEPT !.pc = "push", !.hash = repo.last + 1]
    /\ UNCHANGED <<rows, run, asked, waiting, hub, previews, losses>>

\* Mutant: the row says COMMITTED before the push and GitHub's answer.
PullPushesAfterMark ==
    /\ api.pc = "push"
    /\ change' = [change EXCEPT ![api.on].status = "COMMITTED"]
    /\ ApiAt("github")
    /\ UNCHANGED <<task, run, repo, asked, waiting, hub, previews, losses>>
\* origin.push without raise_if_error: what GitHub refuses (not a fast-forward, a
\* hook, a protected branch) raises nothing; only a git that fails does.
Pushed(branch) ==
    {remote} \cup {[remote EXCEPT ![branch] = tip] :
                      tip \in {repo.tip[branch]} \cap remote[branch]..MaxCommits}
PullPushes ==
    LET branch == change[api.on].task IN
    /\ api.pc = "push"
    /\ \/ /\ repo.tip[branch] # NoCommit /\ remote' \in Pushed(branch)
          /\ ApiAt("github")
          /\ UNCHANGED losses
       \/ CallFails /\ UNCHANGED remote
       \/ /\ repo.tip[branch] = NoCommit /\ api' = Free
          /\ UNCHANGED <<remote, losses>>
    /\ UNCHANGED <<rows, run, repo, asked, waiting, pulls, previews>>

\* GitHub opens no pull request without commits between the default branch and
\* the branch, or without one of the two.
MayOpen(branch) == remote[Main] # NoCommit /\ remote[branch] > remote[Main]

\* An open pull request of the branch is used again.
PullAnswered ==
    LET branch == change[api.on].task IN
    /\ api.pc = "github"
    /\ \/ /\ branch \in pulls \/ MayOpen(branch)
          /\ pulls' = pulls \cup {branch}
          /\ ApiAt("mark")
          /\ UNCHANGED losses
       \/ /\ branch \notin pulls /\ ~MayOpen(branch)
          /\ api' = Free
          /\ UNCHANGED <<pulls, losses>>
       \/ CallFails /\ UNCHANGED pulls
    /\ UNCHANGED <<rows, run, repo, asked, waiting, remote, previews>>

\* The change's status is committed, then the PullRequest row.
PullMarks ==
    /\ api.pc = "mark" /\ api' = Free
    /\ change' = [change EXCEPT ![api.on].status = "COMMITTED",
                                ![api.on].commit = api.hash]
    /\ UNCHANGED <<task, run, repo, asked, waiting, hub, previews, losses>>

\* create_local_deployment copies the workspace, or its build, as it is by then.
Deploy(c) ==
    /\ Idle /\ MayPublish(c)
    /\ previews' = previews \cup {change[c].task}
    /\ UNCHANGED <<rows, run, repo, asked, waiting, api, hub, losses>>

\* The old preview is removed before the build, which fails.
BuildFails(c) ==
    /\ Idle /\ MayPublish(c)
    /\ previews' = previews \ {change[c].task}
    /\ UNCHANGED <<rows, run, repo, asked, waiting, api, hub, losses>>

\* The API process dies: what it had not sent or captured is never done.
Crash ==
    /\ losses < MaxLosses /\ losses' = losses + 1
    /\ <<api, asked, waiting>> # <<Free, {}, 0>>
    /\ api' = Free /\ asked' = {} /\ waiting' = 0
    /\ UNCHANGED <<rows, run, repo, hub, previews>>

-----------------------------------------------------------------------------
WorkerStep(t) ==
    \/ Start(t) \/ Prepare(t) \/ Write(t) \/ Finish(t) \/ Return(t)
    \/ RevisionBranches(t) \/ RevisionCaptures(t) \/ RevisionGivesUp(t) \/ Fail(t)

PullStep ==
    \/ PullCommits \/ PullPushes \/ PullAnswered \/ PullMarks
    \/ CancelCommits

Next ==
    \/ MessageCounts \/ MessageCreates
    \/ \E t \in Tasks :
          \/ WorkerStep(t) \/ Lost(t)
          \/ RetryTask(t) \/ CancelRevokes(t)
          \/ UserBranches(t) \/ UserCaptures(t)
    \/ \E c \in DOMAIN change :
          Revise(c) \/ Accept(c) \/ Reject(c) \/ PullOpens(c)
          \/ Deploy(c) \/ BuildFails(c)
    \/ PullStep \/ Crash

Spec == Init /\ [][Next]_vars

-----------------------------------------------------------------------------
(***************************************************************************)
(* Properties                                                              *)
(***************************************************************************)
Rows == DOMAIN change
Of(b) == {c \in Rows : change[c].task = b}
Reviewed(c) == change[c].status \in {"ACCEPTED", "COMMITTED"}

\* The branch of a change called COMMITTED is on GitHub, ahead of the default
\* branch, and has an open pull request: also when GitHub refused the push, which
\* raises nothing, wherever the handler fails or dies, and retried however often.
\* That the branch is there with this change's own commit it does not say.
CommittedIsPublished ==
    \A c \in Rows : change[c].status = "COMMITTED" =>
        /\ remote[change[c].task] > remote[Main]
        /\ change[c].task \in pulls

\* No branch leaves the machine, and none is previewed, before a user has
\* accepted one of its changes; no later step takes that acceptance back.
NothingUnreviewed ==
    \A b \in Owners : (remote[b] # NoCommit \/ b \in previews) =>
        \E c \in Of(b) : Reviewed(c)

\* A revision, and the task that makes it, answers a change that was rejected
\* and still is, and carries the next number; retries do not break the chain.
RevisionFollowsReject ==
    /\ \A t \in Existing : task[t].source # 0 =>
           change[task[t].source].status = "REJECTED"
    /\ \A c \in Rows : LET source == change[c].parent IN source # 0 =>
           /\ source < c /\ change[source].status = "REJECTED"
           /\ change[c].index = change[source].index + 1

\* No task is left PENDING or RUNNING by a run that has returned: whatever fails
\* in the agent, in git or in a revision's change, its row ends in a final status.
\* Only a refused message or a killed worker leaves one.
NothingAbandoned ==
    \A t \in Tasks : task[t].status \in Active =>
        run[t] \in InWorker \cup {"queued", "stuck", "killed"}

\* README.md: accepting a change commits and pushes it.  The code takes the
\* commit a change was generated on for the commit that holds it, and pushes that.
PushedHasTheChange ==
    \A c \in Rows :
        (/\ api.pc = "github" /\ api.on = c /\ change[c].edits
         /\ remote[change[c].task] = api.hash) =>
        api.hash > change[c].base
=============================================================================

------------------------ MODULE OrchestratorExecution ------------------------
(***************************************************************************)
(* The execution of one confirmed orchestrator plan by Celery workers:     *)
(* dispatch, the five canvas callbacks (prepare, prepare_wave, step,       *)
(* merge_wave, finalize), cancellation and in-place retry, all of them     *)
(* sharing the parent Task row, its children's rows and the repository's   *)
(* git worktrees.                                                          *)
(*                                                                         *)
(* A section of code that runs under the parent's row lock (SELECT ... FOR *)
(* UPDATE, held to commit or rollback) is one action; what a handler read  *)
(* before it took the lock is kept in its record and may be stale when the *)
(* lock is finally granted.                                                *)
(***************************************************************************)
EXTENDS Naturals, FiniteSets

CONSTANTS
    NumSteps,     \* steps of the plan, numbered by step_index
    WaveOf,       \* the wave build_execution_waves gives each step
    LastWave,     \* index of the last wave
    Dispatchers,  \* calls of dispatch_orchestrator_execution, each one owning
                  \* the canvas it publishes
    Resume,       \* the dispatcher that runs inside resume_orchestrator_task;
                  \* the others run inside retry_failed_orchestrator
    Cancellers,   \* cancel requests
    Faults,       \* the kinds of failure that may occur
    None          \* an absent id, hash or canvas

Steps == 1..NumSteps
Waves == 0..LastWave

ASSUME PlanAssumption ==
    /\ NumSteps \in Nat \ {0}
    /\ LastWave \in Nat
    /\ WaveOf \in [Steps -> Waves]
    /\ \A w \in Waves : \E s \in Steps : WaveOf[s] = w

FaultKinds == {"prepare", "wave", "step", "conflict", "merge", "finalize",
               "cleanup", "publish", "revoke"}

ASSUME ActorAssumption ==
    /\ Resume \in Dispatchers
    /\ None \notin Dispatchers
    /\ Faults \subseteq FaultKinds

VARIABLES
    parent,      \* the orchestrator's Task row
    child,       \* the steps' Task rows
    canvas,      \* the Celery canvas of each dispatcher
    disp,        \* the progress of each dispatcher
    canceller,   \* the progress of each cancel request
    applied,     \* step commits the integration branch contains
    trees,       \* git worktrees that are registered
    codeChanges  \* how many CodeChange rows were committed for this parent: the
                 \* one code_change_id names, and those no row tells of

vars == <<parent, child, canvas, disp, canceller, applied, trees, codeChanges>>

(***************************************************************************)
(* Types                                                                   *)
(***************************************************************************)
Integration == 0                          \* the integration worktree
Trees == {Integration} \cup Steps
Commits == Steps \X Dispatchers           \* <<step, canvas that produced it>>
Maybe(S) == S \cup {None}

Status == {"PENDING", "RUNNING", "SUCCESS", "FAILED", "CANCELLED"}
Terminal == {"SUCCESS", "FAILED", "CANCELLED"}
MergeStatus == {"none", "pending", "ready", "skipped", "merged", "conflict"}
PlanStatus ==
    {"confirmed", "dispatch_prepared", "dispatch_queued", "dispatched",
     "retrying", "executed", "prepare_failed", "dispatch_failed",
     "execution_failed", "retry_dispatch_failed",
     "cancellation_cleanup_failed"}

Parent == [status : {"RUNNING"} \cup Terminal,  \* confirmed: not PENDING
           plan : PlanStatus, gen : Nat,
           ids : Maybe(Dispatchers),  \* whose canvas_task_ids are recorded
           canvasId : BOOLEAN,        \* canvas_id is set
           integ : BOOLEAN,           \* integration_worktree_path is set
           change : BOOLEAN]          \* code_change_id is set
Child == [status : Status, gen : Nat, merge : MergeStatus,
          claim : Maybe(Dispatchers),   \* celery_task_id
          commit : Maybe(Dispatchers),  \* result_commit_hash
          base : SUBSET Commits,        \* what base_commit_hash contains
          path : BOOLEAN]               \* worktree_path is set
Canvas == [stage : {"free", "built", "prepare", "wave", "steps", "merge",
                    "finalize", "cleanup", "done", "revoked"},
           gen : Nat, start : Waves, wave : Waves,
           ids : Maybe(Dispatchers),
           busy : BOOLEAN,              \* the handler has made its first reads
           todo : SUBSET Steps,         \* read by prepare_wave
           base : SUBSET Commits,       \* read by prepare_wave
           step : [Steps -> {"idle", "queued", "working", "done"}]]
Dispatcher == [pc : {"idle", "build", "publish", "confirm", "persist", "done"},
               gen : Nat, start : Waves]
Canceller == [pc : {"idle", "revoke", "cleanup", "report", "done"},
              gen : Nat, targets : SUBSET Dispatchers]

(* Type correctness of the rows, the canvases and the requests.            *)
TypeOK ==
    /\ parent \in Parent
    /\ child \in [Steps -> Child]
    /\ canvas \in [Dispatchers -> Canvas]
    /\ disp \in [Dispatchers -> Dispatcher]
    /\ canceller \in [Cancellers -> Canceller]
    /\ applied \subseteq Commits
    /\ trees \subseteq Trees
    /\ codeChanges \in [named : Nat, orphaned : Nat]

-----------------------------------------------------------------------------
(***************************************************************************)
(* The initial state: the user has confirmed the plan, the resume task has *)
(* set the parent RUNNING and its graph is about to enter dispatch_node.   *)
(***************************************************************************)
NewChild == [status |-> "PENDING", gen |-> 0, merge |-> "none",
             claim |-> None, commit |-> None, base |-> {}, path |-> FALSE]
NoCanvas == [stage |-> "free", gen |-> 0, start |-> 0, wave |-> 0,
             ids |-> None, busy |-> FALSE, todo |-> {}, base |-> {},
             step |-> [s \in Steps |-> "idle"]]

Init ==
    /\ parent = [status |-> "RUNNING", plan |-> "confirmed", gen |-> 0,
                 ids |-> None, canvasId |-> FALSE, integ |-> FALSE,
                 change |-> FALSE]
    /\ child = [s \in Steps |-> NewChild]
    /\ canvas = [d \in Dispatchers |-> NoCanvas]
    /\ disp = [d \in Dispatchers |->
                 [pc |-> IF d = Resume THEN "build" ELSE "idle",
                  gen |-> 0, start |-> 0]]
    /\ canceller = [k \in Cancellers |->
                      [pc |-> "idle", gen |-> 0, targets |-> {}]]
    /\ applied = {}
    /\ trees = {}
    /\ codeChanges = [named |-> 0, orphaned |-> 0]

-----------------------------------------------------------------------------
(***************************************************************************)
(* Helpers                                                                 *)
(***************************************************************************)
WaveSteps(w) == {s \in Steps : WaveOf[s] = w}
IsTerminal == parent.status \in Terminal
Current(c) == canvas[c].gen = parent.gen

\* _callback_barrier: a callback of another generation, or of a parent that
\* has reached a terminal status, must not do anything.
\* Mutants: one of the two conditions is not looked at.
BarredIfStale(c) == ~Current(c)
BarredIfTerminal(c) == IsTerminal
Barred(c) == ~Current(c) \/ IsTerminal

\* The commit of step s is already part of the integration branch, so picking
\* it again is an empty cherry-pick, which git reports as an error.
Applied(s) == <<s, child[s].commit>> \in applied

Folded(s) == child[s].merge \in {"merged", "skipped"}

\* Mutant: a step that had nothing to commit counts as unfinished.
CompleteIfMerged(s) == child[s].status = "SUCCESS" /\ child[s].merge = "merged"
Complete(s) == child[s].status = "SUCCESS" /\ Folded(s)

\* Mutant: the chain has one wave too many.
AfterMergeOffByOne(r) ==
    IF r.wave <= LastWave THEN [r EXCEPT !.stage = "wave", !.wave = r.wave + 1]
                          ELSE [r EXCEPT !.stage = "finalize"]
AfterMerge(r) ==
    IF r.wave < LastWave THEN [r EXCEPT !.stage = "wave", !.wave = r.wave + 1]
                         ELSE [r EXCEPT !.stage = "finalize"]

\* The rest of the chain after the handler of canvas record r returned.
\* Handlers return a dict on every path, so a business failure never breaks
\* the chain: the next callback meets the barrier instead.
Successor(r) ==
    CASE r.stage = "prepare" ->
            [r EXCEPT !.stage = "wave", !.busy = FALSE]
      [] r.stage = "wave" ->
            [r EXCEPT !.stage = "steps", !.busy = FALSE, !.todo = {},
                      !.base = {},
                      !.step = [s \in Steps |-> IF WaveOf[s] = r.wave
                                                THEN "queued" ELSE @[s]]]
      [] r.stage = "merge" -> AfterMerge(r)
      [] OTHER -> [r EXCEPT !.stage = "done", !.busy = FALSE]

Advance(c) == canvas' = [canvas EXCEPT ![c] = Successor(@)]

\* The chord: the member that finishes last triggers the merge callback.
\* Mutant: the chord waits for every step of the plan.
JoinedByPlan(r) == r.stage = "steps" /\ \A s \in Steps : r.step[s] = "done"
Joined(r) ==
    r.stage = "steps" /\ \A s \in WaveSteps(r.wave) : r.step[s] = "done"

StepReturns(c, s) ==
    LET r == [canvas[c] EXCEPT !.step[s] = "done"]
    IN  canvas' = [canvas EXCEPT
                     ![c] = IF Joined(r) THEN [r EXCEPT !.stage = "merge"] ELSE r]

FailParent(plan) == parent' = [parent EXCEPT !.status = "FAILED", !.plan = plan]

-----------------------------------------------------------------------------
(***************************************************************************)
(* prepare_orchestrator_execution                                          *)
(***************************************************************************)

\* prepare, prepare_wave and merge_wave return at the first barrier they meet
\* after the generation moved on or the parent became terminal.
CallbackSkipped(c) ==
    /\ canvas[c].stage \in {"prepare", "wave", "merge"}
    /\ Barred(c)
    /\ Advance(c)
    /\ UNCHANGED <<parent, child, disp, canceller, applied, trees, codeChanges>>

\* Already prepared, by an earlier generation or an earlier delivery.
PrepareReuses(c) ==
    /\ canvas[c].stage = "prepare" /\ ~canvas[c].busy
    /\ ~Barred(c) /\ parent.integ
    /\ Advance(c)
    /\ UNCHANGED <<parent, child, disp, canceller, applied, trees, codeChanges>>

\* The unlocked part: no integration worktree is recorded, compute the waves
\* and resolve HEAD.
PrepareReads(c) ==
    /\ canvas[c].stage = "prepare" /\ ~canvas[c].busy
    /\ ~Barred(c) /\ ~parent.integ
    /\ canvas' = [canvas EXCEPT ![c].busy = TRUE]
    /\ UNCHANGED <<parent, child, disp, canceller, applied, trees, codeChanges>>

\* The locked part; that no integration worktree was recorded is not read again.
PrepareCommits(c) ==
    /\ canvas[c].stage = "prepare" /\ canvas[c].busy
    /\ ~Barred(c)
    /\ parent' = [parent EXCEPT !.status = "RUNNING", !.plan = "dispatched",
                                !.integ = TRUE]
    /\ child' = [s \in Steps |-> [child[s] EXCEPT !.merge = "pending",
                                                 !.base = {},
                                                 !.gen = canvas[c].gen]]
    /\ trees' = trees \cup {Integration}
    /\ Advance(c)
    /\ UNCHANGED <<disp, canceller, applied, codeChanges>>

PrepareFails(c) ==
    /\ "prepare" \in Faults
    /\ canvas[c].stage = "prepare" /\ canvas[c].busy
    /\ ~Barred(c)
    /\ FailParent("prepare_failed")
    /\ trees' \in {trees, trees \cup {Integration}}
    /\ Advance(c)
    /\ UNCHANGED <<child, disp, canceller, applied, codeChanges>>

(***************************************************************************)
(* prepare_orchestrator_wave                                               *)
(***************************************************************************)

\* The unlocked part: the wave's children and the integration head.
WaveReads(c) ==
    /\ canvas[c].stage = "wave" /\ ~canvas[c].busy
    /\ ~Barred(c)
    /\ canvas' = [canvas EXCEPT
          ![c].busy = TRUE,
          ![c].base = applied,
          ![c].todo = {s \in WaveSteps(canvas[c].wave) :
                          ~(/\ child[s].status = "SUCCESS"
                            /\ child[s].commit # None)}]
    /\ UNCHANGED <<parent, child, disp, canceller, applied, trees, codeChanges>>

WaveCommits(c) ==
    /\ canvas[c].stage = "wave" /\ canvas[c].busy
    /\ ~Barred(c)
    /\ trees' = trees \cup canvas[c].todo
    /\ child' = [s \in Steps |->
                    IF s \in canvas[c].todo
                    THEN [child[s] EXCEPT !.path = TRUE, !.base = canvas[c].base]
                    ELSE child[s]]
    /\ Advance(c)
    /\ UNCHANGED <<parent, disp, canceller, applied, codeChanges>>

\* An exception leaves the worktrees of the first steps registered although
\* no row records them.
WaveFails(c) ==
    /\ "wave" \in Faults
    /\ canvas[c].stage = "wave" /\ canvas[c].busy
    /\ ~Barred(c)
    /\ \E k \in Steps : trees' = trees \cup {s \in canvas[c].todo : s < k}
    /\ FailParent(parent.plan)
    /\ Advance(c)
    /\ UNCHANGED <<child, disp, canceller, applied, codeChanges>>

(***************************************************************************)
(* run_orchestrator_step                                                   *)
(***************************************************************************)
StepFenced(c, s) == ~Current(c) \/ child[s].gen # canvas[c].gen

\* Mutant: a redelivered step does not look at the claim.
ClaimIgnored(s) == FALSE
Claimed(s) == child[s].status = "RUNNING" /\ child[s].claim # None

Committed(s) == child[s].status = "SUCCESS" /\ child[s].commit # None

\* Stale generation, finished step, or a claim held by another delivery.
StepSkips(c, s) ==
    /\ canvas[c].step[s] = "queued" /\ canvas[c].stage = "steps"
    /\ \/ StepFenced(c, s)
       \/ Committed(s)
       \/ parent.status \notin {"FAILED", "CANCELLED"} /\ Claimed(s)
    /\ StepReturns(c, s)
    /\ UNCHANGED <<parent, child, disp, canceller, applied, trees, codeChanges>>

StepRefused(c, s) ==
    /\ canvas[c].step[s] = "queued" /\ canvas[c].stage = "steps"
    /\ ~StepFenced(c, s)
    /\ ~Committed(s)
    /\ parent.status \in {"FAILED", "CANCELLED"}
    /\ child' = [child EXCEPT ![s].status = "CANCELLED"]
    /\ StepReturns(c, s)
    /\ UNCHANGED <<parent, disp, canceller, applied, trees, codeChanges>>

\* The database claim; from here to the next commit the agent works in the
\* step's worktree, which it first resets to the recorded base.
StepClaims(c, s) ==
    /\ canvas[c].step[s] = "queued" /\ canvas[c].stage = "steps"
    /\ ~StepFenced(c, s)
    /\ ~Committed(s)
    /\ parent.status \notin {"FAILED", "CANCELLED"}
    /\ ~Claimed(s)
    /\ child' = [child EXCEPT ![s].status = "RUNNING", ![s].claim = c]
    /\ canvas' = [canvas EXCEPT ![c].step[s] = "working"]
    /\ UNCHANGED <<parent, disp, canceller, applied, trees, codeChanges>>

\* The run finishes after it lost its generation: nothing is written.
StepDiscarded(c, s) ==
    /\ canvas[c].step[s] = "working"
    /\ StepFenced(c, s)
    /\ StepReturns(c, s)
    /\ UNCHANGED <<parent, child, disp, canceller, applied, trees, codeChanges>>

\* Verified work is committed to the step branch; a run that changed nothing
\* has no commit and nothing to merge.
StepSucceeds(c, s) ==
    /\ canvas[c].step[s] = "working"
    /\ ~StepFenced(c, s) /\ parent.status # "CANCELLED"
    /\ s \in trees
    /\ \E changed \in BOOLEAN :
         child' = [child EXCEPT ![s].status = "SUCCESS",
                                ![s].commit = IF changed THEN c ELSE None,
                                ![s].merge = IF changed THEN "ready"
                                                        ELSE "skipped"]
    /\ StepReturns(c, s)
    /\ UNCHANGED <<parent, disp, canceller, applied, trees, codeChanges>>

\* The agent, the verification, the git commit or a soft time limit raised.
StepFails(c, s) ==
    /\ "step" \in Faults
    /\ canvas[c].step[s] = "working"
    /\ ~StepFenced(c, s) /\ parent.status # "CANCELLED"
    /\ child' = [child EXCEPT ![s].status = "FAILED"]
    /\ StepReturns(c, s)
    /\ UNCHANGED <<parent, disp, canceller, applied, trees, codeChanges>>

(***************************************************************************)
(* merge_orchestrator_wave: one transaction under the parent's lock.       *)
(***************************************************************************)
Merging(c) == canvas[c].stage = "merge" /\ ~Barred(c)

\* The wave's steps merge_wave still has to fold in, in step_index order.
\* Mutant: those an earlier merge has folded in are taken again.
PendingOrFolded(c) == WaveSteps(canvas[c].wave)
Pending(c) == {s \in WaveSteps(canvas[c].wave) : ~Folded(s)}
\* Mutant: failed steps are not looked for.
HasNoFailure(c) == FALSE
HasFailure(c) == \E s \in WaveSteps(canvas[c].wave) : child[s].status = "FAILED"
Picks(S) == {<<s, child[s].commit>> : s \in {t \in S : child[t].commit # None}}

\* Steps S can be folded in one after the other.
Foldable(S) ==
    /\ Integration \in trees
    /\ \A s \in S : child[s].path /\ ~Applied(s)

\* Mutant: a step is marked merged whether it had a commit or not.
FoldAsMerged(S) ==
    [s \in Steps |-> IF s \in S THEN [child[s] EXCEPT !.merge = "merged"]
                               ELSE child[s]]
Fold(S) == [s \in Steps |->
              IF s \in S
              THEN [child[s] EXCEPT !.merge = IF child[s].commit = None
                                              THEN "skipped" ELSE "merged"]
              ELSE child[s]]

MergeRepeated(c) ==
    /\ Merging(c) /\ Pending(c) = {}
    /\ Advance(c)
    /\ UNCHANGED <<parent, child, disp, canceller, applied, trees, codeChanges>>

MergeFindsFailure(c) ==
    /\ Merging(c) /\ Pending(c) # {} /\ HasFailure(c)
    /\ FailParent(parent.plan)
    /\ Advance(c)
    /\ UNCHANGED <<child, disp, canceller, applied, trees, codeChanges>>

\* Cherry-pick, mark, remove the worktree and the branch of every step.
MergeSucceeds(c) ==
    /\ Merging(c) /\ Pending(c) # {} /\ ~HasFailure(c)
    /\ Foldable(Pending(c))
    /\ child' = Fold(Pending(c))
    /\ applied' = applied \cup Picks(Pending(c))
    /\ trees' = trees \ Pending(c)
    /\ Advance(c)
    /\ UNCHANGED <<parent, disp, canceller, codeChanges>>

\* The pick of step k conflicts and is aborted; the steps before it stay merged.
MergeConflicts(c) ==
    /\ Merging(c) /\ ~HasFailure(c)
    /\ \E k \in Pending(c) :
         LET S == {s \in Pending(c) : s < k} IN
         /\ "conflict" \in Faults \/ Applied(k)
         /\ Integration \in trees /\ Foldable(S) /\ child[k].commit # None
         /\ child' = [Fold(S) EXCEPT ![k].merge = "conflict"]
         /\ applied' = applied \cup Picks(S)
         /\ trees' = trees \ S
    /\ FailParent(parent.plan)
    /\ Advance(c)
    /\ UNCHANGED <<disp, canceller, codeChanges>>

\* An exception (git lock timeout, lost Redis connection, soft time limit) at
\* step k: before its pick, after the pick but before the row is marked, or
\* after the row is marked but before its worktree is gone.  The handler
\* commits what it had marked.
MergeFails(c) ==
    /\ "merge" \in Faults
    /\ Merging(c) /\ ~HasFailure(c)
    /\ \E k \in Pending(c), at \in {"untouched", "picked", "marked"} :
         LET S == {s \in Pending(c) : s < k}
             picked == IF at = "untouched" THEN S ELSE S \cup {k}
             marked == IF at = "marked" THEN S \cup {k} ELSE S
         IN
         /\ Foldable(picked) \/ picked = {}
         /\ child' = Fold(marked)
         /\ applied' = applied \cup Picks(picked)
         /\ trees' = trees \ S
    /\ FailParent(parent.plan)
    /\ Advance(c)
    /\ UNCHANGED <<disp, canceller, codeChanges>>

(***************************************************************************)
(* finalize_orchestrator_execution                                         *)
(***************************************************************************)

\* Mutant: a finished execution is finalized again.
NeverFinalized == FALSE
Finalized == parent.change

\* Mutant: the status is not looked at before worktrees are removed.
CleanableIfCurrent(c) == Current(c)
\* _completed_callback_barrier
Cleanable(c) == Current(c) /\ parent.status = "SUCCESS"

\* Mutant: only merged steps are cleaned up.
MergedLeftovers == {s \in Steps : child[s].path /\ child[s].merge = "merged"}
Leftovers == {s \in Steps : child[s].path}

\* Stale, already finalized, failed or cancelled.
FinalizeReturns(c) ==
    /\ canvas[c].stage = "finalize"
    /\ Barred(c) \/ (~canvas[c].busy /\ Finalized)
    /\ Advance(c)
    /\ UNCHANGED <<parent, child, disp, canceller, applied, trees, codeChanges>>

\* The unlocked part: no code_change_id is recorded; resolve the integration
\* head, compute the diff and verify it.
FinalizeReads(c) ==
    /\ canvas[c].stage = "finalize" /\ ~canvas[c].busy
    /\ ~Barred(c) /\ ~Finalized
    /\ canvas' = [canvas EXCEPT ![c].busy = TRUE]
    /\ UNCHANGED <<parent, child, disp, canceller, applied, trees, codeChanges>>

\* CodeChange, parent row and summary message in one commit.
FinalizeCommits(c) ==
    /\ canvas[c].stage = "finalize" /\ canvas[c].busy
    /\ ~Barred(c)
    /\ parent' = [parent EXCEPT !.status = "SUCCESS", !.plan = "executed",
                                !.change = TRUE]
    /\ codeChanges' = [codeChanges EXCEPT !.named = @ + 1]
    /\ canvas' = [canvas EXCEPT ![c].stage = "cleanup"]
    /\ UNCHANGED <<child, disp, canceller, applied, trees>>

\* An exception (the verification, git, a soft time limit).  generate_code_change
\* only flushes its row; raised between this flush and the commit, the exception
\* is handled in the same transaction, which commits the row with the failure,
\* and no code_change_id names it.
FinalizeFails(c) ==
    /\ "finalize" \in Faults
    /\ canvas[c].stage = "finalize" /\ canvas[c].busy
    /\ ~Barred(c)
    /\ FailParent("execution_failed")
    /\ codeChanges' \in {codeChanges, [codeChanges EXCEPT !.orphaned = @ + 1]}
    /\ Advance(c)
    /\ UNCHANGED <<child, disp, canceller, applied, trees>>

\* Remove the step worktrees, unless the parent has left SUCCESS meanwhile; an
\* exception on the way (a failed broadcast, the git lock) leaves the rest.
FinalizeCleans(c) ==
    /\ canvas[c].stage = "cleanup"
    /\ trees' = IF Cleanable(c) THEN trees \ Leftovers ELSE trees
    /\ Advance(c)
    /\ UNCHANGED <<parent, child, disp, canceller, applied, codeChanges>>

FinalizeCleanupFails(c) ==
    /\ "cleanup" \in Faults
    /\ canvas[c].stage = "cleanup"
    /\ Cleanable(c)
    /\ \E k \in Steps : trees' = trees \ {s \in Leftovers : s < k}
    /\ Advance(c)
    /\ UNCHANGED <<parent, child, disp, canceller, applied, codeChanges>>

-----------------------------------------------------------------------------
(***************************************************************************)
(* dispatch_orchestrator_execution: a transaction that records the canvas, *)
(* the publication, and a second transaction.                              *)
(***************************************************************************)
Queued == parent.plan = "dispatch_queued" /\ parent.canvasId

\* A dispatch that was recorded but not confirmed is published again with the
\* task ids it recorded.
Republish == parent.plan = "dispatch_prepared" /\ parent.ids # None
SameIds(d) == canvas[parent.ids].start = disp[d].start

DispatchFindsQueued(d) ==
    /\ disp[d].pc = "build" /\ Queued
    /\ disp' = [disp EXCEPT ![d].pc = "done"]
    /\ UNCHANGED <<parent, child, canvas, canceller, applied, trees, codeChanges>>

DispatchBuilds(d) ==
    /\ disp[d].pc = "build" /\ ~Queued
    /\ Republish => SameIds(d)
    /\ LET gen == IF parent.gen = 0 THEN 1 ELSE parent.gen
           ids == IF Republish THEN parent.ids ELSE d
       IN  /\ parent' = [parent EXCEPT !.gen = gen, !.ids = ids,
                                       !.canvasId = TRUE,
                                       !.plan = "dispatch_prepared"]
           /\ canvas' = [canvas EXCEPT ![d].stage = "built", ![d].gen = gen,
                                       ![d].ids = ids,
                                       ![d].start = disp[d].start,
                                       ![d].wave = disp[d].start]
    /\ disp' = [disp EXCEPT ![d].pc = "publish"]
    /\ UNCHANGED <<child, canceller, applied, trees, codeChanges>>

\* The recorded ids do not match the canvas: FAILED, whatever the status was.
DispatchMismatches(d) ==
    /\ disp[d].pc = "build" /\ ~Queued
    /\ Republish /\ ~SameIds(d)
    /\ FailParent("dispatch_failed")
    /\ disp' = [disp EXCEPT ![d].pc = "persist"]
    /\ UNCHANGED <<child, canvas, canceller, applied, trees, codeChanges>>

Publish(d) ==
    canvas' = IF canvas[d].stage = "built"
              THEN [canvas EXCEPT ![d].stage = "prepare"] ELSE canvas

DispatchPublishes(d) ==
    /\ disp[d].pc = "publish"
    /\ Publish(d)
    /\ disp' = [disp EXCEPT ![d].pc = "confirm"]
    /\ UNCHANGED <<parent, child, canceller, applied, trees, codeChanges>>

\* apply_async raises, before or after the broker got the message, or the
\* second transaction does.
DispatchPublishFails(d) ==
    /\ "publish" \in Faults
    /\ disp[d].pc \in {"publish", "confirm"}
    /\ IF Current(d) /\ parent.status # "CANCELLED"
       THEN FailParent("dispatch_failed")
       ELSE UNCHANGED parent
    /\ disp' = [disp EXCEPT ![d].pc = "persist"]
    /\ UNCHANGED <<child, canvas, canceller, applied, trees, codeChanges>>

DispatchConfirms(d) ==
    /\ disp[d].pc = "confirm"
    /\ IF Barred(d)
       THEN /\ UNCHANGED parent
            /\ disp' = [disp EXCEPT ![d].pc = "persist"]
       ELSE /\ parent' = [parent EXCEPT !.plan = "dispatch_queued"]
            /\ disp' = [disp EXCEPT ![d].pc = "done"]
    /\ UNCHANGED <<child, canvas, canceller, applied, trees, codeChanges>>

(***************************************************************************)
(* retry_failed_orchestrator                                               *)
(***************************************************************************)

\* Where the retry starts: the first wave with incomplete work; wave indexes
\* are recorded by prepare_execution, and default to 0.
OpenWaves == {WaveOf[s] : s \in {t \in Steps : ~Complete(t)}}

\* Mutant: the last unfinished wave instead of the first.
FirstWaveIsLast(w) ==
    IF parent.integ /\ OpenWaves # {}
    THEN w \in OpenWaves /\ \A v \in OpenWaves : v <= w
    ELSE w = 0
FirstWave(w) ==
    IF parent.integ /\ OpenWaves # {}
    THEN w \in OpenWaves /\ \A v \in OpenWaves : w <= v
    ELSE w = 0

RetryCommits(d) ==
    /\ d # Resume /\ disp[d].pc = "idle"
    /\ parent.gen > 0 /\ parent.status \in {"FAILED", "CANCELLED"}
    /\ \E w \in Waves :
         /\ FirstWave(w)
         /\ disp' = [disp EXCEPT ![d] = [pc |-> "build", start |-> w,
                                         gen |-> parent.gen + 1]]
    /\ child' = [s \in Steps |->
                    IF Complete(s) THEN child[s]
                    ELSE [child[s] EXCEPT !.status = "PENDING", !.claim = None,
                                          !.commit = None, !.merge = "pending",
                                          !.gen = parent.gen + 1]]
    /\ parent' = [parent EXCEPT !.status = "RUNNING", !.plan = "retrying",
                                !.gen = parent.gen + 1, !.canvasId = FALSE]
    /\ UNCHANGED <<canvas, canceller, applied, trees, codeChanges>>

\* The dispatch did not report "dispatched": _persist_recovery_failure.  The
\* resume task ends without writing anything.
RetryPersists(d) ==
    /\ disp[d].pc = "persist"
    /\ IF d # Resume /\ parent.gen = disp[d].gen /\ parent.status # "CANCELLED"
       THEN FailParent("retry_dispatch_failed")
       ELSE UNCHANGED parent
    /\ disp' = [disp EXCEPT ![d].pc = "done"]
    /\ UNCHANGED <<child, canvas, canceller, applied, trees, codeChanges>>

-----------------------------------------------------------------------------
(***************************************************************************)
(* cancel_orchestrator                                                     *)
(***************************************************************************)

\* The canvases one of whose task ids the cancellation knows.
Revocable ==
    LET known == {parent.ids} \cup
                 {canvas[d].ids : d \in {child[s].claim : s \in Steps} \ {None}}
    IN  {d \in Dispatchers : canvas[d].ids \in known \ {None}}

CancelCommits(k) ==
    /\ canceller[k].pc = "idle"
    /\ parent.gen > 0 /\ ~IsTerminal
    /\ parent' = [parent EXCEPT !.status = "CANCELLED", !.gen = parent.gen + 1]
    /\ child' = [s \in Steps |-> IF child[s].status \in Terminal THEN child[s]
                                 ELSE [child[s] EXCEPT !.status = "CANCELLED"]]
    /\ canceller' = [canceller EXCEPT ![k] = [pc |-> "revoke",
                                              gen |-> parent.gen + 1,
                                              targets |-> Revocable]]
    /\ UNCHANGED <<canvas, disp, applied, trees, codeChanges>>

\* Celery drops the queued messages of a revoked canvas; whether a running
\* step is terminated depends on the worker pool.
Revoked(r, terminated) ==
    IF r.stage \in {"free", "done"} THEN r
    ELSE [r EXCEPT !.stage = "revoked",
                   !.step = [s \in Steps |->
                               IF @[s] = "queued" \/ (@[s] = "working" /\ terminated)
                               THEN "done" ELSE @[s]]]

\* Revocation is a broadcast that reaches some of the workers.
CancelRevokes(k) ==
    /\ canceller[k].pc = "revoke"
    /\ \E reached \in SUBSET canceller[k].targets, terminated \in BOOLEAN :
         /\ "revoke" \in Faults \/ (reached = canceller[k].targets /\ terminated)
         /\ canvas' = [d \in Dispatchers |->
                      IF d \in reached THEN Revoked(canvas[d], terminated)
                                       ELSE canvas[d]]
    /\ canceller' = [canceller EXCEPT ![k].pc = "cleanup"]
    /\ UNCHANGED <<parent, child, disp, applied, trees, codeChanges>>

\* _cleanup_safe_step_worktrees: unclaimed or merged steps.  A revocation that
\* failed is reported at the end.
SafeTrees == {s \in Steps : child[s].path /\
                            (child[s].claim = None \/ child[s].merge = "merged")}
\* Mutant: a retry that came after the cancellation is not noticed.
CancelledOnce(k) == TRUE
StillCancelled(k) == parent.status = "CANCELLED" /\ parent.gen = canceller[k].gen

CancelCleans(k) ==
    /\ canceller[k].pc = "cleanup"
    /\ trees' = IF StillCancelled(k) THEN trees \ SafeTrees ELSE trees
    /\ \E next \in {"done"} \cup (IF "revoke" \in Faults THEN {"report"} ELSE {}) :
         canceller' = [canceller EXCEPT ![k].pc = next]
    /\ UNCHANGED <<parent, child, canvas, disp, applied, codeChanges>>

CancelCleanupFails(k) ==
    /\ "cleanup" \in Faults
    /\ canceller[k].pc = "cleanup" /\ StillCancelled(k)
    /\ \E n \in Steps : trees' = trees \ {s \in SafeTrees : s < n}
    /\ canceller' = [canceller EXCEPT ![k].pc = "report"]
    /\ UNCHANGED <<parent, child, canvas, disp, applied, codeChanges>>

CancelReports(k) ==
    /\ canceller[k].pc = "report"
    /\ parent' = IF parent.gen = canceller[k].gen
                 THEN [parent EXCEPT !.plan = "cancellation_cleanup_failed"]
                 ELSE parent
    /\ canceller' = [canceller EXCEPT ![k].pc = "done"]
    /\ UNCHANGED <<child, canvas, disp, applied, trees, codeChanges>>

-----------------------------------------------------------------------------
(***************************************************************************)
(* The specification                                                       *)
(***************************************************************************)
Step(c, s) ==
    \/ StepSkips(c, s) \/ StepRefused(c, s) \/ StepClaims(c, s)
    \/ StepDiscarded(c, s) \/ StepSucceeds(c, s) \/ StepFails(c, s)

Callback(c) ==
    \/ CallbackSkipped(c)
    \/ PrepareReuses(c) \/ PrepareReads(c) \/ PrepareCommits(c) \/ PrepareFails(c)
    \/ WaveReads(c) \/ WaveCommits(c) \/ WaveFails(c)
    \/ \E s \in Steps : Step(c, s)
    \/ MergeRepeated(c) \/ MergeFindsFailure(c) \/ MergeSucceeds(c)
    \/ MergeConflicts(c) \/ MergeFails(c)
    \/ FinalizeReturns(c) \/ FinalizeReads(c) \/ FinalizeCommits(c)
    \/ FinalizeFails(c) \/ FinalizeCleans(c) \/ FinalizeCleanupFails(c)

Dispatch(d) ==
    \/ DispatchFindsQueued(d) \/ DispatchBuilds(d) \/ DispatchMismatches(d)
    \/ DispatchPublishes(d) \/ DispatchPublishFails(d) \/ DispatchConfirms(d)
    \/ RetryPersists(d)

Cancel(k) ==
    \/ CancelRevokes(k) \/ CancelCleans(k) \/ CancelCleanupFails(k)
    \/ CancelReports(k)

Next ==
    \/ \E d \in Dispatchers : Callback(d) \/ Dispatch(d) \/ RetryCommits(d)
    \/ \E k \in Cancellers : CancelCommits(k) \/ Cancel(k)

Spec == Init /\ [][Next]_vars

\* Workers and request handlers keep running; nobody has to cancel or retry.
Fairness ==
    /\ \A d \in Dispatchers : WF_vars(Callback(d)) /\ WF_vars(Dispatch(d))
    /\ \A c \in Dispatchers, s \in Steps : WF_vars(Step(c, s))
    /\ \A k \in Cancellers : WF_vars(Cancel(k))

FairSpec == Spec /\ Fairness

-----------------------------------------------------------------------------
(***************************************************************************)
(* Properties                                                              *)
(***************************************************************************)
\* (Written out rather than with Complete, which retry decides by.)
Finished(s) == child[s].status = "SUCCESS" /\ child[s].merge \in {"merged", "skipped"}
Working(c, s) == canvas[c].step[s] = "working"
WorkingNow(c, s) == Working(c, s) /\ ~StepFenced(c, s)

\* A parent reported SUCCESS has no step that failed, was cancelled or is
\* still open, and every commit marked merged really is on the integration
\* branch the CodeChange was cut from (finalize_execution looks at none of
\* this: it trusts the chain and the barriers).
SuccessIsComplete ==
    parent.status = "SUCCESS" =>
        \A s \in Steps : Finished(s) /\ (child[s].merge = "merged" => Applied(s))

\* However often a plan is retried, the parent comes to one CodeChange, SUCCESS is
\* never reported without it, and the finalizers that failed on the way left no
\* more CodeChanges than generations were opened (finalize_execution).
OneCodeChange ==
    /\ codeChanges.named = (IF parent.change THEN 1 ELSE 0)
    /\ parent.status = "SUCCESS" => parent.change
    /\ codeChanges.named + codeChanges.orphaned <= parent.gen

\* Finalizers leave no CodeChange that nothing refers to.  (Refuted by one that
\* fails after its flush, and by the retry that makes a second CodeChange: see
\* README.md.)
OneCodeChangeEver == codeChanges.named + codeChanges.orphaned <= 1

\* Task id, generation and claim keep two deliveries from executing the same
\* step in the same generation (execute_step).
OneRunPerGeneration ==
    \A c, d \in Dispatchers, s \in Steps :
        WorkingNow(c, s) /\ WorkingNow(d, s) => c = d

\* A step runs only when every step of the waves before its own is folded in,
\* and the commit its worktree starts from contains their commits.
BaseContainsPredecessors ==
    \A c \in Dispatchers, s \in Steps : WorkingNow(c, s) =>
        \A t \in Steps : WaveOf[t] < WaveOf[s] =>
            /\ Finished(t)
            /\ child[t].commit # None => <<t, child[t].commit>> \in child[s].base

\* No cleanup (of a cancellation, a merge or a finalizer) removes the worktree
\* a current run is working in.
WorktreeKept ==
    \A c \in Dispatchers, s \in Steps : WorkingNow(c, s) => s \in trees

\* A row marked merged belongs to a successful step whose commit is on the
\* integration branch, whatever interrupted merge_wave.
MergedIsApplied ==
    \A s \in Steps :
        child[s].merge = "merged" => child[s].status = "SUCCESS" /\ Applied(s)

\* A conflict is recorded because contents conflict, never because merge_wave
\* picked a commit that the branch already had.
ConflictIsReal == \A s \in Steps : child[s].merge = "conflict" => ~Applied(s)

\* When a successful execution is over, no step worktree is left behind.
NoWorktreeLeft ==
    (/\ parent.status = "SUCCESS"
     /\ \A c \in Dispatchers :
           canvas[c].stage \in {"free", "built", "done", "revoked"})
    => trees \cap Steps = {}

\* The worktrees of a failed execution are kept for diagnosis.
FailedKeepsWorktrees == [][parent.status = "FAILED" => trees \subseteq trees']_vars

\* Cancelling and retrying never throw away finished work: a step that
\* succeeded and was folded in keeps its result for good.
WorkIsKept ==
    [][\A s \in Steps : Finished(s) =>
          /\ child'[s].status = child[s].status
          /\ child'[s].commit = child[s].commit
          /\ child'[s].merge = child[s].merge]_vars

\* Only a retry, which opens a new generation, brings a finished parent back to
\* life, and nothing brings back a successful one.
RevivalNeedsRetry ==
    [][IsTerminal /\ parent'.status \notin Terminal =>
          parent'.gen = parent.gen + 1 /\ parent.status # "SUCCESS"]_vars

\* A callback of an older generation changes neither a row, nor the integration
\* branch, nor a worktree.
OldGenerationIsInert ==
    [][\A c \in Dispatchers : Callback(c) /\ ~Current(c) =>
          UNCHANGED <<parent, child, applied, trees, codeChanges>>]_vars

\* Two runs never share a step's worktree.  (Refuted when a cancellation does
\* not reach the worker and a retry follows: see README.md.)
ExclusiveWorktree ==
    \A c, d \in Dispatchers, s \in Steps : Working(c, s) /\ Working(d, s) => c = d

\* The chain ends in the finalizer, and whatever happens before, the parent in a
\* terminal status: it never stays in another one for good.
Converges == []<>IsTerminal

=============================================================================

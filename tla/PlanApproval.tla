----------------------------- MODULE PlanApproval -----------------------------
(***************************************************************************)
(* One orchestrator task from the user's message to the dispatch of its    *)
(* canvas: the run message plans and interrupts for approval, the user     *)
(* confirms, a resume message enters the graph where it was interrupted    *)
(* and dispatches, and cancel requests come at any time.  The execution    *)
(* itself is OrchestratorExecution's; here it ends or is cancelled.        *)
(*                                                                         *)
(* The API is one process whose handlers do not wait between their reads   *)
(* and commits, so that requests exclude each other (api); Celery workers  *)
(* interleave with them and with each other.  No handler of this part      *)
(* locks the row.  An assignment is written to the database only if it     *)
(* differs from what the session loaded (Written).                         *)
(***************************************************************************)
EXTENDS Naturals, FiniteSets

CONSTANTS
    Plans, Keys,    \* what the planner may answer, and its step keys
    KeysOf,         \* the steps of each plan
    Run,            \* the message of run_orchestrator_task
    Confirms,       \* confirm requests, each with its resume message
    Cancels,        \* cancel requests
    Faults,         \* "publish": the broker refuses a message
    Losable,        \* messages whose worker may be lost
    MaxLosses,      \* bound on lost workers
    None

ASSUME ApprovalAssumption ==
    /\ KeysOf \in [Plans -> SUBSET Keys]
    /\ Run \notin Confirms /\ Confirms \cap Cancels = {}
    /\ None \notin Plans \cup Confirms \cup Cancels \cup {Run}
    /\ Losable \subseteq Confirms \cup {Run} /\ MaxLosses \in Nat

VARIABLES
    row,        \* the orchestrator's Task row
    child,      \* its children's rows, by step key
    thread,     \* the checkpoint of its LangGraph thread
    worker,     \* what became of each Celery message
    api,        \* the request the API process is working on, and what it read
    revoked,    \* messages that were revoked
    canvases,   \* canvases that were published
    approved,   \* plans the user has confirmed
    losses      \* lost workers so far

vars == <<row, child, thread, worker, api, revoked, canvases, approved, losses>>

Messages == {Run} \cup Confirms
Status == {"PENDING", "RUNNING", "SUCCESS", "FAILED", "CANCELLED"}
Terminal == {"SUCCESS", "FAILED", "CANCELLED"}
Row == [status : Status,
        plan : {"planning", "awaiting_confirmation", "confirmed",
                "dispatch_prepared", "dispatch_queued", "dispatch_failed",
                "executed", "execution_failed"},
        steps : Plans \cup {None},
        gen : Nat,                             \* execution_generation
        celery : Messages \cup {None}]         \* celery_task_id
Working == {"entered", "planner", "children", "dispatcher", "checkpoint", "return"}
Worker == [pc : {"idle", "unsent", "queued", "done"} \cup Working,
           saw : Status,              \* the status its session holds
           node : Status,             \* the status plan_node's session holds
           plan : Plans \cup {None},
           todo : SUBSET Keys,        \* children still to be created
           result : {"none", "awaiting", "dispatched", "other"}]
Thread == [at : {"new", "planner", "approval", "dispatcher", "end"},
           dispatched : BOOLEAN]

TypeOK ==
    /\ row \in Row
    /\ child \in [Keys -> {"none", "PENDING", "CANCELLED"}]
    /\ thread \in Thread
    /\ worker \in [Messages -> Worker]
    /\ api \in [request : Confirms \cup Cancels \cup {None}, row : Row,
                pc : {"commit", "publish"}]
    /\ revoked \subseteq Messages
    /\ canvases \subseteq [gen : Nat, steps : Plans]
    /\ approved \subseteq Plans
    /\ losses \in 0..MaxLosses

NewRow == [status |-> "PENDING", plan |-> "planning", steps |-> None,
           gen |-> 0, celery |-> None]
NoRequest == [request |-> None, row |-> NewRow, pc |-> "commit"]

Init ==
    /\ row = NewRow
    /\ child = [k \in Keys |-> "none"]
    /\ thread = [at |-> "new", dispatched |-> FALSE]
    /\ worker = [m \in Messages |->
                   [pc |-> "idle", saw |-> "PENDING", node |-> "PENDING",
                    plan |-> None, todo |-> {}, result |-> "none"]]
    /\ api = NoRequest
    /\ revoked = {} /\ canvases = {} /\ approved = {} /\ losses = 0

Written(loaded, new) == IF loaded = new THEN row.status ELSE new
Idle == api.request = None
Moves(m, pc) == worker' = [worker EXCEPT ![m].pc = pc]

-----------------------------------------------------------------------------
(* Requests *)

\* create_message has committed the task and awaited its broadcast.
MessagePublishes ==
    /\ Idle /\ worker[Run].pc = "idle"
    /\ Moves(Run, "queued")
    /\ row' = [row EXCEPT !.celery = Run]
    /\ UNCHANGED <<child, thread, api, revoked, canvases, approved, losses>>

MessagePublishFails ==
    /\ "publish" \in Faults /\ Idle /\ worker[Run].pc = "idle"
    /\ Moves(Run, "unsent")
    /\ UNCHANGED <<row, child, thread, api, revoked, canvases, approved, losses>>

ConfirmReads(c) ==
    /\ Idle /\ worker[c].pc = "idle" /\ row.plan = "awaiting_confirmation"
    /\ api' = [request |-> c, row |-> row, pc |-> "commit"]
    /\ UNCHANGED <<row, child, thread, worker, revoked, canvases, approved, losses>>

\* All of metadata_json is written back.
ConfirmCommits(c) ==
    /\ api.request = c /\ api.pc = "commit"
    /\ row' = [row EXCEPT !.status = Written(api.row.status, "PENDING"),
                          !.plan = "confirmed", !.steps = api.row.steps,
                          !.gen = api.row.gen]
    /\ approved' = approved \cup {api.row.steps}
    /\ api' = [api EXCEPT !.pc = "publish"]
    /\ UNCHANGED <<child, thread, worker, revoked, canvases, losses>>

ConfirmPublishes(c) ==
    /\ api.request = c /\ api.pc = "publish"
    /\ Moves(c, "queued")
    /\ row' = [row EXCEPT !.celery = c]
    /\ api' = NoRequest
    /\ UNCHANGED <<child, thread, revoked, canvases, approved, losses>>

ConfirmPublishFails(c) ==
    /\ "publish" \in Faults /\ api.request = c /\ api.pc = "publish"
    /\ Moves(c, "unsent")
    /\ api' = NoRequest
    /\ UNCHANGED <<row, child, thread, revoked, canvases, approved, losses>>

IsOrchestrator == row.gen > 0 \/ row.plan \notin {"planning",
                                    "awaiting_confirmation", "confirmed"}
Cancellable == row.status \in {"PENDING", "RUNNING"}

\* Before the dispatch: revoke, then commit.
CancelRevokes(x) ==
    /\ Idle /\ Cancellable /\ ~IsOrchestrator
    /\ api' = [request |-> x, row |-> row, pc |-> "commit"]
    /\ revoked' = revoked \cup ({row.celery} \ {None})
    /\ UNCHANGED <<row, child, thread, worker, canvases, approved, losses>>

CancelCommits(x) ==
    /\ api.request = x /\ api.pc = "commit"
    /\ row' = [row EXCEPT !.status = "CANCELLED"]
    /\ child' = [k \in Keys |-> IF child[k] = "PENDING" THEN "CANCELLED"
                                                        ELSE child[k]]
    /\ api' = NoRequest
    /\ UNCHANGED <<thread, worker, revoked, canvases, approved, losses>>

\* From the dispatch on: cancel_orchestrator, under the row lock.
CancelExecution(x) ==
    /\ Idle /\ Cancellable /\ IsOrchestrator
    /\ row' = [row EXCEPT !.status = "CANCELLED", !.gen = @ + 1]
    /\ child' = [k \in Keys |-> IF child[k] = "PENDING" THEN "CANCELLED"
                                                        ELSE child[k]]
    /\ revoked' = revoked \cup ({row.celery} \ {None})
    /\ UNCHANGED <<thread, worker, api, canvases, approved, losses>>

-----------------------------------------------------------------------------
(* Workers *)

\* Both tasks set RUNNING whatever they find, and read the row again.
Starts(m) ==
    /\ worker[m].pc = "queued"
    /\ row' = [row EXCEPT !.status = "RUNNING"]
    /\ Moves(m, "entered")
    /\ UNCHANGED <<child, thread, api, revoked, canvases, approved, losses>>

\* ainvoke with an initial state starts the graph again; with Command(resume)
\* it goes on where the thread stopped, and from the approval on as approved.
\* Mutants: the resume does not count as approval; it opens another thread.
NodeAgain(m) == IF m = Run THEN "planner"
                ELSE IF thread.at = "approval" THEN "end" ELSE thread.at
NodeElsewhere(m) == IF m = Run THEN "planner" ELSE "new"
Node(m) == CASE m = Run -> "planner"
             [] m # Run /\ thread.at = "approval" -> "dispatcher"
             [] OTHER -> thread.at

Enters(m) ==
    /\ worker[m].pc = "entered"
    /\ thread' = [thread EXCEPT !.at = Node(m)]
    /\ worker' = [worker EXCEPT
                    ![m].saw = row.status,
                    ![m].pc = IF Node(m) = "end" THEN "return" ELSE Node(m),
                    ![m].result = IF Node(m) # "end" THEN "none"
                                  ELSE IF thread.dispatched THEN "dispatched"
                                  ELSE "other"]
    /\ UNCHANGED <<row, child, api, revoked, canvases, approved, losses>>

\* The model answers, and plan_node opens a session of its own.
Thinks(m) ==
    /\ worker[m].pc = "planner"
    /\ \E p \in Plans :
         worker' = [worker EXCEPT ![m].pc = "children", ![m].node = row.status,
                                  ![m].plan = p, ![m].todo = KeysOf[p]]
    /\ UNCHANGED <<row, child, thread, api, revoked, canvases, approved, losses>>

\* create_subtask commits each child; the index on (parent, step key) is unique.
CreatesChild(m) ==
    /\ worker[m].pc = "children"
    /\ \E k \in worker[m].todo :
         /\ child[k] = "none"
         /\ child' = [child EXCEPT ![k] = "PENDING"]
         /\ worker' = [worker EXCEPT ![m].todo = @ \ {k}]
    /\ UNCHANGED <<row, thread, api, revoked, canvases, approved, losses>>

\* Mutant: the plan is recorded before its children.
PlannedEarly(m) == worker[m].pc = "children"
Planned(m) == worker[m].pc = "children" /\ worker[m].todo = {}

\* approval_node interrupts the graph.
\* Mutant: it does not.
AfterPlanningOn == [node |-> "dispatcher", pc |-> "dispatcher"]
AfterPlanning == [node |-> "approval", pc |-> "return"]

\* The metadata is replaced, the generation with it.
RecordsPlan(m) ==
    /\ Planned(m)
    /\ row' = [row EXCEPT !.status = Written(worker[m].node, "PENDING"),
                          !.plan = "awaiting_confirmation",
                          !.steps = worker[m].plan, !.gen = 0]
    /\ thread' = [at |-> AfterPlanning.node, dispatched |-> FALSE]
    /\ worker' = [worker EXCEPT ![m].pc = AfterPlanning.pc,
                                ![m].result = "awaiting", ![m].todo = {}]
    /\ UNCHANGED <<child, api, revoked, canvases, approved, losses>>

Dispatching(m) == worker[m].pc = "dispatcher"
Answers(m, result) ==
    worker' = [worker EXCEPT ![m].pc = "checkpoint", ![m].result = result]

\* dispatch_orchestrator_execution finds what another call has queued.
DispatchRepeats(m) ==
    /\ Dispatching(m) /\ row.plan = "dispatch_queued"
    /\ Answers(m, "dispatched")
    /\ UNCHANGED <<row, child, thread, api, revoked, canvases, approved, losses>>

\* It builds the canvas of the plan it finds in the row and publishes it; its
\* second transaction skips a row that is terminal.
Generation == IF row.gen = 0 THEN 1 ELSE row.gen

Dispatches(m) ==
    /\ Dispatching(m) /\ row.plan # "dispatch_queued"
    /\ \A k \in KeysOf[row.steps] : child[k] # "none"
    /\ canvases' = canvases \cup {[gen |-> Generation, steps |-> row.steps]}
    /\ row' = [row EXCEPT !.gen = Generation,
                          !.plan = IF row.status \in Terminal
                                   THEN "dispatch_prepared" ELSE "dispatch_queued"]
    /\ Answers(m, IF row.status \in Terminal THEN "other" ELSE "dispatched")
    /\ UNCHANGED <<child, thread, api, revoked, approved, losses>>

\* The graph is at its end.
Checkpoints(m) ==
    /\ worker[m].pc = "checkpoint"
    /\ thread' = [at |-> "end", dispatched |-> worker[m].result = "dispatched"]
    /\ Moves(m, "return")
    /\ UNCHANGED <<row, child, api, revoked, canvases, approved, losses>>

\* The planner's handler writes PENDING, that of a resume RUNNING, if the row
\* they read in the beginning had another status.
\* Mutant: the row is written back as it was read.
LateStale(m) == IF worker[m].result = "none" THEN row.status ELSE worker[m].saw
Late(m) == CASE m = Run /\ worker[m].result = "awaiting" ->
                  Written(worker[m].saw, "PENDING")
             [] m # Run /\ worker[m].result = "dispatched" ->
                  Written(worker[m].saw, "RUNNING")
             [] OTHER -> row.status

Returns(m) ==
    /\ worker[m].pc = "return"
    /\ row' = [row EXCEPT !.status = Late(m)]
    /\ Moves(m, "done")
    /\ UNCHANGED <<child, thread, api, revoked, canvases, approved, losses>>

\* The model fails or times out, or a child of that key exists.
Fails(m) ==
    /\ worker[m].pc \in {"planner", "children"}
    /\ row' = [row EXCEPT !.status = "FAILED"]
    /\ Moves(m, "done")
    /\ UNCHANGED <<child, thread, api, revoked, canvases, approved, losses>>

\* A revoked message is discarded, or its handler killed; a worker that the
\* broadcast misses does neither.
Killed(m) ==
    /\ m \in revoked /\ worker[m].pc \in Working \cup {"queued"}
    /\ Moves(m, "done")
    /\ UNCHANGED <<row, child, thread, api, revoked, canvases, approved, losses>>

\* The message of a lost worker is delivered again.
Lost(m) ==
    /\ m \in Losable /\ losses < MaxLosses /\ worker[m].pc \in Working
    /\ losses' = losses + 1
    /\ Moves(m, "queued")
    /\ UNCHANGED <<row, child, thread, api, revoked, canvases, approved>>

\* The execution of the current generation succeeds or fails.
Live == {c \in canvases : c.gen = row.gen}
ExecutionEnds ==
    /\ Live # {} /\ row.status \notin Terminal
    /\ row.plan \in {"dispatch_prepared", "dispatch_queued"}
    /\ \/ row' = [row EXCEPT !.status = "SUCCESS", !.plan = "executed"]
       \/ row' = [row EXCEPT !.status = "FAILED", !.plan = "execution_failed"]
    /\ UNCHANGED <<child, thread, worker, api, revoked, canvases, approved, losses>>

Requests ==
    \/ MessagePublishes \/ MessagePublishFails
    \/ \E c \in Confirms : \/ ConfirmReads(c) \/ ConfirmCommits(c)
                           \/ ConfirmPublishes(c) \/ ConfirmPublishFails(c)
    \/ \E x \in Cancels : CancelRevokes(x) \/ CancelCommits(x) \/ CancelExecution(x)

Handler(m) ==
    \/ Starts(m) \/ Enters(m) \/ Thinks(m) \/ CreatesChild(m) \/ RecordsPlan(m)
    \/ DispatchRepeats(m) \/ Dispatches(m) \/ Checkpoints(m)
    \/ Returns(m) \/ Fails(m)

Next ==
    \/ Requests
    \/ \E m \in Messages : Handler(m) \/ Killed(m) \/ Lost(m)
    \/ ExecutionEnds

Spec == Init /\ [][Next]_vars

\* Workers run, and the API finishes what it began; nobody has to confirm.
Fairness ==
    /\ WF_vars(MessagePublishes \/ MessagePublishFails)
    /\ \A m \in Messages : WF_vars(Handler(m))
    /\ \A c \in Confirms : WF_vars(\/ ConfirmCommits(c) \/ ConfirmPublishes(c)
                                   \/ ConfirmPublishFails(c))
    /\ \A x \in Cancels : WF_vars(CancelCommits(x))
    /\ WF_vars(ExecutionEnds)
FairSpec == Spec /\ Fairness


-----------------------------------------------------------------------------
(* Properties *)

\* A status that is terminal stays so.  (Refuted by the unconditional writes
\* above: see README.md.)
TerminalStays == [][row.status \in Terminal => row'.status = row.status]_vars

Quiet == Idle /\ \A m \in Messages : worker[m].pc \in {"idle", "unsent", "done"}

\* A canvas runs a plan that the user has confirmed, and no other.
ApprovedRuns == \A c \in canvases : c.steps \in approved

\* A plan that is recorded has all of its children.
StepsHaveChildren ==
    row.steps # None => \A k \in KeysOf[row.steps] : child[k] # "none"

\* When everybody has finished, a plan that awaits its confirmation does so as
\* PENDING (or was cancelled): the planner's last write is never lost.
AwaitingIsPending ==
    Quiet /\ row.plan = "awaiting_confirmation"
        => row.status \in {"PENDING", "CANCELLED"}

\* No task stays RUNNING with nobody to run it.  (A worker killed by a
\* revocation and one that is delivered again may leave it so: see README.md.)
RunningIsRun ==
    row.status = "RUNNING" /\ revoked = {} /\ losses = 0 => ~Quiet \/ Live # {}

\* A confirmed plan is dispatched or fails, unless it is revoked or the broker
\* refuses the resume message.
ConfirmedProceeds ==
    row.plan = "confirmed" ~> \/ canvases # {} \/ row.status = "FAILED"
                              \/ revoked # {}
                              \/ \E c \in Confirms : worker[c].pc = "unsent"

=============================================================================

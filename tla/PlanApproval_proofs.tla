------------------------- MODULE PlanApproval_proofs -------------------------
(***************************************************************************)
(* Theorems of PlanApproval, for any plans, any number of confirm and      *)
(* cancel requests and any losses: type correctness, and that a plan that  *)
(* runs has its children; as long as the planning message is not delivered *)
(* twice, that only confirmed plans run, and that a plan which waits for   *)
(* its confirmation is PENDING once all is quiet.                          *)
(***************************************************************************)
EXTENDS PlanApproval, TLAPS

Engaged(c) == worker[c].pc # "idle" \/ api.request = c

\* A request to confirm, and its resume message, find a plan and a thread.
ThreadReady ==
    /\ \A c \in Confirms : Engaged(c) => row.plan # "planning"
    /\ row.plan # "planning" => thread.at # "new" /\ row.steps # None
    /\ api.request \in Confirms => api.row.steps # None
    /\ worker[Run].pc # "dispatcher"
    /\ \A m \in Messages : worker[m].pc = "children" => worker[m].plan # None

ReadyInv == TypeOK /\ ThreadReady

\* Once a plan is recorded nobody plans any more; what was read to be confirmed
\* is what is recorded, and what has been confirmed stays recorded.
PlannedOnce ==
    row.plan # "planning" =>
        /\ worker[Run].pc \in {"return", "done"}
        /\ thread.at \in {"approval", "dispatcher", "end"}
        /\ \A c \in Confirms : worker[c].pc \notin {"planner", "children"}
Confirmed(c) == worker[c].pc # "idle" \/ (api.request = c /\ api.pc = "publish")
ConfirmedIsRecorded ==
    /\ \A c \in Confirms : Confirmed(c) => row.steps \in approved
    /\ api.request \in Confirms => api.row.steps = row.steps

ApprovalInv == ReadyInv /\ PlannedOnce /\ ConfirmedIsRecorded /\ ApprovedRuns

-----------------------------------------------------------------------------
(* Types *)

\* The initial state: nothing is planned, published or requested.
LEMMA InitReady == Init => ReadyInv
  BY ApprovalAssumption, SMTT(30)
  DEF Init, ReadyInv, TypeOK, ThreadReady, Engaged, NewRow, NoRequest, Row,
      Worker, Thread, Messages, Status, Working

\* The API's actions keep the types and the readiness of the thread.
LEMMA RequestsReady == ReadyInv /\ Requests => ReadyInv'
<1> SUFFICES ASSUME ReadyInv, Requests PROVE ReadyInv'
  OBVIOUS
<1> USE ApprovalAssumption
    DEF ReadyInv, TypeOK, ThreadReady, Engaged, Messages, Moves, Idle
<1>1. CASE MessagePublishes
  BY <1>1 DEF MessagePublishes, Row, Worker
<1>2. CASE MessagePublishFails
  BY <1>2 DEF MessagePublishFails, Worker
<1>3. ASSUME NEW c \in Confirms, ConfirmReads(c) PROVE ReadyInv'
  BY <1>3 DEF ConfirmReads, Row
<1>4. ASSUME NEW c \in Confirms, ConfirmCommits(c) PROVE ReadyInv'
  BY <1>4 DEF ConfirmCommits, Row, Written, Status
<1>5. ASSUME NEW c \in Confirms, ConfirmPublishes(c) PROVE ReadyInv'
  BY <1>5 DEF ConfirmPublishes, Row, Worker, NoRequest, NewRow, Status
<1>6. ASSUME NEW c \in Confirms, ConfirmPublishFails(c) PROVE ReadyInv'
  BY <1>6 DEF ConfirmPublishFails, Row, Worker, NoRequest, NewRow, Status
<1>7. ASSUME NEW x \in Cancels, CancelRevokes(x) PROVE ReadyInv'
  <2>1. row.celery \in Messages \cup {None}
    BY DEF Row
  <2>2. api' \in [request : Confirms \cup Cancels \cup {None}, row : Row,
                 pc : {"commit", "publish"}]
    BY <1>7 DEF CancelRevokes
  <2> QED
    BY <1>7, <2>1, <2>2 DEF CancelRevokes
<1>8. ASSUME NEW x \in Cancels, CancelCommits(x) PROVE ReadyInv'
  BY <1>8 DEF CancelCommits, Row, NoRequest, NewRow, Status
<1>9. ASSUME NEW x \in Cancels, CancelExecution(x) PROVE ReadyInv'
  <2>1. row' \in Row /\ row'.plan = row.plan /\ row'.steps = row.steps
    <3>1. row.gen + 1 \in Nat /\ "CANCELLED" \in Status
      BY DEF Row, Status
    <3>2. row' = [row EXCEPT !.status = "CANCELLED", !.gen = row.gen + 1]
      BY <1>9 DEF CancelExecution
    <3> QED
      BY <3>1, <3>2 DEF Row
  <2>2. row.celery \in Messages \cup {None}
    BY DEF Row
  <2>3. child' \in [Keys -> {"none", "PENDING", "CANCELLED"}]
    BY <1>9 DEF CancelExecution
  <2> QED
    BY <1>9, <2>1, <2>2, <2>3 DEF CancelExecution
<1> QED
  BY <1>1, <1>2, <1>3, <1>4, <1>5, <1>6, <1>7, <1>8, <1>9 DEF Requests

\* So do the workers'.
LEMMA WorkersReady ==
    ASSUME NEW m \in Messages, ReadyInv, Handler(m) \/ Killed(m) \/ Lost(m)
    PROVE  ReadyInv'
<1> USE ApprovalAssumption
    DEF ReadyInv, TypeOK, ThreadReady, Engaged, Messages, Moves
<1>1. CASE Starts(m)
  BY <1>1 DEF Starts, Row, Worker, Working, Status
<1>2. CASE Enters(m)
  BY <1>2 DEF Enters, Node, Row, Worker, Working, Thread
<1>3. CASE Thinks(m)
  <2>1. PICK p \in Plans :
          worker' = [worker EXCEPT ![m].pc = "children", ![m].node = row.status,
                                   ![m].plan = p, ![m].todo = KeysOf[p]]
    BY <1>3 DEF Thinks
  <2>2. KeysOf[p] \in SUBSET Keys /\ row.status \in Status
    BY DEF Row
  <2>3. worker'[m] = [worker[m] EXCEPT !.pc = "children", !.node = row.status,
                                       !.plan = p, !.todo = KeysOf[p]]
    BY <2>1
  <2>4. worker'[m] \in Worker
    <3>1. worker[m] \in Worker
      OBVIOUS
    <3> QED
      BY <2>2, <2>3, <3>1 DEF Worker, Working
  <2>5. worker' \in [Messages -> Worker]
    BY <2>1, <2>4
  <2>6. worker'[m].pc = "children" /\ worker'[m].plan # None
    <3>1. worker[m] \in Worker
      OBVIOUS
    <3> QED
      BY <2>3, <3>1 DEF Worker
  <2>7. \A n \in Messages \ {m} : worker'[n] = worker[n]
    BY <2>1
  <2>8. UNCHANGED <<row, child, thread, api, revoked, canvases, approved, losses>>
    BY <1>3 DEF Thinks
  <2>9. \A c \in Confirms : Engaged(c)' => Engaged(c)
    BY <1>3, <2>7, <2>8 DEF Thinks
  <2> QED
    BY <2>5, <2>6, <2>7, <2>8, <2>9
<1>4. CASE CreatesChild(m)
  BY <1>4 DEF CreatesChild, Row, Worker, Working
<1>5. CASE RecordsPlan(m)
  <2>1. worker[m] \in Worker /\ worker[m].pc = "children"
    BY <1>5 DEF RecordsPlan, Planned
  <2>2. worker[m].plan # None
    BY <2>1
  <2>3. row' \in Row /\ row'.steps # None
    BY <1>5, <2>1, <2>2 DEF RecordsPlan, Written, Row, Worker, Status
  <2>4. worker' \in [Messages -> Worker] /\ worker'[m].pc = "return"
    BY <1>5, <2>1 DEF RecordsPlan, AfterPlanning, Worker, Working
  <2>5. thread' \in Thread /\ thread'.at = "approval"
    BY <1>5 DEF RecordsPlan, AfterPlanning, Thread
  <2> QED
    BY <1>5, <2>1, <2>3, <2>4, <2>5 DEF RecordsPlan
<1>6. CASE DispatchRepeats(m)
  BY <1>6 DEF DispatchRepeats, Dispatching, Answers, Worker, Working
<1>7. CASE Dispatches(m)
  <2>1. m \in Confirms /\ row.plan # "planning" /\ row.steps \in Plans
    BY <1>7 DEF Dispatches, Dispatching, Row
  <2>2. Generation \in Nat
    BY DEF Generation, Row
  <2>3. canvases' \subseteq [gen : Nat, steps : Plans]
    BY <1>7, <2>1, <2>2 DEF Dispatches
  <2>4. row' \in Row /\ row'.plan # "planning" /\ row'.steps = row.steps
    BY <1>7, <2>2 DEF Dispatches, Row
  <2>5. worker' \in [Messages -> Worker] /\ worker'[m].pc = "checkpoint"
    BY <1>7 DEF Dispatches, Answers, Worker, Working
  <2> QED
    BY <1>7, <2>1, <2>3, <2>4, <2>5 DEF Dispatches, Answers
<1>8. CASE Checkpoints(m)
  BY <1>8 DEF Checkpoints, Worker, Working, Thread
<1>9. CASE Returns(m)
  BY <1>9 DEF Returns, Late, Written, Row, Worker, Working, Status
<1>10. CASE Fails(m)
  BY <1>10 DEF Fails, Row, Worker, Working, Status
<1>11. CASE Killed(m)
  BY <1>11 DEF Killed, Worker, Working
<1>12. CASE Lost(m)
  BY <1>12 DEF Lost, Worker, Working
<1> QED
  BY <1>1, <1>2, <1>3, <1>4, <1>5, <1>6, <1>7, <1>8, <1>9, <1>10, <1>11, <1>12
  DEF Handler

\* And the end of the execution, and a stuttering step.
LEMMA RestReady == ReadyInv /\ (ExecutionEnds \/ UNCHANGED vars) => ReadyInv'
<1> SUFFICES ASSUME ReadyInv, ExecutionEnds \/ UNCHANGED vars PROVE ReadyInv'
  OBVIOUS
<1> USE DEF ReadyInv, TypeOK, ThreadReady, Engaged
<1>1. CASE ExecutionEnds
  <2>1. row' \in Row /\ row'.plan # "planning" /\ row'.steps = row.steps
        /\ row.plan # "planning"
    BY <1>1 DEF ExecutionEnds, Row, Status
  <2> QED
    BY <1>1, <2>1 DEF ExecutionEnds
<1>2. CASE UNCHANGED vars
  BY <1>2 DEF vars
<1> QED
  BY <1>1, <1>2

\* Type correctness: every write of the requests and of the workers, in any
\* order and with any message delivered again, leaves rows, threads and
\* messages that the handlers can read (agent_tasks.py, graph/nodes.py).
THEOREM TypeCorrect == Spec => []TypeOK
<1>1. Init => ReadyInv
  BY InitReady
<1>2. ReadyInv /\ [Next]_vars => ReadyInv'
  BY RequestsReady, WorkersReady, RestReady DEF Next
<1>3. ReadyInv => TypeOK
  BY DEF ReadyInv
<1> QED
  BY <1>1, <1>2, <1>3, PTL DEF Spec

-----------------------------------------------------------------------------
(* Approval *)

Kept == PlannedOnce /\ ConfirmedIsRecorded /\ ApprovedRuns

\* Of the requests only a confirmation concerns the plan, and it records and
\* approves the one it has read.
LEMMA RequestsKeep == ApprovalInv /\ Requests => Kept'
<1> SUFFICES ASSUME ApprovalInv, Requests PROVE Kept'
  OBVIOUS
<1> USE ApprovalAssumption
    DEF ApprovalInv, ReadyInv, ThreadReady, Engaged, Kept, PlannedOnce,
        ConfirmedIsRecorded, Confirmed, ApprovedRuns, Moves, Idle, Messages
<1>0. worker \in [Messages -> Worker] /\ row \in Row
  BY DEF TypeOK
<1>1. CASE MessagePublishes
  BY <1>0, <1>1 DEF MessagePublishes, Row, Worker
<1>2. CASE MessagePublishFails
  BY <1>0, <1>2 DEF MessagePublishFails, Worker
<1>3. ASSUME NEW c \in Confirms, ConfirmReads(c) PROVE Kept'
  BY <1>0, <1>3 DEF ConfirmReads
<1>4. ASSUME NEW c \in Confirms, ConfirmCommits(c) PROVE Kept'
  BY <1>0, <1>4 DEF ConfirmCommits, Row
<1>5. ASSUME NEW c \in Confirms, ConfirmPublishes(c) PROVE Kept'
  BY <1>0, <1>5 DEF ConfirmPublishes, NoRequest, Row, Worker
<1>6. ASSUME NEW c \in Confirms, ConfirmPublishFails(c) PROVE Kept'
  BY <1>0, <1>6 DEF ConfirmPublishFails, NoRequest, Worker
<1>7. ASSUME NEW x \in Cancels, CancelRevokes(x) PROVE Kept'
  BY <1>0, <1>7 DEF CancelRevokes
<1>8. ASSUME NEW x \in Cancels, CancelCommits(x) PROVE Kept'
  BY <1>0, <1>8 DEF CancelCommits, NoRequest, Row
<1>9. ASSUME NEW x \in Cancels, CancelExecution(x) PROVE Kept'
  <2>1. row'.plan = row.plan /\ row'.steps = row.steps
    BY <1>0, <1>9 DEF CancelExecution, Row
  <2> QED
    BY <1>9, <2>1 DEF CancelExecution
<1> QED
  BY <1>1, <1>2, <1>3, <1>4, <1>5, <1>6, <1>7, <1>8, <1>9 DEF Requests

\* Nobody plans again once a plan is recorded, unless the planning message is
\* delivered again; a resume message finds the plan it confirmed.
LEMMA WorkersKeep ==
    ASSUME Run \notin Losable, NEW m \in Messages,
           ApprovalInv, Handler(m) \/ Killed(m) \/ Lost(m)
    PROVE  Kept'
<1> USE ApprovalAssumption
    DEF ApprovalInv, ReadyInv, ThreadReady, Engaged, Kept, PlannedOnce,
        ConfirmedIsRecorded, Confirmed, ApprovedRuns, Moves, Messages
<1>0. worker \in [Messages -> Worker] /\ row \in Row /\ thread \in Thread
  BY DEF TypeOK
<1>1. CASE Starts(m)
  BY <1>0, <1>1 DEF Starts, Row, Worker
<1>2. CASE Enters(m)
  BY <1>0, <1>2 DEF Enters, Node, Worker, Thread
<1>3. CASE Thinks(m)
  BY <1>0, <1>3 DEF Thinks, Worker
<1>4. CASE CreatesChild(m)
  BY <1>0, <1>4 DEF CreatesChild, Worker
<1>5. CASE RecordsPlan(m)
  BY <1>0, <1>5 DEF RecordsPlan, Planned, AfterPlanning, Row, Worker, Thread
<1>6. CASE DispatchRepeats(m)
  BY <1>0, <1>6 DEF DispatchRepeats, Dispatching, Answers, Worker
<1>7. CASE Dispatches(m)
  BY <1>0, <1>7 DEF Dispatches, Dispatching, Answers, Row, Worker
<1>8. CASE Checkpoints(m)
  BY <1>0, <1>8 DEF Checkpoints, Worker, Thread
<1>9. CASE Returns(m)
  BY <1>0, <1>9 DEF Returns, Row, Worker
<1>10. CASE Fails(m)
  BY <1>0, <1>10 DEF Fails, Row, Worker
<1>11. CASE Killed(m)
  BY <1>0, <1>11 DEF Killed, Worker, Working
<1>12. CASE Lost(m)
  BY <1>0, <1>12 DEF Lost, Worker, Working
<1> QED
  BY <1>1, <1>2, <1>3, <1>4, <1>5, <1>6, <1>7, <1>8, <1>9, <1>10, <1>11, <1>12
  DEF Handler

\* The end of the execution changes no plan.
LEMMA RestKeeps == ApprovalInv /\ (ExecutionEnds \/ UNCHANGED vars) => Kept'
<1> SUFFICES ASSUME ApprovalInv, ExecutionEnds \/ UNCHANGED vars PROVE Kept'
  OBVIOUS
<1> USE DEF ApprovalInv, ReadyInv, ThreadReady, Engaged, Kept, PlannedOnce,
            ConfirmedIsRecorded, Confirmed, ApprovedRuns
<1>1. CASE ExecutionEnds
  BY <1>1 DEF ExecutionEnds, TypeOK, Row
<1>2. CASE UNCHANGED vars
  BY <1>2 DEF vars
<1> QED
  BY <1>1, <1>2

\* The invariant of the approval holds initially, and every step keeps it.
LEMMA InitApproval == Init => ApprovalInv
<1>1. Init => Kept
  BY ApprovalAssumption
  DEF Init, Kept, PlannedOnce, ConfirmedIsRecorded, Confirmed, ApprovedRuns,
      NewRow, NoRequest, Messages
<1> QED
  BY <1>1, InitReady DEF ApprovalInv, Kept

LEMMA NextApproval ==
    Run \notin Losable /\ ApprovalInv /\ [Next]_vars => ApprovalInv'
<1>1. ApprovalInv /\ [Next]_vars => ReadyInv'
  BY RequestsReady, WorkersReady, RestReady DEF Next, ApprovalInv
<1>2. Run \notin Losable /\ ApprovalInv /\ [Next]_vars => Kept'
  BY RequestsKeep, WorkersKeep, RestKeeps DEF Next
<1> QED
  BY <1>1, <1>2 DEF ApprovalInv, Kept

\* Nothing runs that the user has not confirmed: the canvas that
\* dispatch_orchestrator_execution publishes is that of a plan on which a
\* confirm request was answered, if run_orchestrator_task is not delivered
\* twice (orchestrator_dispatch_service.py, api/tasks.py).
THEOREM ApprovedRunsAlways ==
    ASSUME Run \notin Losable PROVE Spec => []ApprovedRuns
<1>1. ApprovalInv => ApprovedRuns
  BY DEF ApprovalInv
<1> QED
  BY <1>1, InitApproval, NextApproval, PTL DEF Spec

-----------------------------------------------------------------------------
(* A recorded plan *)

\* Children are never taken back: what has been created of a plan that is worked
\* out, recorded or read by a request is there.
Created(p) == p # None => \A k \in KeysOf[p] : child[k] # "none"
ChildrenInv ==
    /\ TypeOK /\ Created(row.steps) /\ Created(api.row.steps)
    /\ \A m \in Messages : worker[m].pc = "children" =>
         worker[m].plan # None
         /\ \A k \in KeysOf[worker[m].plan] \ worker[m].todo : child[k] # "none"

\* Every step keeps the children of the plans that are known.
LEMMA StepCreates == ReadyInv /\ ChildrenInv /\ [Next]_vars => ChildrenInv'
<1> SUFFICES ASSUME ReadyInv, ChildrenInv, [Next]_vars PROVE ChildrenInv'
  OBVIOUS
<1>0. TypeOK'
  BY RequestsReady, WorkersReady, RestReady DEF Next, ReadyInv
<1>a. worker \in [Messages -> Worker] /\ row \in Row /\ child \in [Keys -> {"none", "PENDING", "CANCELLED"}]
      /\ \A p \in Plans : KeysOf[p] \subseteq Keys
  BY ApprovalAssumption DEF ReadyInv, TypeOK
<1>b. row.steps \in Plans \cup {None} /\ api.row.steps \in Plans \cup {None}
      /\ \A m \in Messages : worker[m].plan \in Plans \cup {None}
  BY <1>a DEF ReadyInv, TypeOK, Row, Worker
<1> DEFINE Keep == \A k \in Keys : child[k] # "none" => child'[k] # "none"
           Known == /\ row'.steps \in {row.steps, api.row.steps}
                    /\ api'.row.steps \in {row.steps, api.row.steps, None}
           Crew == \A m \in Messages :
                     worker'[m].pc = "children" =>
                       /\ worker[m].pc = "children" /\ worker'[m].plan = worker[m].plan
                       /\ worker'[m].todo = worker[m].todo
<1>1. ASSUME Keep, Known, Crew PROVE ChildrenInv'
  <2>1. \A p \in Plans \cup {None} : Created(p) => Created(p)'
    BY <1>1, <1>a DEF Created
  <2>2. Created(row.steps)' /\ Created(api.row.steps)'
    BY <1>1, <1>b, <2>1 DEF ChildrenInv, Created
  <2>3. ASSUME NEW m \in Messages, worker'[m].pc = "children"
        PROVE  worker'[m].plan # None
               /\ \A k \in KeysOf[worker'[m].plan] \ worker'[m].todo : child'[k] # "none"
    BY <1>1, <1>a, <1>b, <2>3 DEF ChildrenInv
  <2> QED
    BY <1>0, <2>2, <2>3 DEF ChildrenInv, Created
<1>2. ASSUME Requests PROVE ChildrenInv'
  <2>1. Keep
    BY <1>a, <1>2 DEF Requests, MessagePublishes, MessagePublishFails, ConfirmReads,
       ConfirmCommits, ConfirmPublishes, ConfirmPublishFails, CancelRevokes, CancelCommits,
       CancelExecution
  <2>2. Known
    <3>1. row'.steps \in {row.steps, api.row.steps}
      BY <1>a, <1>2 DEF Requests, MessagePublishes, MessagePublishFails, ConfirmReads,
         ConfirmCommits, ConfirmPublishes, ConfirmPublishFails, CancelRevokes, CancelCommits,
         CancelExecution, Row
    <3>2. api' = api \/ api' = NoRequest \/ api'.row = row \/ api' = [api EXCEPT !.pc = "publish"]
      BY <1>2 DEF Requests, MessagePublishes, MessagePublishFails, ConfirmReads,
         ConfirmCommits, ConfirmPublishes, ConfirmPublishFails, CancelRevokes, CancelCommits,
         CancelExecution
    <3>3. api'.row.steps \in {row.steps, api.row.steps, None}
      BY <3>2 DEF NoRequest, NewRow, ReadyInv, TypeOK
    <3> QED
      BY <3>1, <3>3
  <2>3. Crew
    BY <1>a, <1>2 DEF Requests, MessagePublishes, MessagePublishFails, ConfirmReads,
       ConfirmCommits, ConfirmPublishes, ConfirmPublishFails, CancelRevokes, CancelCommits,
       CancelExecution, Moves, Messages, Worker
  <2> QED
    BY <1>1, <2>1, <2>2, <2>3
<1>3. ASSUME NEW m \in Messages, Thinks(m) PROVE ChildrenInv'
  <2>1. PICK p \in Plans :
          worker' = [worker EXCEPT ![m].pc = "children", ![m].node = row.status,
                                   ![m].plan = p, ![m].todo = KeysOf[p]]
    BY <1>3 DEF Thinks
  <2>2. UNCHANGED <<row, child, api>>
    BY <1>3 DEF Thinks
  <2>3. worker'[m].plan = p /\ worker'[m].todo = KeysOf[p] /\ p # None
        /\ \A n \in Messages \ {m} : worker'[n] = worker[n]
    BY <1>a, <2>1, ApprovalAssumption DEF Worker
  <2> QED
    BY <1>0, <2>2, <2>3 DEF ChildrenInv, Created
<1>4. ASSUME NEW m \in Messages, CreatesChild(m) PROVE ChildrenInv'
  <2>1. PICK k \in worker[m].todo :
          /\ child' = [child EXCEPT ![k] = "PENDING"]
          /\ worker' = [worker EXCEPT ![m].todo = @ \ {k}]
    BY <1>4 DEF CreatesChild
  <2>2. UNCHANGED <<row, api>> /\ k \in Keys
    BY <1>4, <1>a DEF CreatesChild, Worker
  <2>3. Keep /\ child'[k] # "none"
    BY <1>a, <2>1, <2>2
  <2>4. /\ worker'[m].plan = worker[m].plan /\ worker'[m].todo = worker[m].todo \ {k}
        /\ \A n \in Messages : worker'[n].pc = worker[n].pc
        /\ \A n \in Messages \ {m} : worker'[n] = worker[n]
    BY <1>a, <2>1 DEF Worker
  <2>5. \A p \in Plans \cup {None} : Created(p) => Created(p)'
    BY <1>a, <2>3 DEF Created
  <2>6. Created(row.steps)' /\ Created(api.row.steps)'
    BY <1>b, <2>2, <2>5 DEF ChildrenInv, Created
  <2>7. ASSUME NEW n \in Messages, worker'[n].pc = "children"
        PROVE  worker'[n].plan # None
               /\ \A i \in KeysOf[worker'[n].plan] \ worker'[n].todo : child'[i] # "none"
    BY <1>a, <1>b, <2>3, <2>4, <2>7 DEF ChildrenInv
  <2> QED
    BY <1>0, <2>6, <2>7 DEF ChildrenInv, Created
<1>5. ASSUME NEW m \in Messages, RecordsPlan(m) PROVE ChildrenInv'
  <2>1. /\ worker[m].pc = "children" /\ worker[m].todo = {}
        /\ UNCHANGED <<child, api>> /\ row'.steps = worker[m].plan
        /\ Crew
    BY <1>a, <1>5 DEF RecordsPlan, Planned, AfterPlanning, Row, Worker
  <2>2. Created(row'.steps)
    BY <2>1 DEF ChildrenInv, Created
  <2> QED
    BY <1>0, <2>1, <2>2 DEF ChildrenInv, Created
<1>6. ASSUME NEW m \in Messages,
             \/ Starts(m) \/ Enters(m) \/ DispatchRepeats(m) \/ Dispatches(m)
             \/ Checkpoints(m) \/ Returns(m) \/ Fails(m) \/ Killed(m) \/ Lost(m)
      PROVE  ChildrenInv'
  <2>1. Keep /\ Known
    BY <1>a, <1>6 DEF Starts, Enters, DispatchRepeats, Dispatches, Checkpoints, Returns,
       Fails, Killed, Lost, Row
  <2>2. Crew
    <3>1. CASE Enters(m)
      <4>1. Node(m) # "children"
        BY <1>a, <3>1 DEF Node, ReadyInv, TypeOK, Thread
      <4> QED
        BY <1>a, <3>1, <4>1 DEF Enters, Worker
    <3>2. CASE ~Enters(m)
      BY <1>a, <1>6, <3>2 DEF Starts, DispatchRepeats, Dispatches, Checkpoints, Returns,
         Fails, Killed, Lost, Moves, Answers, Worker
    <3> QED
      BY <3>1, <3>2
  <2> QED
    BY <1>1, <2>1, <2>2
<1>7. ASSUME ExecutionEnds \/ UNCHANGED vars PROVE ChildrenInv'
  <2>1. Keep /\ Known /\ Crew
    BY <1>a, <1>7 DEF ExecutionEnds, vars, Row
  <2> QED
    BY <1>1, <2>1
<1> QED
  BY <1>2, <1>3, <1>4, <1>5, <1>6, <1>7 DEF Next, Handler

\* A plan that is recorded has all of its children, even if the planning message is
\* delivered again and another plan is made of it: plan_node records the plan after it
\* has committed the last child, and a confirmation writes back the plan it has read
\* (graph/nodes.py, api/tasks.py).
THEOREM StepsHaveChildrenAlways == Spec => []StepsHaveChildren
<1>1. Init => ReadyInv /\ ChildrenInv
  BY InitReady, ApprovalAssumption
  DEF Init, ReadyInv, ChildrenInv, Created, NewRow, NoRequest, Messages
<1>2. ReadyInv /\ ChildrenInv /\ [Next]_vars => ReadyInv' /\ ChildrenInv'
  BY StepCreates, RequestsReady, WorkersReady, RestReady DEF Next
<1>3. ChildrenInv => StepsHaveChildren
  BY DEF ChildrenInv, Created, StepsHaveChildren
<1> QED
  BY <1>1, <1>2, <1>3, PTL DEF Spec

-----------------------------------------------------------------------------
(* A plan that awaits its confirmation *)

\* What the planner read before it recorded the plan was not PENDING, so that its
\* write of PENDING is one; and until a confirmation nobody else writes the status
\* but a cancellation.
AwaitingInv ==
    /\ worker[Run].pc = "children" => worker[Run].node # "PENDING"
    /\ worker[Run].pc \in {"entered", "planner"} => row.status # "PENDING"
    /\ api.request \in Confirms /\ api.pc = "publish" => row.plan # "awaiting_confirmation"
    /\ row.plan = "awaiting_confirmation" =>
         /\ row.status \in {"PENDING", "CANCELLED"}
         /\ \A c \in Confirms : worker[c].pc = "idle"

\* The requests: confirming takes the plan out of its wait.
LEMMA RequestsAwait == ApprovalInv /\ AwaitingInv /\ Requests => AwaitingInv'
<1> SUFFICES ASSUME ApprovalInv, AwaitingInv, Requests PROVE AwaitingInv'
  OBVIOUS
<1>0. worker \in [Messages -> Worker] /\ row \in Row /\ Run \notin Confirms
      /\ Run \in Messages /\ Confirms \subseteq Messages /\ Confirms \cap Cancels = {}
      /\ None \notin Confirms
  BY ApprovalAssumption DEF ApprovalInv, ReadyInv, TypeOK, Messages
<1>a. \A c \in Confirms : Engaged(c) => row.plan # "planning"
  BY DEF ApprovalInv, ReadyInv, ThreadReady
<1>b. row.plan # "planning" => worker[Run].pc \in {"return", "done"}
  BY DEF ApprovalInv, PlannedOnce
<1> USE DEF AwaitingInv, Moves, Idle
<1>1. CASE MessagePublishes
  BY <1>0, <1>1 DEF MessagePublishes, Row, Worker
<1>2. CASE MessagePublishFails
  BY <1>0, <1>2 DEF MessagePublishFails, Worker
<1>3. ASSUME NEW c \in Confirms, ConfirmReads(c) PROVE AwaitingInv'
  BY <1>0, <1>3 DEF ConfirmReads
<1>4. ASSUME NEW c \in Confirms, ConfirmCommits(c) PROVE AwaitingInv'
  BY <1>0, <1>a, <1>b, <1>4 DEF ConfirmCommits, Row, Engaged
<1>5. ASSUME NEW c \in Confirms, ConfirmPublishes(c) PROVE AwaitingInv'
  BY <1>0, <1>a, <1>b, <1>5 DEF ConfirmPublishes, NoRequest, Row, Worker, Engaged
<1>6. ASSUME NEW c \in Confirms, ConfirmPublishFails(c) PROVE AwaitingInv'
  BY <1>0, <1>a, <1>b, <1>6 DEF ConfirmPublishFails, NoRequest, Worker, Engaged
<1>7. ASSUME NEW x \in Cancels, CancelRevokes(x) PROVE AwaitingInv'
  BY <1>0, <1>7 DEF CancelRevokes
<1>8. ASSUME NEW x \in Cancels, CancelCommits(x) PROVE AwaitingInv'
  BY <1>0, <1>8 DEF CancelCommits, NoRequest, Row
<1>9. ASSUME NEW x \in Cancels, CancelExecution(x) PROVE AwaitingInv'
  <2>1. row'.plan = row.plan /\ row'.status = "CANCELLED"
    BY <1>0, <1>9 DEF CancelExecution, Row
  <2> QED
    BY <1>9, <2>1 DEF CancelExecution
<1> QED
  BY <1>1, <1>2, <1>3, <1>4, <1>5, <1>6, <1>7, <1>8, <1>9 DEF Requests

\* The workers: only the planner works before the confirmation, and it writes RUNNING
\* first and PENDING last.
LEMMA WorkersAwait ==
    ASSUME Run \notin Losable, NEW m \in Messages,
           ApprovalInv, AwaitingInv, Handler(m) \/ Killed(m) \/ Lost(m)
    PROVE  AwaitingInv'
<1>0. worker \in [Messages -> Worker] /\ row \in Row /\ Run \notin Confirms
      /\ Run \in Messages /\ Confirms \subseteq Messages /\ Messages = {Run} \cup Confirms
  BY ApprovalAssumption DEF ApprovalInv, ReadyInv, TypeOK, Messages
<1>a. \A c \in Confirms : worker[c].pc # "idle" => row.plan # "planning"
  BY DEF ApprovalInv, ReadyInv, ThreadReady, Engaged
<1>b. row.plan # "planning" =>
        /\ worker[Run].pc \in {"return", "done"}
        /\ \A c \in Confirms : worker[c].pc \notin {"planner", "children"}
  BY DEF ApprovalInv, PlannedOnce
<1>c. worker[Run].pc # "dispatcher" /\ thread.at \in {"new", "planner", "approval", "dispatcher", "end"}
  BY DEF ApprovalInv, ReadyInv, ThreadReady, TypeOK, Thread
<1> USE DEF AwaitingInv, Moves
<1>1. CASE Starts(m)
  BY <1>0, <1>a, <1>b, <1>1 DEF Starts, Row, Worker
<1>2. CASE Enters(m)
  BY <1>0, <1>a, <1>b, <1>c, <1>2 DEF Enters, Node, Worker
<1>3. CASE Thinks(m)
  BY <1>0, <1>a, <1>b, <1>3 DEF Thinks, Worker
<1>4. CASE CreatesChild(m)
  BY <1>0, <1>4 DEF CreatesChild, Worker
<1>5. CASE RecordsPlan(m)
  <2>1. m = Run /\ row.plan = "planning" /\ worker[m].node # "PENDING"
    BY <1>0, <1>a, <1>b, <1>5 DEF RecordsPlan, Planned
  <2>2. row'.status = "PENDING" /\ row'.plan = "awaiting_confirmation"
    BY <1>0, <1>5, <2>1 DEF RecordsPlan, Written, Row
  <2>3. worker'[Run].pc = "return" /\ \A c \in Confirms : worker'[c] = worker[c]
    BY <1>0, <1>5, <2>1 DEF RecordsPlan, AfterPlanning, Worker
  <2>4. ~(api.request \in Confirms)
    BY <2>1 DEF ApprovalInv, ReadyInv, ThreadReady, Engaged
  <2> QED
    BY <1>0, <1>5, <1>a, <2>1, <2>2, <2>3, <2>4 DEF RecordsPlan
<1>6. CASE DispatchRepeats(m)
  BY <1>0, <1>6 DEF DispatchRepeats, Dispatching, Answers, Worker
<1>7. CASE Dispatches(m)
  BY <1>0, <1>a, <1>b, <1>c, <1>7 DEF Dispatches, Dispatching, Answers, Row, Worker
<1>8. CASE Checkpoints(m)
  BY <1>0, <1>8 DEF Checkpoints, Worker
<1>9. CASE Returns(m)
  BY <1>0, <1>a, <1>b, <1>9 DEF Returns, Late, Written, Row, Worker
<1>10. CASE Fails(m)
  BY <1>0, <1>a, <1>b, <1>10 DEF Fails, Row, Worker
<1>11. CASE Killed(m)
  BY <1>0, <1>11 DEF Killed, Worker, Working
<1>12. CASE Lost(m)
  BY <1>0, <1>a, <1>b, <1>12 DEF Lost, Worker, Working
<1> QED
  BY <1>1, <1>2, <1>3, <1>4, <1>5, <1>6, <1>7, <1>8, <1>9, <1>10, <1>11, <1>12
  DEF Handler

\* A plan that awaits its confirmation does so as PENDING, or was cancelled: neither
\* the status that run_orchestrator_task set first nor what its session had read
\* survives its last write, if the message is not delivered twice (agent_tasks.py,
\* graph/nodes.py).
THEOREM AwaitingIsPendingAlways ==
    ASSUME Run \notin Losable PROVE Spec => []AwaitingIsPending
<1>1. Init => AwaitingInv
  BY ApprovalAssumption DEF Init, AwaitingInv, NewRow, NoRequest, Messages
<1>2. ApprovalInv /\ AwaitingInv /\ [Next]_vars => AwaitingInv'
  <2>1. ApprovalInv /\ AwaitingInv /\ (ExecutionEnds \/ UNCHANGED vars) => AwaitingInv'
    <3> SUFFICES ASSUME ApprovalInv, AwaitingInv, ExecutionEnds \/ UNCHANGED vars
                 PROVE  AwaitingInv'
      OBVIOUS
    <3>1. CASE ExecutionEnds
      <4>1. row \in Row /\ row.plan \in {"dispatch_prepared", "dispatch_queued"}
        BY <3>1 DEF ExecutionEnds, ApprovalInv, ReadyInv, TypeOK
      <4>2. worker[Run].pc \in {"return", "done"}
        BY <4>1 DEF ApprovalInv, PlannedOnce
      <4> QED
        BY <3>1, <4>1, <4>2 DEF ExecutionEnds, AwaitingInv, Row
    <3>2. CASE UNCHANGED vars
      BY <3>2 DEF vars, AwaitingInv
    <3> QED
      BY <3>1, <3>2
  <2> QED
    BY <2>1, RequestsAwait, WorkersAwait DEF Next
<1>3. AwaitingInv => AwaitingIsPending
  BY DEF AwaitingInv, AwaitingIsPending
<1> QED
  BY <1>1, <1>2, <1>3, InitApproval, NextApproval, PTL DEF Spec
=============================================================================

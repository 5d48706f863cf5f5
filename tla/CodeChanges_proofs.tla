-------------------------- MODULE CodeChanges_proofs --------------------------
(* What CodeChanges promises, for any number of tasks, changes, workers and    *)
(* losses.                                                                     *)
EXTENDS CodeChanges, SequenceTheorems, TLAPS

Pulling == {"commit", "push", "github", "mark"}

\* A task answers a change that exists and was rejected.
Sources ==
    \A t \in Tasks : task[t].source # 0 =>
        task[t].source \in Rows /\ change[task[t].source].status = "REJECTED"

\* Numbers of a chain of revisions follow the order of the rows.
Chain ==
    \A c \in Rows : LET source == change[c].parent IN
        /\ change[c].index <= c
        /\ source # 0 =>
             /\ source \in Rows /\ source < c
             /\ change[source].status = "REJECTED"
             /\ change[c].index = change[source].index + 1

\* What the handler in progress has done so far.  Nobody else changes the
\* status of the change that it publishes.
Handler ==
    /\ api.pc = "cancel" => api.on \in Tasks
    /\ api.pc \in Pulling => api.on \in Rows /\ change[api.on].status = "ACCEPTED"
    /\ api.pc = "mark" => change[api.on].task \in pulls

\* A branch with a pull request has commits of its own on GitHub.
Opened == \A b \in pulls : b \in Owners /\ MayOpen(b)

\* A worker that has written its result has closed the task.
Closed ==
    \A t \in Tasks : run[t] \in {"finished", "branched", "ended"} =>
        task[t].status \notin Active

Inv ==
    /\ TypeOK /\ Sources /\ Chain /\ Handler /\ Opened /\ Closed
    /\ CommittedIsPublished /\ NothingUnreviewed /\ NothingAbandoned

-----------------------------------------------------------------------------
(* Rows of code changes *)

\* An overwritten row leaves the others.
LEMMA RowWritten ==
    ASSUME TypeOK, NEW c \in Rows, NEW r \in Change
    PROVE  /\ [change EXCEPT ![c] = r] \in Seq(Change)
           /\ Len([change EXCEPT ![c] = r]) = Len(change)
           /\ DOMAIN [change EXCEPT ![c] = r] = Rows
  BY ExceptSeq DEF TypeOK, Rows

\* A new row comes last.
LEMMA RowAppended ==
    ASSUME TypeOK, NEW r \in Change, Len(change) < MaxChanges
    PROVE  /\ Append(change, r) \in Seq(Change)
           /\ Len(Append(change, r)) = Len(change) + 1
           /\ DOMAIN Append(change, r) = Rows \cup {Len(change) + 1}
           /\ \A c \in Rows : Append(change, r)[c] = change[c]
           /\ Append(change, r)[Len(change) + 1] = r
  BY AppendProperties DEF TypeOK, Rows

\* Rows are numbered from 1, within the bound.
LEMMA RowTyped ==
    ASSUME TypeOK
    PROVE  /\ \A c \in Rows : change[c] \in Change /\ c \in 1..MaxChanges
           /\ Rows = 1..Len(change) /\ Len(change) \in Nat
  BY CodeChangesAssumption DEF TypeOK, Rows

\* What is captured for a task is a row.
LEMMA CapturedTyped ==
    ASSUME Inv, NEW t \in Tasks, Len(change) < MaxChanges
    PROVE  /\ Captured(t) \in Change
           /\ Captured(t).index <= Len(change) + 1
           /\ Captured(t).status = "GENERATED"
<1> DEFINE source == task[t].source
<1>1. HeadCommit \in Commits /\ repo.dirty \in BOOLEAN /\ t \in Owners
  BY DEF Inv, TypeOK, HeadCommit, Owners
<1>2. source \in 0..MaxChanges
  BY DEF Inv, TypeOK
<1>3. CASE source = 0
  <2>1. Captured(t).index = 1 /\ 1 \in 1..MaxChanges
    BY <1>3, CodeChangesAssumption DEF Captured
  <2>2. Len(change) \in Nat
    BY RowTyped DEF Inv
  <2> QED
    BY <1>1, <1>2, <1>3, <2>1, <2>2 DEF Captured, Change
<1>4. CASE source # 0
  <2>1. source \in Rows
    BY <1>4 DEF Inv, Sources
  <2>2. change[source] \in Change /\ source \in 1..Len(change) /\ Len(change) \in Nat
    BY <2>1, RowTyped DEF Inv
  <2>3. change[source].index \in Nat /\ change[source].index <= source
    BY <2>1, <2>2, CodeChangesAssumption DEF Inv, Chain, Change
  <2>4. change[source].index + 1 \in 1..MaxChanges
    BY <2>2, <2>3, CodeChangesAssumption
  <2> QED
    BY <1>1, <1>2, <1>4, <2>2, <2>3, <2>4 DEF Captured, Change
<1> QED
  BY <1>3, <1>4

-----------------------------------------------------------------------------
(* What one step does to the rows *)

\* Rows stay, and a new one is captured for a task; a status moves only from
\* GENERATED to a verdict, and from ACCEPTED to COMMITTED by the handler that has
\* the pull request.
RowKept(c) ==
    /\ change'[c].task = change[c].task
    /\ change'[c].parent = change[c].parent
    /\ change'[c].index = change[c].index
    /\ \/ change'[c].status = change[c].status
       \/ /\ change[c].status = "GENERATED"
          /\ change'[c].status \in {"ACCEPTED", "REJECTED"}
       \/ /\ api.pc = "mark" /\ c = api.on
          /\ change'[c].status = "COMMITTED"
RowsGrow ==
    /\ change' \in Seq(Change) /\ Len(change') <= MaxChanges
    /\ Rows \subseteq Rows'
    /\ \A c \in Rows : RowKept(c)
    /\ \A c \in Rows' \ Rows : /\ c = Len(change) + 1
                              /\ \E t \in Tasks : change'[c] = Captured(t)

\* A step that adds a captured row.
LEMMA CaptureGrows ==
    ASSUME Inv, NEW t \in Tasks, Len(change) < MaxChanges,
           change' = Append(change, Captured(t))
    PROVE  /\ RowsGrow
           /\ Rows' = Rows \cup {Len(change) + 1}
           /\ change'[Len(change) + 1] = Captured(t)
           /\ Len(change) + 1 \notin Rows
  BY CapturedTyped, RowAppended, RowTyped, CodeChangesAssumption
     DEF Inv, RowsGrow, RowKept, Rows

\* A step that overwrites a row.
LEMMA StatusGrows ==
    ASSUME Inv, NEW c \in Rows, NEW status \in {"ACCEPTED", "REJECTED"},
           change[c].status = "GENERATED", SetStatus(c, status)
    PROVE  RowsGrow /\ Rows' = Rows
<1>1. change[c] \in Change
  BY RowTyped DEF Inv
<1> DEFINE r == [change[c] EXCEPT !.status = status]
<1>2. r \in Change
  BY <1>1 DEF Change
<1>3. change' = [change EXCEPT ![c] = r]
  BY DEF SetStatus
<1>4. change' \in Seq(Change) /\ Len(change') = Len(change) /\ Rows' = Rows
  BY <1>2, <1>3, RowWritten DEF Inv, Rows
<1>5. \A d \in Rows : RowKept(d)
  BY <1>1, <1>3 DEF RowKept, Change, Rows
<1> QED
  BY <1>4, <1>5 DEF Inv, TypeOK, RowsGrow

\* A step that publishes a row.
LEMMA MarkGrows == Inv /\ PullMarks => RowsGrow /\ Rows' = Rows
<1> SUFFICES ASSUME Inv, PullMarks PROVE RowsGrow /\ Rows' = Rows
  OBVIOUS
<1>1. api.pc = "mark" /\ api.on \in Rows /\ api.hash \in Commits
  BY DEF PullMarks, Inv, TypeOK, Handler, Pulling
<1>2. change[api.on] \in Change
  BY <1>1, RowTyped DEF Inv
<1> DEFINE r == [change[api.on] EXCEPT !.status = "COMMITTED", !.commit = api.hash]
<1>3. r \in Change
  BY <1>1, <1>2 DEF Change
<1>4. change' = [change EXCEPT ![api.on] = r]
  BY <1>1, <1>2 DEF PullMarks, Change, Rows
<1>5. change' \in Seq(Change) /\ Len(change') = Len(change) /\ Rows' = Rows
  BY <1>1, <1>3, <1>4, RowWritten DEF Inv, Rows
<1>6. \A d \in Rows : RowKept(d)
  BY <1>1, <1>2, <1>4 DEF RowKept, Change, Rows
<1> QED
  BY <1>5, <1>6 DEF Inv, TypeOK, RowsGrow

\* Every other step leaves the rows.
LEMMA Grows ==
    ASSUME Inv, [Next]_vars
    PROVE  RowsGrow
<1>1. ASSUME UNCHANGED change PROVE RowsGrow
  BY <1>1 DEF Inv, TypeOK, RowsGrow, RowKept, Rows
<1>2. ASSUME NEW t \in Tasks, RevisionCaptures(t) \/ UserCaptures(t) PROVE RowsGrow
  BY <1>2, CaptureGrows DEF RevisionCaptures, UserCaptures
<1>3. ASSUME NEW c \in Rows, Accept(c) \/ Reject(c) PROVE RowsGrow
  BY <1>3, StatusGrows DEF Accept, Reject
<1>4. CASE PullMarks
  BY <1>4, MarkGrows
<1>5. ASSUME NEW t \in Tasks,
             \/ Start(t) \/ Prepare(t) \/ Write(t) \/ Finish(t) \/ Return(t)
             \/ RevisionBranches(t) \/ RevisionGivesUp(t) \/ Fail(t) \/ Lost(t)
             \/ RetryTask(t) \/ CancelRevokes(t) \/ UserBranches(t)
      PROVE  UNCHANGED change
  BY <1>5 DEF Start, Prepare, Write, Finish, Return, RevisionBranches, RevisionGivesUp,
              Fail, Lost, RetryTask, CancelRevokes, UserBranches, rows
<1>6. ASSUME NEW c \in Rows, Revise(c) \/ PullOpens(c) \/ Deploy(c) \/ BuildFails(c)
      PROVE  UNCHANGED change
  BY <1>6 DEF Revise, PullOpens, Deploy, BuildFails, rows
<1>7. ASSUME \/ MessageCounts \/ MessageCreates \/ PullCommits \/ PullPushes
             \/ PullAnswered \/ CancelCommits \/ Crash \/ UNCHANGED vars
      PROVE  UNCHANGED change
  BY <1>7 DEF MessageCounts, MessageCreates, PullCommits, PullPushes, PullAnswered,
              CancelCommits, Crash, rows, vars
<1> QED
  BY <1>1, <1>2, <1>3, <1>4, <1>5, <1>6, <1>7 DEF Next, WorkerStep, PullStep, Rows

-----------------------------------------------------------------------------
(* Types *)
Clones == [head : Branches, tip : [Branches -> Commits], last : Commits, dirty : BOOLEAN]

\* Branches are made and checked out within the clone.
LEMMA CloneTyped ==
    ASSUME NEW r \in Clones, NEW b \in Branches
    PROVE  Rebranched(r, b) \in Clones /\ Checkouts(r, b) \subseteq Clones
  BY DEF Clones, Rebranched, Checkouts

\* The initial clone, tasks and changes.
LEMMA InitTypes == Init => TypeOK
<1> SUFFICES ASSUME Init PROVE TypeOK
  OBVIOUS
<1>1. PICK main \in {NoCommit, 1}, planned \in BOOLEAN : Cloned(main, planned, Main, FALSE)
  BY DEF Init
<1>2. /\ Main \in Branches /\ Plan \in Owners /\ MaxCommits >= 2 /\ MaxCommits \in Nat
      /\ MaxChanges \in Nat /\ MaxChanges >= 1 /\ MaxTasks \in Nat
  BY CodeChangesAssumption DEF Branches, Owners, Plan, Main
<1>3. {main, main + 1} \subseteq Commits /\ NoCommit \in Commits
  BY <1>2 DEF Commits, NoCommit
<1>4. repo \in [head : Branches, tip : [Branches -> Commits], last : Commits, dirty : BOOLEAN]
  BY <1>1, <1>2, <1>3 DEF Cloned
<1>5. change \in Seq(Change) /\ Len(change) <= MaxChanges
  <2>1. CASE planned
    <3> DEFINE r == [task |-> Plan, base |-> main, commit |-> main + 1, edits |-> TRUE,
                     status |-> "GENERATED", parent |-> 0, index |-> 1]
    <3>1. r \in Change
      BY <1>2, <1>3 DEF Change
    <3>2. change = <<r>>
      BY <1>1, <2>1 DEF Cloned
    <3> QED
      BY <1>2, <3>1, <3>2
  <2>2. CASE ~planned
    <3>1. change = <<>>
      BY <1>1, <2>2 DEF Cloned
    <3> QED
      BY <1>2, <3>1
  <2> QED
    BY <2>1, <2>2
<1>6. task \in [Tasks -> [status : Active \cup {"none", "SUCCESS", "FAILED", "CANCELLED"},
                          source : 0..MaxChanges]]
  BY <1>2 DEF Init, NoTask
<1>7. /\ run \in [Tasks -> InWorker \cup {"none", "stuck", "queued", "ended", "killed"}]
      /\ asked \subseteq Tasks /\ waiting \in 0..MaxWaiting /\ losses \in 0..MaxLosses
      /\ pulls \subseteq Branches /\ previews \subseteq Owners
      /\ remote \in [Branches -> Commits]
  BY <1>3, <1>4, CodeChangesAssumption DEF Init, NothingPublished
<1>8. api \in [pc : {"idle", "cancel", "commit", "push", "github", "mark"},
               on : 0..(MaxTasks + MaxChanges), hash : Commits]
  BY <1>2, <1>3 DEF Init, NothingPublished, Free
<1> QED
  BY <1>4, <1>5, <1>6, <1>7, <1>8 DEF TypeOK

\* The types of everything but the rows of the changes.
RestTyped ==
    /\ task \in [Tasks -> [status : Active \cup {"none", "SUCCESS", "FAILED", "CANCELLED"},
                           source : 0..MaxChanges]]
    /\ run \in [Tasks -> InWorker \cup {"none", "stuck", "queued", "ended", "killed"}]
    /\ repo \in Clones
    /\ asked \subseteq Tasks
    /\ waiting \in 0..MaxWaiting
    /\ api \in [pc : {"idle", "cancel", "commit", "push", "github", "mark"},
                on : 0..(MaxTasks + MaxChanges), hash : Commits]
    /\ remote \in [Branches -> Commits]
    /\ pulls \subseteq Branches
    /\ previews \subseteq Owners
    /\ losses \in 0..MaxLosses

\* With the rows' growth, the rest is all of the type invariant.
LEMMA TypeOKSplit ==
    /\ TypeOK => RestTyped
    /\ RestTyped' /\ RowsGrow => TypeOK'
  BY DEF TypeOK, RestTyped, Clones, RowsGrow

\* Bounds of the numbers that the rows and the handler hold.
LEMMA Numbers ==
    /\ MaxTasks \in Nat /\ MaxChanges \in Nat /\ MaxCommits \in Nat /\ MaxWaiting \in Nat
    /\ MaxLosses \in Nat /\ MaxWaiting >= 1
    /\ Tasks \subseteq Owners /\ Owners \subseteq Branches /\ Main \in Branches
    /\ NoCommit \in Commits
    /\ Tasks \subseteq 0..(MaxTasks + MaxChanges)
    /\ 1..MaxChanges \subseteq 0..(MaxTasks + MaxChanges)
  BY CodeChangesAssumption DEF Tasks, Owners, Branches, Main, Plan, Commits, NoCommit

\* A commit is the next one, on the branch that HEAD is on.
LEMMA CommittedTyped ==
    ASSUME repo \in Clones, repo.last < MaxCommits
    PROVE  Committed \in Clones /\ repo.last + 1 \in Commits
<1> DEFINE tip == [repo.tip EXCEPT ![repo.head] = repo.last + 1]
           tipped == [repo EXCEPT !.tip = tip]
           counted == [tipped EXCEPT !.last = repo.last + 1]
<1>1. repo.last + 1 \in Commits
  BY Numbers DEF Clones, Commits, NoCommit
<1>2. tip \in [Branches -> Commits]
  BY <1>1 DEF Clones
<1>3. tipped \in Clones /\ tipped.last = repo.last
  BY <1>2 DEF Clones
<1>4. counted \in Clones
  BY <1>1, <1>3 DEF Clones
<1>5. Committed = [counted EXCEPT !.dirty = FALSE]
  BY <1>3 DEF Committed
<1> QED
  BY <1>1, <1>4, <1>5 DEF Clones

\* A handler creates a task.
LEMMA CreatesTyped ==
    ASSUME RestTyped, NEW source \in 0..MaxChanges, Creates(source)
    PROVE  /\ task' \in [Tasks -> [status : Active \cup {"none", "SUCCESS", "FAILED", "CANCELLED"},
                                   source : 0..MaxChanges]]
           /\ run' \in [Tasks -> InWorker \cup {"none", "stuck", "queued", "ended", "killed"}]
  BY DEF RestTyped, Creates, Active

\* Workers.
LEMMA WorkerTypes ==
    ASSUME Inv, NEW t \in Tasks, WorkerStep(t) \/ Lost(t)
    PROVE  RestTyped'
<1>0. RestTyped /\ t \in Branches
  BY TypeOKSplit, Numbers DEF Inv
<1> USE <1>0 DEF RestTyped
<1>1. CASE Start(t)
  <2>1. "RUNNING" \in Active /\ "started" \in InWorker
    BY DEF Active, InWorker
  <2>2. /\ task' = [task EXCEPT ![t].status = "RUNNING"]
        /\ run' = [run EXCEPT ![t] = "started"]
        /\ UNCHANGED <<repo, change, asked, waiting, api, hub, previews, losses>>
    BY <1>1 DEF Start
  <2> QED
    BY <2>1, <2>2 DEF hub
<1>2. CASE Prepare(t)
  <2> DEFINE clean == [repo EXCEPT !.dirty = FALSE]
  <2>1. clean \in Clones
    BY DEF Clones
  <2>2. PICK r \in (IF clean.tip[Main] = NoCommit THEN {clean} ELSE Checkouts(clean, Main)) :
          repo' = Rebranched(r, t)
    BY <1>2 DEF Prepare
  <2>3. r \in Clones
    BY <2>1, <2>2, CloneTyped, Numbers
  <2>4. repo' \in Clones
    BY <2>2, <2>3, CloneTyped
  <2> QED
    BY <1>2, <2>4 DEF Prepare, rows, hub, InWorker
<1>3. CASE Write(t)
  BY <1>3 DEF Write, rows, hub, Clones
<1>4. CASE Finish(t)
  BY <1>4 DEF Finish, hub, InWorker
<1>5. CASE Return(t)
  BY <1>5 DEF Return, rows, hub
<1>6. CASE RevisionBranches(t)
  BY <1>6, CloneTyped DEF RevisionBranches, rows, hub, InWorker
<1>7. CASE RevisionCaptures(t)
  BY <1>7 DEF RevisionCaptures, hub
<1>8. CASE RevisionGivesUp(t)
  BY <1>8 DEF RevisionGivesUp, rows, hub
<1>9. CASE Fail(t)
  BY <1>9 DEF Fail, hub
<1>10. CASE Lost(t)
  <2>1. losses' \in 0..MaxLosses
    BY <1>10, Numbers DEF Lost
  <2>2. run' \in [Tasks -> InWorker \cup {"none", "stuck", "queued", "ended", "killed"}]
    BY <1>10 DEF Lost
  <2> QED
    BY <1>10, <2>1, <2>2 DEF Lost, rows, hub
<1> QED
  BY <1>1, <1>2, <1>3, <1>4, <1>5, <1>6, <1>7, <1>8, <1>9, <1>10 DEF WorkerStep

\* Requests about tasks.
LEMMA TaskTypes ==
    ASSUME Inv,
           \/ MessageCounts \/ MessageCreates \/ CancelCommits
           \/ \E t \in Tasks : RetryTask(t) \/ CancelRevokes(t) \/ UserBranches(t)
                               \/ UserCaptures(t)
           \/ \E c \in Rows : Revise(c)
    PROVE  RestTyped'
<1>0. RestTyped
  BY TypeOKSplit DEF Inv
<1> USE <1>0 DEF RestTyped
<1>1. CASE MessageCounts
  BY <1>1, Numbers DEF MessageCounts, rows, hub
<1>2. CASE MessageCreates
  <2>1. 0 \in 0..MaxChanges /\ waiting' \in 0..MaxWaiting
    BY <1>2, Numbers DEF MessageCreates
  <2> QED
    BY <1>2, <2>1, CreatesTyped DEF MessageCreates, hub
<1>3. CASE CancelCommits
  <2>1. Free \in [pc : {"idle", "cancel", "commit", "push", "github", "mark"},
                  on : 0..(MaxTasks + MaxChanges), hash : Commits]
    BY Numbers DEF Free
  <2> QED
    BY <1>3, <2>1 DEF CancelCommits, hub
<1>4. ASSUME NEW t \in Tasks, RetryTask(t) PROVE RestTyped'
  <2>1. task[t].source \in 0..MaxChanges
    OBVIOUS
  <2> QED
    BY <1>4, <2>1, CreatesTyped DEF RetryTask, hub
<1>5. ASSUME NEW t \in Tasks, CancelRevokes(t) PROVE RestTyped'
  <2>1. api' \in [pc : {"idle", "cancel", "commit", "push", "github", "mark"},
                  on : 0..(MaxTasks + MaxChanges), hash : Commits]
    BY <1>5, Numbers DEF CancelRevokes, Free
  <2> QED
    BY <1>5, <2>1 DEF CancelRevokes, rows, hub
<1>6. ASSUME NEW t \in Tasks, UserBranches(t) PROVE RestTyped'
  BY <1>6, CloneTyped, Numbers DEF UserBranches, rows, hub
<1>7. ASSUME NEW t \in Tasks, UserCaptures(t) PROVE RestTyped'
  BY <1>7 DEF UserCaptures, hub
<1>8. ASSUME NEW c \in Rows, Revise(c) PROVE RestTyped'
  <2>1. c \in 0..MaxChanges
    BY RowTyped, Numbers DEF Inv
  <2> QED
    BY <1>8, <2>1, CreatesTyped DEF Revise, hub
<1> QED
  BY <1>1, <1>2, <1>3, <1>4, <1>5, <1>6, <1>7, <1>8

\* Requests about changes, and the end of the API process.
LEMMA ChangeTypes ==
    ASSUME Inv,
           \/ PullCommits \/ PullPushes \/ PullAnswered \/ PullMarks \/ Crash
           \/ \E c \in Rows : Accept(c) \/ Reject(c) \/ PullOpens(c) \/ Deploy(c)
                              \/ BuildFails(c)
    PROVE  RestTyped'
<1> DEFINE Api == [pc : {"idle", "cancel", "commit", "push", "github", "mark"},
                   on : 0..(MaxTasks + MaxChanges), hash : Commits]
<1>0. RestTyped
  BY TypeOKSplit DEF Inv
<1>a. Free \in Api /\ api \in Api
  BY <1>0, Numbers DEF Free, RestTyped
<1>b. \A c \in Rows : /\ change[c] \in Change /\ change[c].task \in Owners
                      /\ change[c].task \in Branches /\ change[c].commit \in Commits
                      /\ c \in 0..(MaxTasks + MaxChanges)
  BY RowTyped, Numbers DEF Inv, Change
<1> USE <1>0 DEF RestTyped
<1>1. CASE PullCommits
  <2>1. CASE repo.dirty
    <3>2. repo' \in Clones
      BY <1>1, <2>1, CommittedTyped DEF PullCommits
    <3>3. api' \in Api
      BY <1>1, <1>a, <2>1, CommittedTyped DEF PullCommits, Clones
    <3> QED
      BY <1>1, <3>2, <3>3 DEF PullCommits, rows, hub
  <2>2. CASE ~repo.dirty
    BY <1>1, <1>a, <2>2 DEF PullCommits, rows, hub
  <2> QED
    BY <2>1, <2>2
<1>2. CASE PullPushes
  <2>1. change[api.on].task \in Branches
    BY <1>2, <1>b DEF PullPushes, Inv, Handler, Pulling
  <2>2. remote' \in [Branches -> Commits]
    <3>1. repo.tip[change[api.on].task] \in Commits
      BY <2>1 DEF Clones
    <3>2. remote' = remote \/ \E tip \in Commits : remote' = [remote EXCEPT ![change[api.on].task] = tip]
      BY <1>2, <3>1 DEF PullPushes, Pushed, CallFails
    <3> QED
      BY <2>1, <3>2
  <2>3. api' \in Api
    BY <1>2, <1>a DEF PullPushes, ApiAt, CallFails
  <2>4. losses' \in 0..MaxLosses
    BY <1>2, Numbers DEF PullPushes, CallFails
  <2> QED
    BY <1>2, <2>2, <2>3, <2>4 DEF PullPushes, rows
<1>3. CASE PullAnswered
  <2>1. change[api.on].task \in Branches
    BY <1>3, <1>b DEF PullAnswered, Inv, Handler, Pulling
  <2>2. pulls' \subseteq Branches
    BY <1>3, <2>1 DEF PullAnswered
  <2>3. api' \in Api
    BY <1>3, <1>a DEF PullAnswered, ApiAt, CallFails
  <2>4. losses' \in 0..MaxLosses
    BY <1>3, Numbers DEF PullAnswered, CallFails
  <2> QED
    BY <1>3, <2>2, <2>3, <2>4 DEF PullAnswered, rows
<1>4. CASE PullMarks
  BY <1>4, <1>a DEF PullMarks, hub
<1>5. CASE Crash
  BY <1>5, <1>a, Numbers DEF Crash, rows, hub
<1>6. ASSUME NEW c \in Rows, Accept(c) \/ Reject(c) PROVE RestTyped'
  BY <1>6 DEF Accept, Reject, hub
<1>7. ASSUME NEW c \in Rows, PullOpens(c) PROVE RestTyped'
  <2>1. api' \in Api
    BY <1>7, <1>b, Numbers DEF PullOpens
  <2>2. repo' \in Clones
    BY <1>7, <1>b, CloneTyped DEF PullOpens
  <2> QED
    BY <1>7, <2>1, <2>2 DEF PullOpens, rows, hub
<1>8. ASSUME NEW c \in Rows, Deploy(c) \/ BuildFails(c) PROVE RestTyped'
  BY <1>8, <1>b DEF Deploy, BuildFails, rows, hub
<1> QED
  BY <1>1, <1>2, <1>3, <1>4, <1>5, <1>6, <1>7, <1>8

\* Every step keeps the types.
LEMMA TypesKept == Inv /\ [Next]_vars => TypeOK'
<1> SUFFICES ASSUME Inv, [Next]_vars PROVE TypeOK'
  OBVIOUS
<1>1. RestTyped'
  <2>1. UNCHANGED vars => RestTyped'
    BY TypeOKSplit DEF Inv, RestTyped, vars
  <2>2. Next => RestTyped'
    BY WorkerTypes, TaskTypes, ChangeTypes DEF Next, PullStep, Rows
  <2> QED
    BY <2>1, <2>2
<1> QED
  BY <1>1, Grows, TypeOKSplit

-----------------------------------------------------------------------------
(* The rows of the tasks and of the changes *)

\* A verdict is not taken back, and what is rejected is never published.
LEMMA VerdictsStay ==
    ASSUME Inv, [Next]_vars, NEW c \in Rows
    PROVE  /\ c \in Rows'
           /\ change[c].status = "REJECTED" => change'[c].status = "REJECTED"
           /\ Reviewed(c) => Reviewed(c)'
           /\ change'[c].task = change[c].task
<1>1. c \in Rows' /\ RowKept(c)
  BY Grows DEF RowsGrow
<1>2. api.pc = "mark" => change[api.on].status = "ACCEPTED"
  BY DEF Inv, Handler, Pulling
<1> QED
  BY <1>1, <1>2 DEF RowKept, Reviewed

\* A new task, a retry or a revision has the source it was made with.
LEMMA CreatesSource ==
    ASSUME Inv, NEW source, Creates(source), NEW t \in Tasks
    PROVE  task'[t].source \in {task[t].source, source}
  BY DEF Creates, Inv, TypeOK

\* Tasks keep answering rejected changes.
LEMMA SourcesKept == Inv /\ [Next]_vars => Sources'
<1> SUFFICES ASSUME Inv, [Next]_vars, NEW t \in Tasks, task'[t].source # 0
             PROVE  /\ task'[t].source \in Rows'
                    /\ change'[task'[t].source].status = "REJECTED"
  BY DEF Sources
<1> DEFINE Answers(s) == s # 0 => s \in Rows /\ change[s].status = "REJECTED"
<1>0. \A u \in Tasks : Answers(task[u].source)
  BY DEF Inv, Sources
<1>1. Answers(task'[t].source)
  <2>1. ASSUME UNCHANGED task PROVE Answers(task'[t].source)
    BY <1>0, <2>1
  <2>2. CASE MessageCreates
    BY <1>0, <2>2, CreatesSource DEF MessageCreates
  <2>3. ASSUME NEW u \in Tasks, RetryTask(u) PROVE Answers(task'[t].source)
    BY <1>0, <2>3, CreatesSource DEF RetryTask
  <2>4. ASSUME NEW c \in Rows, Revise(c) PROVE Answers(task'[t].source)
    BY <1>0, <2>4, CreatesSource DEF Revise
  <2>5. ASSUME NEW u \in Tasks, Start(u) \/ Finish(u) \/ Fail(u)
        PROVE  Answers(task'[t].source)
    <3>1. PICK status : task' = [task EXCEPT ![u].status = status]
      BY <2>5 DEF Start, Finish, Fail
    <3>2. task'[t].source = task[t].source
      BY <3>1 DEF Inv, TypeOK
    <3> QED
      BY <1>0, <3>2
  <2>6. CASE CancelCommits
    <3>1. PICK u \in Tasks : task' = [task EXCEPT ![u].status = "CANCELLED"]
      BY <2>6 DEF CancelCommits, Inv, Handler
    <3>2. task'[t].source = task[t].source
      BY <3>1 DEF Inv, TypeOK
    <3> QED
      BY <1>0, <3>2
  <2>7. ASSUME NEW u \in Tasks,
               \/ Prepare(u) \/ Write(u) \/ Return(u) \/ RevisionBranches(u)
               \/ RevisionCaptures(u) \/ RevisionGivesUp(u) \/ Lost(u)
               \/ CancelRevokes(u) \/ UserBranches(u) \/ UserCaptures(u)
        PROVE  UNCHANGED task
    BY <2>7 DEF Prepare, Write, Return, RevisionBranches, RevisionCaptures,
                RevisionGivesUp, Lost, CancelRevokes, UserBranches, UserCaptures, rows
  <2>8. ASSUME NEW c \in Rows,
               Accept(c) \/ Reject(c) \/ PullOpens(c) \/ Deploy(c) \/ BuildFails(c)
        PROVE  UNCHANGED task
    BY <2>8 DEF Accept, Reject, PullOpens, Deploy, BuildFails, rows
  <2>9. ASSUME \/ MessageCounts \/ PullCommits \/ PullPushes \/ PullAnswered \/ PullMarks
               \/ Crash \/ UNCHANGED vars
        PROVE  UNCHANGED task
    BY <2>9 DEF MessageCounts, PullCommits, PullPushes, PullAnswered, PullMarks, Crash,
                rows, vars
  <2> QED
    BY <2>1, <2>2, <2>3, <2>4, <2>5, <2>6, <2>7, <2>8, <2>9
       DEF Next, WorkerStep, PullStep, Rows
<1> QED
  BY <1>1, VerdictsStay

\* Revisions stay numbered in the order of their rows.
LEMMA ChainKept == Inv /\ [Next]_vars => Chain'
<1> SUFFICES ASSUME Inv, [Next]_vars, NEW c \in Rows'
             PROVE  /\ change'[c].index <= c
                    /\ change'[c].parent # 0 =>
                         /\ change'[c].parent \in Rows' /\ change'[c].parent < c
                         /\ change'[change'[c].parent].status = "REJECTED"
                         /\ change'[c].index = change'[change'[c].parent].index + 1
  BY DEF Chain
<1> DEFINE p == change'[c].parent
<1>1. CASE c \in Rows
  <2>1. /\ change'[c].parent = change[c].parent /\ change'[c].index = change[c].index
        /\ \A d \in Rows : change'[d].index = change[d].index
    BY <1>1, Grows DEF RowsGrow, RowKept
  <2>2. /\ change[c].index <= c
        /\ p # 0 => /\ p \in Rows /\ p < c /\ change[p].status = "REJECTED"
                    /\ change[c].index = change[p].index + 1
    BY <1>1, <2>1 DEF Inv, Chain
  <2> QED
    BY <2>1, <2>2, VerdictsStay
<1>2. CASE c \notin Rows
  <2>1. PICK t \in Tasks : change'[c] = Captured(t)
    BY <1>2, Grows DEF RowsGrow
  <2>2. c = Len(change) + 1 /\ Len(change) \in Nat /\ Rows = 1..Len(change)
    BY <1>2, Grows, RowTyped DEF RowsGrow, Inv
  <2>3. p = task[t].source
    BY <2>1 DEF Captured
  <2>4. CASE p = 0
    BY <2>1, <2>2, <2>3, <2>4 DEF Captured
  <2>5. CASE p # 0
    <3>1. p \in Rows /\ change[p].status = "REJECTED" /\ change[p].index <= p
      BY <2>3, <2>5 DEF Inv, Sources, Chain
    <3>2. change'[c].index = change[p].index + 1 /\ change[p].index \in Nat
      BY <2>1, <2>3, <2>5, <3>1, RowTyped, Numbers DEF Captured, Inv, Change
    <3>3. change'[p].index = change[p].index
      BY <3>1, Grows DEF RowsGrow, RowKept
    <3> QED
      BY <2>2, <3>1, <3>2, <3>3, VerdictsStay
  <2> QED
    BY <2>4, <2>5
<1> QED
  BY <1>1, <1>2

-----------------------------------------------------------------------------
(* Pull requests *)

\* What is pushed stays pushed, and a pull request stays open; the default branch
\* is never pushed.  Only the handler of an accepted change pushes, and only an
\* accepted one is previewed.
LEMMA HubGrows ==
    ASSUME Inv, [Next]_vars
    PROVE  /\ pulls \subseteq pulls'
           /\ \A b \in pulls' \ pulls : b \in Owners /\ MayOpen(b)
           /\ remote'[Main] = remote[Main]
           /\ \A b \in Branches :
                /\ remote[b] <= remote'[b]
                /\ remote'[b] # NoCommit =>
                     remote[b] # NoCommit \/ (api.pc = "push" /\ b = change[api.on].task)
           /\ \A b \in previews' :
                b \in previews \/ \E c \in Rows : MayPublish(c) /\ b = change[c].task
<1>0. /\ \A b \in Branches : remote[b] \in Nat
      /\ Main \in Branches
  BY Numbers DEF Inv, TypeOK, Commits, NoCommit
<1>1. ASSUME UNCHANGED <<hub, previews>>
      PROVE  UNCHANGED <<remote, pulls, previews>>
  BY <1>1 DEF hub
<1>2. CASE PullPushes
  <2> DEFINE branch == change[api.on].task
  <2>1. branch \in Owners /\ branch \in Branches /\ branch # Main
    BY <1>2, RowTyped, Numbers, CodeChangesAssumption
       DEF PullPushes, Inv, Handler, Pulling, Change, Owners, Tasks, Plan, Main
  <2>2. \/ UNCHANGED remote
        \/ \E tip \in remote[branch]..MaxCommits : remote' = [remote EXCEPT ![branch] = tip]
    BY <1>2 DEF PullPushes, Pushed, CallFails
  <2>3. api.pc = "push" /\ UNCHANGED <<pulls, previews>>
    BY <1>2 DEF PullPushes
  <2>4. CASE UNCHANGED remote
    BY <1>0, <2>3, <2>4
  <2>5. CASE \E tip \in remote[branch]..MaxCommits : remote' = [remote EXCEPT ![branch] = tip]
    <3>1. PICK tip \in remote[branch]..MaxCommits : remote' = [remote EXCEPT ![branch] = tip]
      BY <2>5
    <3>2. remote \in [Branches -> Commits] /\ remote[branch] <= tip
      BY <1>0, <2>1, <3>1, Numbers DEF Inv, TypeOK
    <3> QED
      BY <1>0, <2>1, <2>3, <3>1, <3>2
  <2> QED
    BY <2>2, <2>4, <2>5
<1>3. CASE PullAnswered
  <2>1. change[api.on].task \in Owners
    BY <1>3, RowTyped DEF PullAnswered, Inv, Handler, Pulling, Change
  <2>2. /\ UNCHANGED <<remote, previews>>
        /\ \/ UNCHANGED pulls
           \/ /\ pulls' = pulls \cup {change[api.on].task}
              /\ change[api.on].task \in pulls \/ MayOpen(change[api.on].task)
    BY <1>3 DEF PullAnswered
  <2> QED
    BY <1>0, <2>1, <2>2
<1>4. ASSUME NEW c \in Rows, Deploy(c) \/ BuildFails(c)
      PROVE  /\ UNCHANGED <<remote, pulls>>
             /\ \A b \in previews' : b \in previews \/ (MayPublish(c) /\ b = change[c].task)
  BY <1>4 DEF Deploy, BuildFails, hub
<1>5. ASSUME NEW t \in Tasks,
             WorkerStep(t) \/ Lost(t) \/ RetryTask(t) \/ CancelRevokes(t)
             \/ UserBranches(t) \/ UserCaptures(t)
      PROVE  UNCHANGED <<hub, previews>>
  BY <1>5 DEF WorkerStep, Start, Prepare, Write, Finish, Return, RevisionBranches,
              RevisionCaptures, RevisionGivesUp, Fail, Lost, RetryTask, CancelRevokes,
              UserBranches, UserCaptures
<1>6. ASSUME NEW c \in Rows, Revise(c) \/ Accept(c) \/ Reject(c) \/ PullOpens(c)
      PROVE  UNCHANGED <<hub, previews>>
  BY <1>6 DEF Revise, Accept, Reject, PullOpens
<1>7. ASSUME \/ MessageCounts \/ MessageCreates \/ PullCommits \/ PullMarks
             \/ CancelCommits \/ Crash \/ UNCHANGED vars
      PROVE  UNCHANGED <<hub, previews>>
  BY <1>7 DEF MessageCounts, MessageCreates, PullCommits, PullMarks, CancelCommits, Crash,
              hub, vars
<1>8. UNCHANGED <<remote, pulls>> =>
        /\ pulls' = pulls /\ remote'[Main] = remote[Main]
        /\ \A b \in Branches : remote[b] <= remote'[b] /\ remote'[b] = remote[b]
  BY <1>0
<1> QED
  BY <1>1, <1>2, <1>3, <1>4, <1>5, <1>6, <1>7, <1>8 DEF Next, PullStep, Rows

\* The handler of a pull request has the loop to itself until it answers.
LEMMA HandlerKept == Inv /\ [Next]_vars => Handler'
<1> SUFFICES ASSUME Inv, [Next]_vars PROVE Handler'
  OBVIOUS
<1> DEFINE Ready ==
       /\ api'.on \in Rows /\ change'[api'.on].status = "ACCEPTED"
       /\ api'.pc = "mark" => change[api'.on].task \in pulls'
<1>1. api'.pc \in Pulling /\ Ready => Handler'
  BY Grows DEF RowsGrow, RowKept, Handler, Pulling
<1>2. api'.pc = "idle" => Handler'
  BY DEF Handler, Pulling
<1>3. ASSUME UNCHANGED <<api, change>> PROVE Handler'
  <2>1. api.pc \in Pulling => change[api.on].task \in Branches
    BY RowTyped, Numbers DEF Inv, Handler, Change
  <2> QED
    BY <1>3, <2>1, HubGrows DEF Inv, Handler, Rows, Pulling
<1>4. ASSUME api.pc = "idle", UNCHANGED api PROVE Handler'
  BY <1>2, <1>4
<1>5. ASSUME UNCHANGED api, NEW t \in Tasks, RevisionCaptures(t) PROVE Handler'
  <2>1. \A c \in Rows : change'[c] = change[c] /\ c \in Rows'
    BY <1>5, CaptureGrows, RowAppended, CapturedTyped DEF RevisionCaptures, Inv, Rows
  <2>2. api.pc \in Pulling => change[api.on].task \in Branches
    BY RowTyped, Numbers DEF Inv, Handler, Change
  <2> QED
    BY <1>5, <2>1, <2>2, HubGrows DEF Inv, Handler, Pulling
<1>6. ASSUME NEW t \in Tasks, CancelRevokes(t) PROVE Handler'
  BY <1>6 DEF CancelRevokes, Free, Handler, Pulling
<1>7. CASE CancelCommits \/ PullMarks \/ Crash
  BY <1>2, <1>7 DEF CancelCommits, PullMarks, Crash, Free
<1>8. ASSUME NEW c \in Rows, PullOpens(c) PROVE Handler'
  BY <1>1, <1>8 DEF PullOpens, MayPublish, rows, Pulling
<1>9. CASE PullCommits
  <2>1. /\ api.on \in Rows /\ change[api.on].status = "ACCEPTED" /\ UNCHANGED change
    BY <1>9 DEF PullCommits, rows, Inv, Handler, Pulling
  <2>2. CASE api' = Free
    BY <1>2, <2>2 DEF Free
  <2>3. CASE api' # Free
    <3>1. api'.on = api.on /\ api'.pc = "push"
      BY <1>9, <2>3 DEF PullCommits, Inv, TypeOK
    <3> QED
      BY <1>1, <2>1, <3>1 DEF Pulling
  <2> QED
    BY <2>2, <2>3
<1>10. CASE PullPushes
  <2>1. /\ api.on \in Rows /\ change[api.on].status = "ACCEPTED" /\ UNCHANGED change
        /\ change[api.on].task \in Branches
    BY <1>10, RowTyped, Numbers DEF PullPushes, rows, Inv, Handler, Pulling, Change
  <2>2. CASE api' = Free
    BY <1>2, <2>2 DEF Free
  <2>3. CASE api' # Free
    <3>1. api'.on = api.on /\ api'.pc = "github"
      BY <1>10, <2>1, <2>3 DEF PullPushes, CallFails, ApiAt, Inv, TypeOK
    <3> QED
      BY <1>1, <2>1, <3>1 DEF Pulling
  <2> QED
    BY <2>2, <2>3
<1>11. CASE PullAnswered
  <2>1. api.on \in Rows /\ change[api.on].status = "ACCEPTED" /\ UNCHANGED change
    BY <1>11 DEF PullAnswered, rows, Inv, Handler, Pulling
  <2>2. CASE api' = Free
    BY <1>2, <2>2 DEF Free
  <2>3. CASE api' # Free
    <3>1. api'.on = api.on /\ api'.pc = "mark" /\ change[api.on].task \in pulls'
      BY <1>11, <2>3 DEF PullAnswered, CallFails, ApiAt, Inv, TypeOK
    <3> QED
      BY <1>1, <2>1, <3>1 DEF Pulling
  <2> QED
    BY <2>2, <2>3
<1>12. ASSUME NEW t \in Tasks,
              \/ Start(t) \/ Prepare(t) \/ Write(t) \/ Finish(t) \/ Return(t)
              \/ RevisionBranches(t) \/ RevisionGivesUp(t) \/ Fail(t) \/ Lost(t)
       PROVE  UNCHANGED <<api, change>>
  BY <1>12 DEF Start, Prepare, Write, Finish, Return, RevisionBranches, RevisionGivesUp,
               Fail, Lost, rows
<1>13. ASSUME NEW t \in Tasks, RevisionCaptures(t) PROVE UNCHANGED api
  BY <1>13 DEF RevisionCaptures
<1>14. ASSUME NEW t \in Tasks, RetryTask(t) \/ UserBranches(t) \/ UserCaptures(t)
       PROVE  api.pc = "idle" /\ UNCHANGED api
  BY <1>14 DEF RetryTask, UserBranches, UserCaptures, Idle
<1>15. ASSUME NEW c \in Rows, Revise(c) \/ Accept(c) \/ Reject(c) \/ Deploy(c) \/ BuildFails(c)
       PROVE  api.pc = "idle" /\ UNCHANGED api
  BY <1>15 DEF Revise, Accept, Reject, Deploy, BuildFails, Idle
<1>16. ASSUME MessageCounts \/ MessageCreates
       PROVE  api.pc = "idle" /\ UNCHANGED api
  BY <1>16 DEF MessageCounts, MessageCreates, Idle
<1>17. UNCHANGED vars => UNCHANGED <<api, change>>
  BY DEF vars
<1> QED
  BY <1>3, <1>4, <1>5, <1>6, <1>7, <1>8, <1>9, <1>10, <1>11, <1>12, <1>13, <1>14, <1>15,
     <1>16, <1>17
     DEF Next, WorkerStep, PullStep, Rows

\* GitHub keeps what a pull request was opened for.
LEMMA OpenedKept == Inv /\ [Next]_vars => Opened'
<1> SUFFICES ASSUME Inv, [Next]_vars, NEW b \in pulls'
             PROVE  b \in Owners /\ MayOpen(b)'
  BY DEF Opened
<1>1. b \in Owners /\ MayOpen(b)
  BY HubGrows DEF Inv, Opened
<1>2. /\ remote[b] \in Nat /\ remote[Main] \in Nat /\ remote'[b] \in Nat
      /\ b \in Branches
  <2>1. b \in Branches /\ Main \in Branches /\ Commits \subseteq Nat
    BY <1>1, Numbers DEF Commits, NoCommit
  <2>2. remote \in [Branches -> Commits] /\ remote' \in [Branches -> Commits]
    BY TypesKept DEF Inv, TypeOK
  <2> QED
    BY <2>1, <2>2
<1>3. remote[b] <= remote'[b] /\ remote'[Main] = remote[Main]
  BY <1>2, HubGrows
<1>4. remote'[Main] # NoCommit /\ remote'[b] > remote'[Main]
  BY <1>1, <1>2, <1>3 DEF MayOpen
<1> QED
  BY <1>1, <1>4 DEF MayOpen

\* COMMITTED is written by a handler that has its pull request.
LEMMA PublishedKept == Inv /\ [Next]_vars => CommittedIsPublished'
<1> SUFFICES ASSUME Inv, [Next]_vars, NEW c \in Rows', change'[c].status = "COMMITTED"
             PROVE  remote'[change'[c].task] > remote'[Main] /\ change'[c].task \in pulls'
  BY DEF CommittedIsPublished
<1>1. c \in Rows
  <2> SUFFICES ASSUME c \notin Rows PROVE FALSE
    OBVIOUS
  <2>1. PICK t \in Tasks : change'[c] = Captured(t)
    BY Grows DEF RowsGrow
  <2> QED
    BY <2>1 DEF Captured
<1>2. change'[c].task = change[c].task /\ RowKept(c)
  BY <1>1, Grows DEF RowsGrow, RowKept
<1>3. change[c].task \in pulls
  BY <1>1, <1>2 DEF RowKept, Inv, Handler, CommittedIsPublished
<1>4. change'[c].task \in pulls'
  BY <1>2, <1>3, HubGrows
<1> QED
  BY <1>4, OpenedKept DEF Opened, MayOpen

\* What is published or previewed has an accepted change, and keeps it.
LEMMA UnreviewedKept == Inv /\ [Next]_vars => NothingUnreviewed'
<1> SUFFICES ASSUME Inv, [Next]_vars, NEW b \in Owners,
                    remote'[b] # NoCommit \/ b \in previews'
             PROVE  \E c \in Rows' : change'[c].task = b /\ Reviewed(c)'
  BY DEF NothingUnreviewed, Of
<1>1. PICK c \in Rows : change[c].task = b /\ Reviewed(c)
  <2>1. CASE remote[b] # NoCommit \/ b \in previews
    BY <2>1 DEF Inv, NothingUnreviewed, Of
  <2>2. CASE api.pc = "push" /\ b = change[api.on].task
    BY <2>2 DEF Inv, Handler, Pulling, Reviewed
  <2>3. CASE \E c \in Rows : MayPublish(c) /\ b = change[c].task
    BY <2>3 DEF MayPublish, Reviewed
  <2> QED
    BY <2>1, <2>2, <2>3, HubGrows, Numbers
<1> QED
  BY <1>1, VerdictsStay

-----------------------------------------------------------------------------
(* Runs *)

\* A new task has no run, or one that waits.
LEMMA CreatesRun ==
    ASSUME Inv, NEW source, Creates(source), NEW t \in Tasks
    PROVE  \/ task'[t].status = task[t].status /\ run'[t] = run[t]
           \/ task'[t].status = "PENDING" /\ run'[t] \in {"queued", "stuck"}
<1>1. PICK u \in Tasks, sent \in {"queued", "stuck"} :
        /\ task' = [task EXCEPT ![u] = [status |-> "PENDING", source |-> source]]
        /\ run' = [run EXCEPT ![u] = sent]
  BY DEF Creates
<1> QED
  BY <1>1 DEF Inv, TypeOK

\* Where a run stands, with the status of its task: what a step may do to both.
RunMoves(t) ==
    \/ task'[t].status \in {task[t].status, "CANCELLED"} /\ run'[t] = run[t]
    \/ task'[t].status = "PENDING" /\ run'[t] \in {"queued", "stuck"}
    \/ run'[t] \in {"started", "ready", "queued", "killed"}
    \/ task'[t].status \in {"SUCCESS", "FAILED"}
    \/ /\ task'[t].status = task[t].status /\ run[t] \in {"finished", "branched"}
       /\ run'[t] \in {"finished", "branched", "ended"}

\* Only a worker that has written its result, or fails, leaves the task behind.
LEMMA RunsMove ==
    ASSUME Inv, [Next]_vars, NEW t \in Tasks
    PROVE  RunMoves(t)
<1>1. ASSUME UNCHANGED <<task, run>> PROVE RunMoves(t)
  BY <1>1 DEF RunMoves
<1>2. ASSUME NEW source, Creates(source) PROVE RunMoves(t)
  BY <1>2, CreatesRun DEF RunMoves
<1>3. ASSUME NEW u \in Tasks, NEW at \in {"started", "ready", "queued", "killed"},
             UNCHANGED task \/ (\E status : task' = [task EXCEPT ![u].status = status]),
             run' = [run EXCEPT ![u] = at]
      PROVE  RunMoves(t)
  BY <1>3 DEF RunMoves, Inv, TypeOK
<1>4. ASSUME NEW u \in Tasks, NEW at, NEW status \in {"SUCCESS", "FAILED"},
             task' = [task EXCEPT ![u].status = status],
             run' = [run EXCEPT ![u] = at]
      PROVE  RunMoves(t)
  BY <1>4 DEF RunMoves, Inv, TypeOK
<1>5. ASSUME NEW u \in Tasks, NEW at \in {"branched", "ended"},
             run[u] \in {"finished", "branched"}, UNCHANGED task,
             run' = [run EXCEPT ![u] = at]
      PROVE  RunMoves(t)
  BY <1>5 DEF RunMoves, Inv, TypeOK
<1>6. ASSUME NEW u \in Tasks, Start(u) \/ Prepare(u) PROVE RunMoves(t)
  BY <1>3, <1>6 DEF Start, Prepare, rows
<1>7. ASSUME NEW u \in Tasks, Lost(u) PROVE RunMoves(t)
  BY <1>3, <1>7 DEF Lost, rows
<1>8. ASSUME NEW u \in Tasks, CancelRevokes(u) PROVE RunMoves(t)
  BY <1>1, <1>3, <1>8 DEF CancelRevokes, rows
<1>9. ASSUME NEW u \in Tasks, Finish(u) \/ Fail(u) PROVE RunMoves(t)
  BY <1>4, <1>9 DEF Finish, Fail
<1>10. ASSUME NEW u \in Tasks,
              Return(u) \/ RevisionBranches(u) \/ RevisionCaptures(u) \/ RevisionGivesUp(u)
       PROVE  RunMoves(t)
  BY <1>5, <1>10 DEF Return, RevisionBranches, RevisionCaptures, RevisionGivesUp, rows
<1>11. CASE CancelCommits
  <2>1. PICK u \in Tasks : /\ task' = [task EXCEPT ![u].status = "CANCELLED"]
                           /\ UNCHANGED run
    BY <1>11 DEF CancelCommits, Inv, Handler
  <2> QED
    BY <2>1 DEF RunMoves, Inv, TypeOK
<1>12. ASSUME NEW u \in Tasks, RetryTask(u) PROVE RunMoves(t)
  BY <1>2, <1>12 DEF RetryTask
<1>13. ASSUME NEW c \in Rows, Revise(c) PROVE RunMoves(t)
  BY <1>2, <1>13 DEF Revise
<1>14. CASE MessageCreates
  BY <1>2, <1>14 DEF MessageCreates
<1>15. ASSUME NEW u \in Tasks, Write(u) \/ UserBranches(u) \/ UserCaptures(u)
       PROVE  UNCHANGED <<task, run>>
  BY <1>15 DEF Write, UserBranches, UserCaptures, rows
<1>16. ASSUME NEW c \in Rows,
              Accept(c) \/ Reject(c) \/ PullOpens(c) \/ Deploy(c) \/ BuildFails(c)
       PROVE  UNCHANGED <<task, run>>
  BY <1>16 DEF Accept, Reject, PullOpens, Deploy, BuildFails, rows
<1>17. ASSUME \/ MessageCounts \/ PullCommits \/ PullPushes \/ PullAnswered \/ PullMarks
              \/ Crash \/ UNCHANGED vars
       PROVE  UNCHANGED <<task, run>>
  BY <1>17 DEF MessageCounts, PullCommits, PullPushes, PullAnswered, PullMarks, Crash,
               rows, vars
<1> QED
  BY <1>1, <1>6, <1>7, <1>8, <1>9, <1>10, <1>11, <1>12, <1>13, <1>14, <1>15, <1>16, <1>17
     DEF Next, WorkerStep, PullStep, Rows

\* A task whose run has its result stays closed.
LEMMA ClosedKept == Inv /\ [Next]_vars => Closed'
<1> SUFFICES ASSUME Inv, [Next]_vars, NEW t \in Tasks,
                    run'[t] \in {"finished", "branched", "ended"}
             PROVE  task'[t].status \notin Active
  BY DEF Closed
<1> QED
  BY RunsMove DEF RunMoves, Inv, Closed, Active

\* A task that is still open has a run, a message or a killed worker.
LEMMA AbandonedKept == Inv /\ [Next]_vars => NothingAbandoned'
<1> SUFFICES ASSUME Inv, [Next]_vars, NEW t \in Tasks, task'[t].status \in Active
             PROVE  run'[t] \in InWorker \cup {"queued", "stuck", "killed"}
  BY DEF NothingAbandoned
<1> QED
  BY RunsMove DEF RunMoves, Inv, Closed, NothingAbandoned, Active, InWorker

-----------------------------------------------------------------------------
(* Theorems *)

\* Nothing is published, and no change answers another.
LEMMA InitInv == Init => Inv
<1> SUFFICES ASSUME Init PROVE Inv
  OBVIOUS
<1>1. TypeOK
  BY InitTypes
<1>2. PICK main \in {NoCommit, 1}, planned \in BOOLEAN : Cloned(main, planned, Main, FALSE)
  BY DEF Init
<1>3. \A c \in Rows : /\ c = 1 /\ change[c].status = "GENERATED"
                      /\ change[c].parent = 0 /\ change[c].index = 1
  BY <1>2 DEF Cloned, Rows
<1>4. \A t \in Tasks : task[t].source = 0 /\ task[t].status = "none" /\ run[t] = "none"
  BY DEF Init, NoTask
<1>5. /\ \A b \in Owners : remote[b] = NoCommit /\ b \notin previews
      /\ pulls = {}
  BY Numbers, CodeChangesAssumption DEF Init, NothingPublished, Owners, Tasks, Plan, Main
<1>6. api.pc = "idle"
  BY DEF Init, NothingPublished, Free
<1>7. Sources /\ Chain /\ Closed /\ CommittedIsPublished /\ NothingAbandoned
  BY <1>3, <1>4 DEF Sources, Chain, Closed, CommittedIsPublished, NothingAbandoned, Active
<1>8. Handler /\ Opened /\ NothingUnreviewed
  BY <1>5, <1>6 DEF Handler, Opened, Pulling, NothingUnreviewed
<1> QED
  BY <1>1, <1>7, <1>8 DEF Inv

\* The invariant holds in every reachable state.
THEOREM Invariance == Spec => []Inv
<1>1. Inv /\ [Next]_vars => Inv'
  BY TypesKept, SourcesKept, ChainKept, HandlerKept, OpenedKept, ClosedKept, PublishedKept,
     UnreviewedKept, AbandonedKept
     DEF Inv
<1> QED
  BY InitInv, <1>1, PTL DEF Spec

\* Whatever workers, requests and crashes interleave, rows, runs, the clone and
\* GitHub keep their types.
THEOREM TypeCorrect == Spec => []TypeOK
<1>1. Inv => TypeOK
  BY DEF Inv
<1> QED
  BY <1>1, Invariance, PTL

\* The branch of a change called COMMITTED is on GitHub, ahead of the default
\* branch, with its pull request, whatever was refused or failed before the status
\* was written.
THEOREM CommittedIsPublishedAlways == Spec => []CommittedIsPublished
<1>1. Inv => CommittedIsPublished
  BY DEF Inv
<1> QED
  BY <1>1, Invariance, PTL

\* Nothing is pushed or previewed before a user has accepted a change of its
\* branch, and nobody takes the acceptance back.
THEOREM NothingUnreviewedAlways == Spec => []NothingUnreviewed
<1>1. Inv => NothingUnreviewed
  BY DEF Inv
<1> QED
  BY <1>1, Invariance, PTL

\* Revisions, and retries of the tasks that make them, answer a rejected change
\* and number the chain without a gap.
THEOREM RevisionFollowsRejectAlways == Spec => []RevisionFollowsReject
<1>1. Inv => RevisionFollowsReject
  BY DEF Inv, Sources, Chain, RevisionFollowsReject, Existing
<1> QED
  BY <1>1, Invariance, PTL

\* A run that returned has closed its task.
THEOREM NothingAbandonedAlways == Spec => []NothingAbandoned
<1>1. Inv => NothingAbandoned
  BY DEF Inv
<1> QED
  BY <1>1, Invariance, PTL
=============================================================================

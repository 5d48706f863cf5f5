------------------------ MODULE ExecutionSafety_proofs ------------------------
(***************************************************************************)
(* Proofs about the execution of a plan, for every plan, every number of   *)
(* dispatchers and cancellations, and every combination of faults: type    *)
(* correctness, and the safety theorems that follow from ExecutionInv,     *)
(* which is inductive: one CodeChange, one run per generation, merged      *)
(* means on the branch, revival needs a retry, and the execution           *)
(* implements its contract.                                                *)
(***************************************************************************)
EXTENDS ExecutionInvariants, TLAPS

-----------------------------------------------------------------------------
(* Type correctness                                                        *)

\* The rest of a chain is a canvas again (build_orchestrator_canvas).
LEMMA SuccessorType ==
    ASSUME NEW r \in Canvas
    PROVE  Successor(r) \in Canvas
<1>1. CASE r.stage = "prepare"
  BY <1>1 DEF Successor, Canvas
<1>2. CASE r.stage = "wave"
  <2>1. [s \in Steps |-> IF WaveOf[s] = r.wave THEN "queued" ELSE r.step[s]]
            \in [Steps -> {"idle", "queued", "working", "done"}]
    BY DEF Canvas
  <2> QED
    BY <1>2, <2>1 DEF Successor, Canvas
<1>3. CASE r.stage = "merge"
  <2>1. r.wave < LastWave => r.wave + 1 \in Waves
    BY PlanAssumption DEF Canvas, Waves
  <2> QED
    BY <1>3, <2>1 DEF Successor, AfterMerge, Canvas
<1>4. CASE r.stage \notin {"prepare", "wave", "merge"}
  BY <1>4 DEF Successor, Canvas
<1> QED
  BY <1>1, <1>2, <1>3, <1>4

LEMMA AdvanceType ==
    ASSUME TypeOK, NEW c \in Dispatchers, Advance(c)
    PROVE  canvas' \in [Dispatchers -> Canvas]
BY SuccessorType DEF Advance, TypeOK

LEMMA StepReturnsType ==
    ASSUME TypeOK, NEW c \in Dispatchers, NEW s \in Steps, StepReturns(c, s)
    PROVE  canvas' \in [Dispatchers -> Canvas]
<1> DEFINE r == [canvas[c] EXCEPT !.step[s] = "done"]
<1>1. r \in Canvas
  <2>1. [canvas[c].step EXCEPT ![s] = "done"]
            \in [Steps -> {"idle", "queued", "working", "done"}]
    BY DEF TypeOK, Canvas
  <2>2. canvas[c] \in Canvas
    BY DEF TypeOK
  <2> QED
    BY <2>1, <2>2 DEF Canvas
<1>2. [r EXCEPT !.stage = "merge"] \in Canvas
  BY <1>1 DEF Canvas
<1>3. canvas' = [canvas EXCEPT ![c] = IF Joined(r) THEN [r EXCEPT !.stage = "merge"] ELSE r]
  BY DEF StepReturns
<1> HIDE DEF r
<1> QED
  BY <1>1, <1>2, <1>3 DEF TypeOK

\* apply_async puts the first message of the canvas on the broker.
LEMMA PublishType ==
    ASSUME TypeOK, NEW d \in Dispatchers, Publish(d)
    PROVE  canvas' \in [Dispatchers -> Canvas]
<1>1. canvas[d] \in Canvas
  BY DEF TypeOK
<1>2. [canvas[d] EXCEPT !.stage = "prepare"] \in Canvas
  BY <1>1 DEF Canvas
<1> QED
  BY <1>2 DEF Publish, TypeOK

LEMMA FailParentType ==
    ASSUME TypeOK, NEW plan \in PlanStatus, FailParent(plan)
    PROVE  parent' \in Parent
BY DEF FailParent, TypeOK, Parent, Terminal, Status

LEMMA FoldType ==
    ASSUME TypeOK, NEW S
    PROVE  Fold(S) \in [Steps -> Child]
BY DEF Fold, TypeOK, Child, MergeStatus

\* Picks only takes commits that exist.
LEMMA PicksType ==
    ASSUME TypeOK, NEW S \in SUBSET Steps
    PROVE  Picks(S) \subseteq Commits
BY DEF Picks, TypeOK, Child, Commits, Maybe

LEMMA TypeInit == Init => TypeOK
<1> SUFFICES ASSUME Init PROVE TypeOK
  OBVIOUS
<1>1. 0 \in Waves
  BY PlanAssumption DEF Waves
<1>2. parent \in Parent
  BY DEF Init, Parent, Terminal, Status, PlanStatus, Maybe
<1>3. child \in [Steps -> Child]
  BY DEF Init, NewChild, Child, Status, MergeStatus, Maybe
<1>4. canvas \in [Dispatchers -> Canvas]
  BY <1>1 DEF Init, NoCanvas, Canvas, Maybe
<1>5. disp \in [Dispatchers -> Dispatcher]
  BY <1>1 DEF Init, Dispatcher
<1>6. canceller \in [Cancellers -> Canceller]
  BY DEF Init, Canceller
<1> QED
  BY <1>2, <1>3, <1>4, <1>5, <1>6 DEF Init, TypeOK

\* prepare_execution and prepare_wave.
LEMMA TypePrepare ==
    ASSUME TypeOK, NEW c \in Dispatchers,
           \/ CallbackSkipped(c)
           \/ PrepareReuses(c) \/ PrepareReads(c) \/ PrepareCommits(c)
           \/ PrepareFails(c)
           \/ WaveReads(c) \/ WaveCommits(c) \/ WaveFails(c)
    PROVE  TypeOK'
<1>1. CASE CallbackSkipped(c) \/ PrepareReuses(c)
  BY <1>1, AdvanceType DEF CallbackSkipped, PrepareReuses, TypeOK
<1>2. CASE PrepareReads(c)
  <2>1. canvas[c] \in Canvas
    BY DEF TypeOK
  <2>2. [canvas[c] EXCEPT !.busy = TRUE] \in Canvas
    BY <2>1 DEF Canvas
  <2> QED
    BY <1>2, <2>2 DEF PrepareReads, TypeOK
<1>3. CASE PrepareCommits(c)
  <2>1. parent' \in Parent
    BY <1>3 DEF PrepareCommits, TypeOK, Parent, Terminal, Status, PlanStatus
  <2>2. canvas[c].gen \in Nat
    BY DEF TypeOK, Canvas
  <2>3. child' \in [Steps -> Child]
    <3>1. ASSUME NEW s \in Steps
          PROVE  [child[s] EXCEPT !.merge = "pending", !.base = {},
                                  !.gen = canvas[c].gen] \in Child
      <4>1. child[s] \in Child
        BY DEF TypeOK
      <4> QED
        BY <2>2, <4>1 DEF Child, MergeStatus
    <3> QED
      BY <1>3, <3>1 DEF PrepareCommits
  <2>4. trees' \subseteq Trees
    BY <1>3 DEF PrepareCommits, TypeOK, Trees
  <2> QED
    BY <1>3, <2>1, <2>3, <2>4, AdvanceType DEF PrepareCommits, TypeOK
<1>4. CASE PrepareFails(c)
  BY <1>4, AdvanceType, FailParentType
  DEF PrepareFails, TypeOK, Trees, PlanStatus
<1>5. CASE WaveReads(c)
  <2>1. canvas[c] \in Canvas /\ applied \in SUBSET Commits
    BY DEF TypeOK
  <2> DEFINE todo == {s \in WaveSteps(canvas[c].wave) :
                        ~(child[s].status = "SUCCESS" /\ child[s].commit # None)}
  <2>2. todo \in SUBSET Steps
    BY DEF WaveSteps
  <2>3. [canvas[c] EXCEPT !.busy = TRUE, !.base = applied, !.todo = todo]
            \in Canvas
    BY <2>1, <2>2 DEF Canvas
  <2> QED
    BY <1>5, <2>3 DEF WaveReads, TypeOK
<1>6. CASE WaveCommits(c)
  <2>1. canvas[c].todo \subseteq Steps /\ canvas[c].base \subseteq Commits
    BY DEF TypeOK, Canvas
  <2>2. child' \in [Steps -> Child]
    BY <1>6, <2>1 DEF WaveCommits, TypeOK, Child
  <2> QED
    BY <1>6, <2>1, <2>2, AdvanceType DEF WaveCommits, TypeOK, Trees
<1>7. CASE WaveFails(c)
  <2>1. canvas[c].todo \subseteq Steps /\ parent.plan \in PlanStatus
    BY DEF TypeOK, Canvas, Parent, Terminal
  <2> QED
    BY <1>7, <2>1, AdvanceType, FailParentType DEF WaveFails, TypeOK, Trees
<1> QED
  BY <1>1, <1>2, <1>3, <1>4, <1>5, <1>6, <1>7

\* execute_step.
LEMMA TypeStep ==
    ASSUME TypeOK, NEW c \in Dispatchers, NEW s \in Steps, Step(c, s)
    PROVE  TypeOK'
<1>1. CASE StepSkips(c, s) \/ StepDiscarded(c, s)
  BY <1>1, StepReturnsType DEF StepSkips, StepDiscarded, TypeOK
<1>2. CASE StepRefused(c, s) \/ StepFails(c, s)
  <2>1. child' \in [Steps -> Child]
    BY <1>2 DEF StepRefused, StepFails, TypeOK, Child, Status
  <2> QED
    BY <1>2, <2>1, StepReturnsType DEF StepRefused, StepFails, TypeOK
<1>3. CASE StepClaims(c, s)
  <2>1. child' \in [Steps -> Child]
    <3>1. child[s] \in Child
      BY DEF TypeOK
    <3>2. [child[s] EXCEPT !.status = "RUNNING", !.claim = c] \in Child
      BY <3>1 DEF Child, Status, Maybe
    <3> QED
      BY <1>3, <3>2 DEF StepClaims, TypeOK
  <2>2. [canvas[c].step EXCEPT ![s] = "working"]
            \in [Steps -> {"idle", "queued", "working", "done"}]
    BY DEF TypeOK, Canvas
  <2>3. canvas' \in [Dispatchers -> Canvas]
    <3>1. canvas[c] \in Canvas
      BY DEF TypeOK
    <3>2. [canvas[c] EXCEPT !.step[s] = "working"] \in Canvas
      BY <2>2, <3>1 DEF Canvas
    <3> QED
      BY <1>3, <3>2 DEF StepClaims, TypeOK
  <2> QED
    BY <1>3, <2>1, <2>3 DEF StepClaims, TypeOK
<1>4. CASE StepSucceeds(c, s)
  <2>1. child' \in [Steps -> Child]
    <3>1. PICK changed \in BOOLEAN :
            child' = [child EXCEPT ![s].status = "SUCCESS",
                                   ![s].commit = IF changed THEN c ELSE None,
                                   ![s].merge = IF changed THEN "ready"
                                                           ELSE "skipped"]
      BY <1>4 DEF StepSucceeds
    <3>2. child[s] \in Child
      BY DEF TypeOK
    <3>3. [child[s] EXCEPT !.status = "SUCCESS",
                           !.commit = IF changed THEN c ELSE None,
                           !.merge = IF changed THEN "ready" ELSE "skipped"]
              \in Child
      BY <3>2 DEF Child, Status, MergeStatus, Maybe
    <3> QED
      BY <3>1, <3>3 DEF TypeOK
  <2> QED
    BY <1>4, <2>1, StepReturnsType DEF StepSucceeds, TypeOK
<1> QED
  BY <1>1, <1>2, <1>3, <1>4 DEF Step

\* merge_wave.
LEMMA TypeMerge ==
    ASSUME TypeOK, NEW c \in Dispatchers,
           \/ MergeRepeated(c) \/ MergeFindsFailure(c) \/ MergeSucceeds(c)
           \/ MergeConflicts(c) \/ MergeFails(c)
    PROVE  TypeOK'
<1>1. parent.plan \in PlanStatus
  BY DEF TypeOK, Parent, Terminal
<1>2. Pending(c) \subseteq Steps
  BY DEF Pending, WaveSteps
<1>3. CASE MergeRepeated(c)
  BY <1>3, AdvanceType DEF MergeRepeated, TypeOK
<1>4. CASE MergeFindsFailure(c)
  BY <1>1, <1>4, AdvanceType, FailParentType DEF MergeFindsFailure, TypeOK
<1>5. CASE MergeSucceeds(c)
  BY <1>2, <1>5, AdvanceType, FoldType, PicksType DEF MergeSucceeds, TypeOK
<1>6. CASE MergeConflicts(c)
  <2>1. PICK k \in Pending(c) :
          LET S == {s \in Pending(c) : s < k} IN
          /\ child' = [Fold(S) EXCEPT ![k].merge = "conflict"]
          /\ applied' = applied \cup Picks(S)
          /\ trees' = trees \ S
    BY <1>6 DEF MergeConflicts
  <2> DEFINE S == {s \in Pending(c) : s < k}
  <2>2. Fold(S) \in [Steps -> Child] /\ Picks(S) \subseteq Commits
    BY <1>2, FoldType, PicksType
  <2>3. child' \in [Steps -> Child]
    BY <2>1, <2>2 DEF Child, MergeStatus
  <2> QED
    BY <1>1, <1>6, <2>1, <2>2, <2>3, AdvanceType, FailParentType
    DEF MergeConflicts, TypeOK
<1>7. CASE MergeFails(c)
  <2>1. PICK k \in Pending(c), at \in {"untouched", "picked", "marked"} :
          LET S == {s \in Pending(c) : s < k}
              picked == IF at = "untouched" THEN S ELSE S \cup {k}
              marked == IF at = "marked" THEN S \cup {k} ELSE S
          IN  /\ child' = Fold(marked)
              /\ applied' = applied \cup Picks(picked)
              /\ trees' = trees \ S
    BY <1>7 DEF MergeFails
  <2> DEFINE S == {s \in Pending(c) : s < k}
             picked == IF at = "untouched" THEN S ELSE S \cup {k}
             marked == IF at = "marked" THEN S \cup {k} ELSE S
  <2>2. Fold(marked) \in [Steps -> Child] /\ Picks(picked) \subseteq Commits
    BY <1>2, FoldType, PicksType
  <2> QED
    BY <1>1, <1>7, <2>1, <2>2, AdvanceType, FailParentType
    DEF MergeFails, TypeOK
<1> QED
  BY <1>3, <1>4, <1>5, <1>6, <1>7

\* finalize_execution.
LEMMA TypeFinalize ==
    ASSUME TypeOK, NEW c \in Dispatchers,
           \/ FinalizeReturns(c) \/ FinalizeReads(c) \/ FinalizeCommits(c)
           \/ FinalizeFails(c) \/ FinalizeCleans(c) \/ FinalizeCleanupFails(c)
    PROVE  TypeOK'
<1>1. CASE FinalizeReturns(c)
  BY <1>1, AdvanceType DEF FinalizeReturns, TypeOK
<1>2. CASE FinalizeReads(c)
  <2>1. canvas[c] \in Canvas
    BY DEF TypeOK
  <2>2. [canvas[c] EXCEPT !.busy = TRUE] \in Canvas
    BY <2>1 DEF Canvas
  <2> QED
    BY <1>2, <2>2 DEF FinalizeReads, TypeOK
<1>3. CASE FinalizeCommits(c)
  <2>1. canvas[c] \in Canvas /\ parent \in Parent
    BY DEF TypeOK
  <2>2. [canvas[c] EXCEPT !.stage = "cleanup"] \in Canvas
    BY <2>1 DEF Canvas
  <2>3. parent' \in Parent
    BY <1>3, <2>1 DEF FinalizeCommits, Parent, Terminal, Status, PlanStatus
  <2>4. codeChanges' \in [named : Nat, orphaned : Nat]
    BY <1>3 DEF FinalizeCommits, TypeOK
  <2> QED
    BY <1>3, <2>2, <2>3, <2>4 DEF FinalizeCommits, TypeOK
<1>4. CASE FinalizeFails(c)
  <2>1. codeChanges' \in [named : Nat, orphaned : Nat]
    BY <1>4 DEF FinalizeFails, TypeOK
  <2> QED
    BY <1>4, <2>1, AdvanceType, FailParentType DEF FinalizeFails, TypeOK, PlanStatus
<1>5. CASE FinalizeCleans(c)
  BY <1>5, AdvanceType DEF FinalizeCleans, TypeOK
<1>6. CASE FinalizeCleanupFails(c)
  BY <1>6, AdvanceType DEF FinalizeCleanupFails, TypeOK
<1> QED
  BY <1>1, <1>2, <1>3, <1>4, <1>5, <1>6

\* dispatch_orchestrator_execution and retry_failed_orchestrator.
LEMMA TypeDispatch ==
    ASSUME TypeOK, NEW d \in Dispatchers, Dispatch(d) \/ RetryCommits(d)
    PROVE  TypeOK'
<1>1. CASE DispatchFindsQueued(d)
  BY <1>1 DEF DispatchFindsQueued, TypeOK, Dispatcher
<1>2. CASE DispatchBuilds(d)
  <2>1. disp[d] \in Dispatcher /\ parent \in Parent /\ canvas[d] \in Canvas
    BY DEF TypeOK
  <2>2. parent' \in Parent
    BY <1>2, <2>1 DEF DispatchBuilds, Parent, Terminal, Maybe, PlanStatus
  <2>3. canvas' \in [Dispatchers -> Canvas]
    <3> DEFINE gen == IF parent.gen = 0 THEN 1 ELSE parent.gen
               ids == IF Republish THEN parent.ids ELSE d
               built == [canvas[d] EXCEPT !.stage = "built", !.gen = gen,
                                          !.ids = ids, !.start = disp[d].start,
                                          !.wave = disp[d].start]
    <3>1. canvas' = [canvas EXCEPT ![d] = built]
      BY <1>2 DEF DispatchBuilds
    <3>2. gen \in Nat /\ ids \in Maybe(Dispatchers)
      BY <2>1 DEF Parent, Terminal, Maybe
    <3>3. built \in Canvas
      <4> HIDE DEF gen, ids
      <4> QED
        BY <2>1, <3>2 DEF Canvas, Dispatcher
    <3> HIDE DEF built
    <3> QED
      BY <3>1, <3>3 DEF TypeOK
  <2>4. disp' \in [Dispatchers -> Dispatcher]
    BY <1>2 DEF DispatchBuilds, TypeOK, Dispatcher
  <2> QED
    BY <1>2, <2>2, <2>3, <2>4 DEF DispatchBuilds, TypeOK
<1>3. CASE DispatchMismatches(d)
  BY <1>3, FailParentType DEF DispatchMismatches, TypeOK, Dispatcher, PlanStatus
<1>4. CASE DispatchPublishes(d)
  BY <1>4, PublishType DEF DispatchPublishes, TypeOK, Dispatcher
<1>5. CASE DispatchPublishFails(d)
  <2>1. canvas' \in [Dispatchers -> Canvas]
    BY <1>5, PublishType DEF DispatchPublishFails, TypeOK
  <2>2. parent' \in Parent
    BY <1>5, FailParentType DEF DispatchPublishFails, TypeOK, PlanStatus
  <2> QED
    BY <1>5, <2>1, <2>2 DEF DispatchPublishFails, TypeOK, Dispatcher
<1>6. CASE DispatchConfirms(d)
  <2>1. parent' \in Parent
    BY <1>6 DEF DispatchConfirms, TypeOK, Parent, Terminal, PlanStatus
  <2> QED
    BY <1>6, <2>1 DEF DispatchConfirms, TypeOK, Dispatcher
<1>7. CASE RetryPersists(d)
  BY <1>7, FailParentType DEF RetryPersists, TypeOK, Dispatcher, PlanStatus
<1>8. CASE RetryCommits(d)
  <2>1. parent.gen + 1 \in Nat
    BY DEF TypeOK, Parent, Terminal
  <2>2. parent' \in Parent
    BY <1>8, <2>1 DEF RetryCommits, TypeOK, Parent, Terminal, Status, PlanStatus
  <2>3. child' \in [Steps -> Child]
    <3>1. ASSUME NEW s \in Steps
          PROVE  [child[s] EXCEPT !.status = "PENDING", !.claim = None,
                                  !.commit = None, !.merge = "pending",
                                  !.gen = parent.gen + 1] \in Child
      <4>1. child[s] \in Child
        BY DEF TypeOK
      <4> QED
        BY <2>1, <4>1 DEF Child, Status, MergeStatus, Maybe
    <3> QED
      BY <1>8, <3>1 DEF RetryCommits, TypeOK
  <2>4. disp' \in [Dispatchers -> Dispatcher]
    <3>1. PICK w \in Waves :
            disp' = [disp EXCEPT ![d] = [pc |-> "build", start |-> w,
                                         gen |-> parent.gen + 1]]
      BY <1>8 DEF RetryCommits
    <3>2. [pc |-> "build", start |-> w, gen |-> parent.gen + 1] \in Dispatcher
      BY <2>1 DEF Dispatcher
    <3> QED
      BY <3>1, <3>2 DEF TypeOK
  <2> QED
    BY <1>8, <2>2, <2>3, <2>4 DEF RetryCommits, TypeOK
<1> QED
  BY <1>1, <1>2, <1>3, <1>4, <1>5, <1>6, <1>7, <1>8 DEF Dispatch

\* cancel_orchestrator.
LEMMA TypeCancel ==
    ASSUME TypeOK, NEW k \in Cancellers, CancelCommits(k) \/ Cancel(k)
    PROVE  TypeOK'
<1>1. CASE CancelCommits(k)
  <2>1. parent.gen + 1 \in Nat
    BY DEF TypeOK, Parent, Terminal
  <2>2. parent' \in Parent
    BY <1>1, <2>1 DEF CancelCommits, TypeOK, Parent, Terminal, Status
  <2>3. child' \in [Steps -> Child]
    BY <1>1 DEF CancelCommits, TypeOK, Child, Status
  <2>4. canceller' \in [Cancellers -> Canceller]
    BY <1>1, <2>1 DEF CancelCommits, TypeOK, Canceller, Revocable
  <2> QED
    BY <1>1, <2>2, <2>3, <2>4 DEF CancelCommits, TypeOK
<1>2. CASE CancelRevokes(k)
  <2>1. \A r \in Canvas, t \in BOOLEAN : Revoked(r, t) \in Canvas
    <3> TAKE r \in Canvas, t \in BOOLEAN
    <3>1. [s \in Steps |-> IF r.step[s] = "queued" \/ (r.step[s] = "working" /\ t)
                           THEN "done" ELSE r.step[s]]
              \in [Steps -> {"idle", "queued", "working", "done"}]
      BY DEF Canvas
    <3> QED
      BY <3>1 DEF Revoked, Canvas
  <2>2. canvas' \in [Dispatchers -> Canvas]
    BY <1>2, <2>1 DEF CancelRevokes, TypeOK
  <2> QED
    BY <1>2, <2>2 DEF CancelRevokes, TypeOK, Canceller
<1>3. CASE CancelCleans(k)
  BY <1>3 DEF CancelCleans, TypeOK, Canceller
<1>4. CASE CancelCleanupFails(k)
  BY <1>4 DEF CancelCleanupFails, TypeOK, Canceller
<1>5. CASE CancelReports(k)
  <2>1. parent' \in Parent
    BY <1>5 DEF CancelReports, TypeOK, Parent, Terminal, PlanStatus
  <2> QED
    BY <1>5, <2>1 DEF CancelReports, TypeOK, Canceller
<1> QED
  BY <1>1, <1>2, <1>3, <1>4, <1>5 DEF Cancel

LEMMA TypeNext == TypeOK /\ [Next]_vars => TypeOK'
<1> SUFFICES ASSUME TypeOK, [Next]_vars PROVE TypeOK'
  OBVIOUS
<1>1. CASE UNCHANGED vars
  BY <1>1 DEF vars, TypeOK
<1>2. ASSUME NEW c \in Dispatchers, Callback(c) PROVE TypeOK'
  BY <1>2, TypePrepare, TypeStep, TypeMerge, TypeFinalize DEF Callback
<1>3. ASSUME NEW d \in Dispatchers, Dispatch(d) \/ RetryCommits(d)
      PROVE  TypeOK'
  BY <1>3, TypeDispatch
<1>4. ASSUME NEW k \in Cancellers, CancelCommits(k) \/ Cancel(k) PROVE TypeOK'
  BY <1>4, TypeCancel
<1> QED
  BY <1>1, <1>2, <1>3, <1>4 DEF Next

\* The rows, the canvases and the requests keep their types: every status,
\* generation, claim and commit written is one the code may write.
THEOREM TypeCorrect == Spec => []TypeOK
BY TypeInit, TypeNext, PTL DEF Spec

-----------------------------------------------------------------------------
(* How a step may change the parent row                                    *)

SameParent ==
    /\ parent'.status = parent.status
    /\ parent'.gen = parent.gen /\ parent'.change = parent.change
FailedParent ==
    /\ parent'.status = "FAILED"
    /\ parent'.gen = parent.gen /\ parent'.change = parent.change
PreparedParent ==
    /\ ~IsTerminal /\ parent'.status = "RUNNING"
    /\ parent'.gen = parent.gen /\ parent'.change = parent.change
FinishedParent ==
    /\ \E c \in Dispatchers : FinalizeCommits(c)
    /\ parent'.status = "SUCCESS" /\ parent'.change
    /\ parent'.gen = parent.gen
OpenedParent ==
    /\ \E d \in Dispatchers : DispatchBuilds(d)
    /\ parent.gen = 0 /\ parent'.gen = 1
    /\ parent'.status = parent.status /\ parent'.change = parent.change
CancelledParent ==
    /\ \E k \in Cancellers : CancelCommits(k)
    /\ parent.gen > 0 /\ parent'.gen = parent.gen + 1
    /\ ~IsTerminal /\ parent'.status = "CANCELLED"
    /\ parent'.change = parent.change
RetriedParent ==
    /\ \E d \in Dispatchers : RetryCommits(d)
    /\ parent.gen > 0 /\ parent'.gen = parent.gen + 1
    /\ parent.status \in {"FAILED", "CANCELLED"} /\ parent'.status = "RUNNING"
    /\ parent'.change = parent.change

ParentMoves ==
    \/ SameParent \/ FailedParent \/ PreparedParent \/ FinishedParent
    \/ OpenedParent \/ CancelledParent \/ RetriedParent

LEMMA FailParentMoves ==
    ASSUME TypeOK, NEW plan, FailParent(plan)
    PROVE  FailedParent
BY DEF FailParent, TypeOK, Parent, FailedParent

\* Callbacks fail the parent, prepare it, finish it, or leave it alone.
LEMMA CallbackParent ==
    ASSUME TypeOK, NEW c \in Dispatchers, Callback(c)
    PROVE  ParentMoves
<1>1. CASE UNCHANGED parent
  BY <1>1 DEF ParentMoves, SameParent
<1>2. ASSUME NEW plan, FailParent(plan) PROVE ParentMoves
  BY <1>2, FailParentMoves DEF ParentMoves
<1>3. CASE PrepareCommits(c)
  BY <1>3 DEF PrepareCommits, Barred, TypeOK, Parent, ParentMoves, PreparedParent
<1>4. CASE FinalizeCommits(c)
  BY <1>4 DEF FinalizeCommits, TypeOK, Parent, ParentMoves, FinishedParent
<1>5. ASSUME NEW s \in Steps, Step(c, s) PROVE UNCHANGED parent
  BY <1>5 DEF Step, StepSkips, StepRefused, StepClaims, StepDiscarded,
              StepSucceeds, StepFails
<1> QED
  BY <1>1, <1>2, <1>3, <1>4, <1>5
  DEF Callback, CallbackSkipped, PrepareReuses, PrepareReads, PrepareFails,
      WaveReads, WaveCommits, WaveFails, MergeRepeated, MergeFindsFailure,
      MergeSucceeds, MergeConflicts, MergeFails, FinalizeReturns,
      FinalizeReads, FinalizeFails, FinalizeCleans, FinalizeCleanupFails

LEMMA DispatchParent ==
    ASSUME TypeOK, NEW d \in Dispatchers, Dispatch(d) \/ RetryCommits(d)
    PROVE  ParentMoves
<1>1. CASE UNCHANGED parent
  BY <1>1 DEF ParentMoves, SameParent
<1>2. ASSUME NEW plan, FailParent(plan) PROVE ParentMoves
  BY <1>2, FailParentMoves DEF ParentMoves
<1>3. CASE DispatchBuilds(d)
  BY <1>3 DEF DispatchBuilds, TypeOK, Parent, ParentMoves, SameParent, OpenedParent
<1>4. CASE DispatchConfirms(d)
  BY <1>4 DEF DispatchConfirms, TypeOK, Parent, ParentMoves, SameParent
<1>5. CASE RetryCommits(d)
  BY <1>5 DEF RetryCommits, TypeOK, Parent, ParentMoves, RetriedParent
<1> QED
  BY <1>1, <1>2, <1>3, <1>4, <1>5
  DEF Dispatch, DispatchFindsQueued, DispatchMismatches, DispatchPublishes,
      DispatchPublishFails, RetryPersists

LEMMA CancelParent ==
    ASSUME TypeOK, NEW k \in Cancellers, CancelCommits(k) \/ Cancel(k)
    PROVE  ParentMoves
<1>1. CASE UNCHANGED parent
  BY <1>1 DEF ParentMoves, SameParent
<1>2. CASE CancelCommits(k)
  BY <1>2 DEF CancelCommits, TypeOK, Parent, ParentMoves, CancelledParent
<1>3. CASE CancelReports(k)
  BY <1>3 DEF CancelReports, TypeOK, Parent, ParentMoves, SameParent
<1> QED
  BY <1>1, <1>2, <1>3 DEF Cancel, CancelRevokes, CancelCleans, CancelCleanupFails

LEMMA NextParent ==
    ASSUME TypeOK, [Next]_vars
    PROVE  ParentMoves
<1>1. CASE UNCHANGED vars
  BY <1>1 DEF vars, ParentMoves, SameParent
<1> QED
  BY <1>1, CallbackParent, DispatchParent, CancelParent DEF Next

-----------------------------------------------------------------------------
(* How a step may change the canvases                                      *)

\* Canvas d makes progress: it keeps its generation, no run starts in it and
\* no finalizer has just read the parent.
Moves(d) ==
    /\ canvas'[d].gen = canvas[d].gen
    /\ \/ canvas'[d].stage = canvas[d].stage
       \/ canvas[d].stage # "free" /\ canvas'[d].stage \notin {"free", "built"}
    /\ canvas'[d].stage \in {"free", "built", "steps", "merge"} => ~canvas'[d].busy
    /\ \A s \in Steps : canvas'[d].step[s] = "working" => Working(d, s)
    /\ canvas'[d].stage = "finalize" /\ canvas'[d].busy =>
          canvas[d].stage = "finalize" /\ canvas[d].busy

LEMMA StaysMoves ==
    ASSUME TypeOK, CanvasLifecycle, NEW d \in Dispatchers, canvas'[d] = canvas[d]
    PROVE  Moves(d)
BY DEF Moves, CanvasLifecycle, Working

LEMMA AdvanceMoves ==
    ASSUME TypeOK, CanvasLifecycle, NEW c \in Dispatchers, Advance(c),
           canvas[c].stage \notin {"free", "built"}
    PROVE  \A d \in Dispatchers : Moves(d)
<1>1. \A d \in Dispatchers : d # c => Moves(d)
  BY StaysMoves DEF Advance, TypeOK
<1> DEFINE r == canvas[c]
<1>2. canvas'[c] = Successor(r)
  BY DEF Advance, TypeOK
<1>3. r \in Canvas
  BY DEF TypeOK
<1>4. r.stage \in {"steps", "merge"} => ~r.busy
  BY DEF CanvasLifecycle
<1> HIDE DEF r
<1>5. CASE r.stage = "wave"
  <2>1. /\ canvas'[c].gen = r.gen /\ canvas'[c].stage = "steps"
        /\ ~canvas'[c].busy
        /\ canvas'[c].step = [s \in Steps |-> IF WaveOf[s] = r.wave
                                              THEN "queued" ELSE r.step[s]]
    <3>1. canvas'[c] = [r EXCEPT
                !.stage = "steps", !.busy = FALSE, !.todo = {}, !.base = {},
                !.step = [s \in Steps |-> IF WaveOf[s] = r.wave
                                          THEN "queued" ELSE r.step[s]]]
      BY <1>2, <1>5 DEF Successor
    <3> QED
      BY <1>3, <3>1 DEF Canvas
  <2>2. \A s \in Steps : canvas'[c].step[s] = "working" => r.step[s] = "working"
    BY <2>1
  <2> QED
    BY <1>1, <1>5, <2>1, <2>2 DEF Moves, Working, r
<1>6. CASE r.stage # "wave"
  <2>1. /\ canvas'[c].gen = r.gen /\ canvas'[c].step = r.step
        /\ canvas'[c].stage \in {"wave", "finalize", "done"}
        /\ ~canvas'[c].busy
    <3>1. CASE r.stage = "prepare"
      BY <1>2, <1>3, <3>1 DEF Successor, Canvas
    <3>2. CASE r.stage = "merge"
      BY <1>2, <1>3, <1>4, <3>2 DEF Successor, AfterMerge, Canvas
    <3>3. CASE r.stage \notin {"prepare", "wave", "merge"}
      BY <1>2, <1>3, <3>3 DEF Successor, Canvas
    <3> QED
      BY <1>6, <3>1, <3>2, <3>3
  <2> QED
    BY <1>1, <1>6, <2>1 DEF Moves, Working, r
<1> QED
  BY <1>1, <1>5, <1>6

LEMMA StepReturnsMoves ==
    ASSUME TypeOK, CanvasLifecycle, NEW c \in Dispatchers, NEW s \in Steps,
           StepReturns(c, s), canvas[c].stage \notin {"free", "built"}
    PROVE  /\ \A d \in Dispatchers : Moves(d)
           /\ canvas'[c].step[s] # "working"
<1> DEFINE r == [canvas[c] EXCEPT !.step[s] = "done"]
<1>1. canvas[c] \in Canvas
  BY DEF TypeOK
<1>2. canvas'[c] = IF Joined(r) THEN [r EXCEPT !.stage = "merge"] ELSE r
  BY DEF StepReturns, TypeOK
<1>3. \A d \in Dispatchers : d # c => Moves(d)
  BY StaysMoves DEF StepReturns, TypeOK
<1>4. /\ r.gen = canvas[c].gen /\ r.stage = canvas[c].stage
      /\ r.busy = canvas[c].busy
      /\ r.step = [canvas[c].step EXCEPT ![s] = "done"]
      /\ r \in Canvas
  <2>1. [canvas[c].step EXCEPT ![s] = "done"]
            \in [Steps -> {"idle", "queued", "working", "done"}]
    BY <1>1 DEF Canvas
  <2> QED
    BY <1>1, <2>1 DEF Canvas
<1>5. canvas[c].stage \in {"steps", "merge"} => ~canvas[c].busy
  BY DEF CanvasLifecycle
<1>6. /\ canvas'[c].gen = r.gen /\ canvas'[c].busy = r.busy
      /\ canvas'[c].step = r.step
      /\ \/ canvas'[c].stage = r.stage
         \/ r.stage = "steps" /\ canvas'[c].stage = "merge"
  BY <1>2, <1>4 DEF Joined, Canvas
<1>7. canvas'[c].step[s] # "working"
  BY <1>1, <1>4, <1>6 DEF Canvas
<1>8. \A t \in Steps : canvas'[c].step[t] = "working" => canvas[c].step[t] = "working"
  BY <1>1, <1>4, <1>6 DEF Canvas
<1>9. Moves(c)
  <2>1. canvas'[c].gen = canvas[c].gen /\ canvas'[c].busy = canvas[c].busy
    BY <1>4, <1>6
  <2>2. \/ canvas'[c].stage = canvas[c].stage
        \/ canvas[c].stage = "steps" /\ canvas'[c].stage = "merge"
    BY <1>4, <1>6
  <2> HIDE DEF r
  <2> QED
    BY <1>5, <1>8, <2>1, <2>2 DEF Moves, Working
<1> QED
  BY <1>3, <1>7, <1>9

\* The members of the chord return their outcome on every path but a claim.
LEMMA StepMoves ==
    ASSUME TypeOK, CanvasLifecycle, NEW c \in Dispatchers, NEW s \in Steps,
           Step(c, s), ~StepClaims(c, s)
    PROVE  \A d \in Dispatchers : Moves(d)
<1>1. StepReturns(c, s)
  BY DEF Step, StepSkips, StepRefused, StepDiscarded, StepSucceeds, StepFails
<1>2. canvas[c].stage = "steps" \/ Working(c, s)
  BY DEF Step, StepSkips, StepRefused, StepDiscarded, StepSucceeds, StepFails, Working
<1>3. canvas[c].stage \notin {"free", "built"}
  BY <1>2 DEF CanvasLifecycle
<1> QED
  BY <1>1, <1>3, StepReturnsMoves

LEMMA CallbackMoves ==
    ASSUME TypeOK, CanvasLifecycle, NEW c \in Dispatchers, Callback(c)
    PROVE  \/ \A d \in Dispatchers : Moves(d)
           \/ FinalizeReads(c)
           \/ \E s \in Steps : StepClaims(c, s)
<1>1. CASE Advance(c) /\ canvas[c].stage \notin {"free", "built"}
  BY <1>1, AdvanceMoves
<1>2. CASE PrepareReads(c) \/ WaveReads(c)
  <2>1. canvas[c] \in Canvas
    BY DEF TypeOK
  <2>2. /\ canvas'[c].gen = canvas[c].gen /\ canvas'[c].step = canvas[c].step
        /\ canvas'[c].stage = canvas[c].stage
        /\ canvas[c].stage \in {"prepare", "wave"}
    BY <1>2, <2>1 DEF PrepareReads, WaveReads, TypeOK, Canvas
  <2>3. Moves(c)
    BY <2>2 DEF Moves, Working
  <2> QED
    BY <1>2, <2>3, StaysMoves DEF PrepareReads, WaveReads, TypeOK
<1>3. CASE FinalizeCommits(c)
  <2>1. canvas[c] \in Canvas
    BY DEF TypeOK
  <2>2. /\ canvas'[c].gen = canvas[c].gen /\ canvas'[c].step = canvas[c].step
        /\ canvas'[c].stage = "cleanup" /\ canvas[c].stage = "finalize"
    BY <1>3, <2>1 DEF FinalizeCommits, TypeOK, Canvas
  <2>3. Moves(c)
    BY <2>2 DEF Moves, Working
  <2> QED
    BY <1>3, <2>3, StaysMoves DEF FinalizeCommits, TypeOK
<1>4. CASE \E s \in Steps : Step(c, s)
  BY <1>4, StepMoves
<1> QED
  BY <1>1, <1>2, <1>3, <1>4
  DEF Callback, CallbackSkipped, PrepareReuses, PrepareCommits, PrepareFails,
      WaveCommits, WaveFails, MergeRepeated, MergeFindsFailure,
      MergeSucceeds, MergeConflicts, MergeFails, Merging, FinalizeReturns,
      FinalizeFails, FinalizeCleans, FinalizeCleanupFails

LEMMA DispatchMoves ==
    ASSUME TypeOK, CanvasLifecycle, NEW d \in Dispatchers,
           Dispatch(d) \/ RetryCommits(d), ~DispatchBuilds(d)
    PROVE  /\ \A c \in Dispatchers : Moves(c)
           /\ \A c \in Dispatchers : disp'[c].pc \in {"idle", "build"} =>
                                      disp[c].pc \in {"idle", "build"}
<1>1. UNCHANGED canvas \/ Publish(d)
  BY DEF Dispatch, DispatchFindsQueued, DispatchMismatches, DispatchPublishes,
         DispatchPublishFails, DispatchConfirms, RetryPersists, RetryCommits
<1>2. \A c \in Dispatchers : disp'[c].pc \in {"idle", "build"} =>
                             disp[c].pc \in {"idle", "build"}
  <2>1. CASE RetryCommits(d)
    BY <2>1 DEF RetryCommits, TypeOK
  <2>2. CASE Dispatch(d)
    <3>1. \E p \in {"confirm", "persist", "done"} : disp' = [disp EXCEPT ![d].pc = p]
      BY <2>2 DEF Dispatch, DispatchFindsQueued, DispatchMismatches,
        DispatchPublishes, DispatchPublishFails, DispatchConfirms, RetryPersists
    <3> QED
      BY <3>1 DEF TypeOK, Dispatcher
  <2> QED
    BY <2>1, <2>2
<1>3. CASE UNCHANGED canvas
  BY <1>2, <1>3, StaysMoves
<1>4. CASE Publish(d) /\ ~UNCHANGED canvas
  <2>1. canvas[d] \in Canvas
    BY DEF TypeOK
  <2>2. /\ canvas' = [canvas EXCEPT ![d].stage = "prepare"]
        /\ canvas[d].stage = "built"
    BY <1>4 DEF Publish
  <2>3. /\ canvas'[d].gen = canvas[d].gen /\ canvas'[d].step = canvas[d].step
        /\ canvas'[d].stage = "prepare"
    BY <2>1, <2>2 DEF TypeOK, Canvas
  <2>4. Moves(d)
    BY <2>2, <2>3 DEF Moves, Working
  <2> QED
    BY <1>2, <2>2, <2>4, StaysMoves DEF TypeOK
<1> QED
  BY <1>1, <1>3, <1>4

LEMMA CancelMoves ==
    ASSUME TypeOK, CanvasLifecycle, NEW k \in Cancellers,
           CancelCommits(k) \/ Cancel(k)
    PROVE  (\A c \in Dispatchers : Moves(c)) /\ UNCHANGED disp
<1>1. CASE UNCHANGED canvas
  BY <1>1, StaysMoves
  DEF CancelCommits, Cancel, CancelRevokes, CancelCleans, CancelCleanupFails,
      CancelReports
<1>2. CASE CancelRevokes(k)
  <2> SUFFICES ASSUME NEW c \in Dispatchers PROVE Moves(c)
    BY <1>2 DEF CancelRevokes
  <2>1. PICK reached \in SUBSET canceller[k].targets, terminated \in BOOLEAN :
          canvas' = [d \in Dispatchers |->
                       IF d \in reached THEN Revoked(canvas[d], terminated)
                                        ELSE canvas[d]]
    BY <1>2 DEF CancelRevokes
  <2>2. CASE canvas'[c] = canvas[c]
    BY <2>2, StaysMoves
  <2>3. CASE canvas'[c] # canvas[c]
    <3> DEFINE r == canvas[c]
    <3>1. r \in Canvas
      BY DEF TypeOK
    <3>2. canvas'[c] = Revoked(r, terminated) /\ r.stage \notin {"free", "done"}
      BY <2>1, <2>3 DEF Revoked
    <3> HIDE DEF r
    <3>3. /\ canvas'[c].gen = r.gen /\ canvas'[c].stage = "revoked"
          /\ canvas'[c].step = [s \in Steps |->
                 IF r.step[s] = "queued" \/ (r.step[s] = "working" /\ terminated)
                 THEN "done" ELSE r.step[s]]
      BY <3>1, <3>2 DEF Revoked, Canvas
    <3>4. \A s \in Steps : canvas'[c].step[s] = "working" => r.step[s] = "working"
      BY <3>3
    <3> QED
      BY <3>2, <3>3, <3>4 DEF Moves, Working, r
  <2> QED
    BY <2>2, <2>3
<1> QED
  BY <1>1, <1>2
  DEF CancelCommits, Cancel, CancelCleans, CancelCleanupFails, CancelReports

-----------------------------------------------------------------------------
(* CanvasLifecycle                                                         *)

LEMMA GenerationGrows ==
    ASSUME TypeOK, TypeOK', ParentMoves
    PROVE  parent.gen <= parent'.gen
BY DEF TypeOK, Parent, ParentMoves, SameParent, FailedParent, PreparedParent,
       FinishedParent, OpenedParent, CancelledParent, RetriedParent

LEMMA LifecycleMoves ==
    ASSUME TypeOK, TypeOK', CanvasLifecycle, ParentMoves,
           \A d \in Dispatchers : Moves(d),
           \A d \in Dispatchers : disp'[d].pc \in {"idle", "build"} =>
                                  disp[d].pc \in {"idle", "build"}
    PROVE  CanvasLifecycle'
<1> SUFFICES ASSUME NEW c \in Dispatchers
             PROVE  /\ canvas'[c].gen <= parent'.gen
                    /\ canvas'[c].stage # "free" => canvas'[c].gen > 0
                    /\ disp'[c].pc \in {"idle", "build"} => canvas'[c].stage = "free"
                    /\ canvas'[c].stage \in {"free", "built"} =>
                          /\ ~canvas'[c].busy
                          /\ \A s \in Steps : canvas'[c].step[s] # "working"
                    /\ canvas'[c].stage \in {"steps", "merge"} => ~canvas'[c].busy
  BY DEF CanvasLifecycle, Working
<1>1. canvas[c].gen \in Nat /\ parent.gen \in Nat /\ parent'.gen \in Nat
  BY DEF TypeOK, Canvas, Parent
<1> QED
  BY <1>1, GenerationGrows DEF CanvasLifecycle, Moves, Working

\* dispatch_orchestrator_execution's first transaction: the fields of the
\* canvas it records.
LEMMA BuildsFields ==
    ASSUME TypeOK, NEW d \in Dispatchers, DispatchBuilds(d)
    PROVE  /\ canvas'[d].gen = parent'.gen /\ canvas'[d].stage = "built"
           /\ canvas'[d].busy = canvas[d].busy
           /\ canvas'[d].step = canvas[d].step
           /\ \A c \in Dispatchers \ {d} : canvas'[c] = canvas[c]
<1> DEFINE gen == IF parent.gen = 0 THEN 1 ELSE parent.gen
           ids == IF Republish THEN parent.ids ELSE d
           built == [canvas[d] EXCEPT !.stage = "built", !.gen = gen,
                                      !.ids = ids, !.start = disp[d].start,
                                      !.wave = disp[d].start]
<1>1. canvas' = [canvas EXCEPT ![d] = built]
  BY DEF DispatchBuilds
<1>2. parent'.gen = gen
  BY DEF DispatchBuilds, TypeOK, Parent
<1>3. /\ built.gen = gen /\ built.stage = "built"
      /\ built.busy = canvas[d].busy /\ built.step = canvas[d].step
  <2>1. canvas[d] \in Canvas
    BY DEF TypeOK
  <2> HIDE DEF gen, ids
  <2> QED
    BY <2>1 DEF Canvas
<1> HIDE DEF gen, built
<1> QED
  BY <1>1, <1>2, <1>3 DEF TypeOK

LEMMA LifecycleNext ==
    ASSUME TypeOK, TypeOK', CanvasLifecycle, [Next]_vars
    PROVE  CanvasLifecycle'
<1>1. CASE UNCHANGED vars
  BY <1>1 DEF vars, CanvasLifecycle, Working
<1>2. ASSUME NEW c \in Dispatchers, FinalizeReads(c) PROVE CanvasLifecycle'
  <2>1. /\ canvas[c] \in Canvas
        /\ canvas' = [canvas EXCEPT ![c].busy = TRUE]
        /\ canvas[c].stage = "finalize"
        /\ UNCHANGED <<parent, disp>>
    BY <1>2 DEF FinalizeReads, TypeOK
  <2>2. /\ canvas'[c].gen = canvas[c].gen /\ canvas'[c].step = canvas[c].step
        /\ canvas'[c].stage = "finalize"
    BY <2>1 DEF TypeOK, Canvas
  <2>3. \A d \in Dispatchers \ {c} : canvas'[d] = canvas[d]
    BY <2>1 DEF TypeOK
  <2> QED
    BY <2>1, <2>2, <2>3 DEF CanvasLifecycle, Working
<1>3. ASSUME NEW c \in Dispatchers, NEW s \in Steps, StepClaims(c, s)
      PROVE  CanvasLifecycle'
  <2>1. /\ canvas[c] \in Canvas
        /\ canvas' = [canvas EXCEPT ![c].step[s] = "working"]
        /\ canvas[c].stage = "steps"
        /\ UNCHANGED <<parent, disp>>
    BY <1>3 DEF StepClaims, TypeOK
  <2>2. /\ canvas'[c].gen = canvas[c].gen /\ canvas'[c].busy = canvas[c].busy
        /\ canvas'[c].stage = "steps"
    BY <2>1 DEF TypeOK, Canvas
  <2>3. \A d \in Dispatchers \ {c} : canvas'[d] = canvas[d]
    BY <2>1 DEF TypeOK
  <2> QED
    BY <2>1, <2>2, <2>3 DEF CanvasLifecycle, Working
<1>4. ASSUME NEW d \in Dispatchers, DispatchBuilds(d) PROVE CanvasLifecycle'
  <2>1. /\ canvas[d] \in Canvas /\ disp[d] \in Dispatcher
        /\ parent.gen \in Nat /\ parent'.gen \in Nat
        /\ parent'.gen = (IF parent.gen = 0 THEN 1 ELSE parent.gen)
        /\ disp' = [disp EXCEPT ![d].pc = "publish"]
        /\ disp[d].pc = "build"
    BY <1>4 DEF DispatchBuilds, TypeOK, Parent
  <2>2. \A c \in Dispatchers \ {d} : canvas'[c] = canvas[c] /\ disp'[c] = disp[c]
    BY <1>4, <2>1, BuildsFields DEF TypeOK
  <2>3. /\ canvas'[d].gen = parent'.gen /\ canvas'[d].stage = "built"
        /\ canvas'[d].busy = canvas[d].busy /\ canvas'[d].step = canvas[d].step
        /\ disp'[d].pc = "publish"
    BY <1>4, <2>1, BuildsFields DEF TypeOK, Dispatcher
  <2>4. canvas[d].stage = "free" /\ ~canvas[d].busy
        /\ \A s \in Steps : canvas[d].step[s] # "working"
    BY <2>1 DEF CanvasLifecycle, Working
  <2>5. \A c \in Dispatchers : canvas[c].gen \in Nat
    BY DEF TypeOK, Canvas
  <2> QED
    BY <2>1, <2>2, <2>3, <2>4, <2>5 DEF CanvasLifecycle, Working
<1>5. ASSUME NEW c \in Dispatchers, Callback(c) PROVE CanvasLifecycle'
  <2>1. UNCHANGED disp
    BY <1>5 DEF Callback, CallbackSkipped, PrepareReuses, PrepareReads,
      PrepareCommits, PrepareFails, WaveReads, WaveCommits, WaveFails, Step,
      StepSkips, StepRefused, StepClaims, StepDiscarded, StepSucceeds, StepFails,
      MergeRepeated, MergeFindsFailure, MergeSucceeds, MergeConflicts, MergeFails,
      FinalizeReturns, FinalizeReads, FinalizeCommits, FinalizeFails,
      FinalizeCleans, FinalizeCleanupFails
  <2> QED
    BY <1>2, <1>3, <1>5, <2>1, CallbackMoves, CallbackParent, LifecycleMoves
<1>6. ASSUME NEW d \in Dispatchers, Dispatch(d) \/ RetryCommits(d)
      PROVE  CanvasLifecycle'
  BY <1>4, <1>6, DispatchMoves, DispatchParent, LifecycleMoves
<1>7. ASSUME NEW k \in Cancellers, CancelCommits(k) \/ Cancel(k)
      PROVE  CanvasLifecycle'
  BY <1>7, CancelMoves, CancelParent, LifecycleMoves
<1> QED
  BY <1>1, <1>5, <1>6, <1>7 DEF Next

-----------------------------------------------------------------------------
(* OneCodeChange, ChangesFit and FinalizerIsRight                          *)

LEMMA OnlyFinalizerPublishes ==
    ASSUME [Next]_vars, \A c \in Dispatchers : ~FinalizeCommits(c) /\ ~FinalizeFails(c)
    PROVE  UNCHANGED codeChanges
<1>1. CASE UNCHANGED vars
  BY <1>1 DEF vars
<1>2. ASSUME NEW c \in Dispatchers, Callback(c) PROVE UNCHANGED codeChanges
  BY <1>2 DEF Callback, CallbackSkipped, PrepareReuses, PrepareReads,
      PrepareCommits, PrepareFails, WaveReads, WaveCommits, WaveFails, Step,
      StepSkips, StepRefused, StepClaims, StepDiscarded, StepSucceeds, StepFails,
      MergeRepeated, MergeFindsFailure, MergeSucceeds, MergeConflicts, MergeFails,
      FinalizeReturns, FinalizeReads, FinalizeCleans, FinalizeCleanupFails
<1>3. ASSUME NEW d \in Dispatchers, Dispatch(d) \/ RetryCommits(d)
      PROVE  UNCHANGED codeChanges
  BY <1>3 DEF Dispatch, DispatchFindsQueued, DispatchBuilds, DispatchMismatches,
      DispatchPublishes, DispatchPublishFails, DispatchConfirms, RetryPersists,
      RetryCommits
<1>4. ASSUME NEW k \in Cancellers, CancelCommits(k) \/ Cancel(k)
      PROVE  UNCHANGED codeChanges
  BY <1>4 DEF CancelCommits, Cancel, CancelRevokes, CancelCleans,
      CancelCleanupFails, CancelReports
<1> QED
  BY <1>1, <1>2, <1>3, <1>4 DEF Next

\* A finalizer generates in a generation in which nothing was generated so far.
LEMMA FinalizerIsFirst ==
    ASSUME TypeOK, CanvasLifecycle, ChangesFit, NEW c \in Dispatchers,
           FinalizeCommits(c) \/ FinalizeFails(c)
    PROVE  /\ codeChanges.named \in Nat /\ codeChanges.orphaned \in Nat
           /\ parent.gen \in Nat /\ ~IsTerminal
           /\ codeChanges.named + codeChanges.orphaned < parent.gen
<1>1. /\ codeChanges \in [named : Nat, orphaned : Nat] /\ canvas[c] \in Canvas
      /\ parent \in Parent
  BY DEF TypeOK
<1>2. codeChanges.named \in Nat /\ codeChanges.orphaned \in Nat /\ parent.gen \in Nat
  BY <1>1 DEF Parent
<1>3. canvas[c].stage # "free" /\ canvas[c].gen = parent.gen /\ ~IsTerminal
  BY DEF FinalizeCommits, FinalizeFails, Barred, Current
<1>4. parent.gen > 0
  BY <1>3 DEF CanvasLifecycle
<1> QED
  BY <1>2, <1>3, <1>4 DEF ChangesFit

\* finalize_execution in one commit, or its failure.
LEMMA FinalizerGenerates ==
    ASSUME TypeOK, CanvasLifecycle, OneCodeChange, ChangesFit, FinalizerIsRight,
           NEW c \in Dispatchers, FinalizeCommits(c) \/ FinalizeFails(c)
    PROVE  OneCodeChange' /\ ChangesFit'
<1>1. /\ codeChanges \in [named : Nat, orphaned : Nat] /\ parent \in Parent
  BY DEF TypeOK
<1>2. ~parent.change /\ codeChanges.named = 0
  <2>1. ~parent.change
    BY DEF FinalizeCommits, FinalizeFails, FinalizerIsRight
  <2> QED
    BY <2>1 DEF OneCodeChange
<1>3. CASE FinalizeCommits(c)
  <2>1. /\ codeChanges'.named = 1 /\ codeChanges'.orphaned = codeChanges.orphaned
        /\ parent'.gen = parent.gen /\ parent'.change /\ parent'.status = "SUCCESS"
    BY <1>1, <1>2, <1>3 DEF FinalizeCommits, Parent
  <2>2. codeChanges'.named + codeChanges'.orphaned <= parent'.gen
    BY <1>2, <1>3, <2>1, FinalizerIsFirst
  <2> QED
    BY <2>1, <2>2 DEF OneCodeChange, ChangesFit, IsTerminal, Terminal
<1>4. CASE FinalizeFails(c)
  <2>1. /\ parent'.gen = parent.gen /\ parent'.change = parent.change
        /\ parent'.status = "FAILED"
    BY <1>1, <1>4 DEF FinalizeFails, FailParent, Parent
  <2>2. /\ codeChanges'.named = codeChanges.named
        /\ codeChanges'.orphaned \in {codeChanges.orphaned, codeChanges.orphaned + 1}
    BY <1>1, <1>4 DEF FinalizeFails
  <2>3. codeChanges'.named + codeChanges'.orphaned <= parent'.gen
    BY <1>4, <2>1, <2>2, FinalizerIsFirst
  <2> QED
    BY <1>2, <2>1, <2>2, <2>3 DEF OneCodeChange, ChangesFit, IsTerminal, Terminal
<1> QED
  BY <1>3, <1>4

LEMMA CodeChangeNext ==
    ASSUME TypeOK, CanvasLifecycle, OneCodeChange, ChangesFit, FinalizerIsRight,
           [Next]_vars
    PROVE  OneCodeChange' /\ ChangesFit'
<1>1. CASE \A c \in Dispatchers : ~FinalizeCommits(c) /\ ~FinalizeFails(c)
  <2>1. ParentMoves /\ ~FinishedParent
    BY <1>1, NextParent DEF FinishedParent
  <2>2. /\ parent'.change = parent.change
        /\ parent'.status = "SUCCESS" => parent.status = "SUCCESS"
    BY <2>1
    DEF ParentMoves, SameParent, FailedParent, PreparedParent,
        OpenedParent, CancelledParent, RetriedParent
  <2>3. UNCHANGED codeChanges
    BY <1>1, OnlyFinalizerPublishes
  <2>4. /\ codeChanges.named \in Nat /\ codeChanges.orphaned \in Nat
        /\ parent.gen \in Nat
    BY DEF TypeOK, Parent
  <2>5. CASE SameParent \/ FailedParent \/ PreparedParent
    BY <2>2, <2>3, <2>4, <2>5
    DEF OneCodeChange, ChangesFit, SameParent, FailedParent, PreparedParent,
        IsTerminal, Terminal
  <2>6. CASE OpenedParent \/ CancelledParent \/ RetriedParent
    <3>1. parent'.gen = parent.gen + 1
      BY <2>6 DEF OpenedParent, CancelledParent, RetriedParent
    <3> QED
      BY <2>2, <2>3, <2>4, <3>1 DEF OneCodeChange, ChangesFit
  <2> QED
    BY <2>1, <2>5, <2>6 DEF ParentMoves
<1> QED
  BY <1>1, FinalizerGenerates

\* Whatever happens to the parent between a finalizer's reads and its commit
\* either leaves the CodeChange unset or raises the barrier.
LEMMA FinalizerMoves ==
    ASSUME TypeOK, TypeOK', CanvasLifecycle, FinalizerIsRight, ParentMoves,
           NEW c \in Dispatchers, Moves(c),
           canvas'[c].stage = "finalize", canvas'[c].busy, ~Barred(c)'
    PROVE  ~parent'.change
<1>1. /\ canvas[c].stage = "finalize" /\ canvas[c].busy
      /\ canvas'[c].gen = canvas[c].gen
  BY DEF Moves
<1>2. canvas[c].gen = parent'.gen /\ parent'.status \notin Terminal
  BY <1>1 DEF Barred, Current, IsTerminal
<1>3. /\ canvas[c].gen <= parent.gen /\ canvas[c].gen > 0
      /\ canvas[c].gen \in Nat /\ parent.gen \in Nat
  BY <1>1 DEF CanvasLifecycle, TypeOK, Canvas, Parent
<1>4. SameParent \/ PreparedParent
  BY <1>2, <1>3 DEF ParentMoves, FailedParent, FinishedParent, OpenedParent,
                    CancelledParent, RetriedParent, Terminal
<1>5. ~Barred(c)
  BY <1>2, <1>4 DEF Barred, Current, IsTerminal, SameParent, PreparedParent
<1> QED
  BY <1>1, <1>4, <1>5 DEF FinalizerIsRight, SameParent, PreparedParent

LEMMA FinalizerNext ==
    ASSUME TypeOK, TypeOK', CanvasLifecycle, FinalizerIsRight, [Next]_vars
    PROVE  FinalizerIsRight'
<1> SUFFICES ASSUME NEW c \in Dispatchers, canvas'[c].stage = "finalize",
                    canvas'[c].busy, ~Barred(c)'
             PROVE  ~parent'.change
  BY DEF FinalizerIsRight
<1>1. ParentMoves
  BY NextParent
<1>2. CASE Moves(c)
  BY <1>1, <1>2, FinalizerMoves
<1>3. CASE \E d \in Dispatchers : FinalizeReads(d)
  <2>1. PICK d \in Dispatchers : FinalizeReads(d)
    BY <1>3
  <2>2. d # c => canvas'[c] = canvas[c]
    BY <2>1 DEF FinalizeReads, TypeOK
  <2>3. d = c => ~parent'.change
    BY <2>1 DEF FinalizeReads, Finalized
  <2> QED
    BY <1>2, <2>2, <2>3, StaysMoves
<1>4. CASE \E d \in Dispatchers, s \in Steps : StepClaims(d, s)
  <2>1. PICK d \in Dispatchers, s \in Steps : StepClaims(d, s)
    BY <1>4
  <2>2. d # c => canvas'[c] = canvas[c]
    BY <2>1 DEF StepClaims, TypeOK
  <2>3. canvas[d] \in Canvas
    BY DEF TypeOK
  <2>4. canvas'[d].stage = "steps"
    BY <2>1, <2>3 DEF StepClaims, TypeOK, Canvas
  <2> QED
    BY <1>2, <2>2, <2>4, StaysMoves
<1>5. CASE \E d \in Dispatchers : DispatchBuilds(d)
  <2>1. PICK d \in Dispatchers : DispatchBuilds(d)
    BY <1>5
  <2>2. d # c => canvas'[c] = canvas[c]
    BY <2>1, BuildsFields
  <2>3. canvas'[d].stage = "built"
    BY <2>1, BuildsFields
  <2> QED
    BY <1>2, <2>2, <2>3, StaysMoves
<1>6. CASE UNCHANGED vars
  BY <1>2, <1>6, StaysMoves DEF vars
<1> QED
  BY <1>2, <1>3, <1>4, <1>5, <1>6, CallbackMoves, DispatchMoves, CancelMoves
  DEF Next

-----------------------------------------------------------------------------
(* ClaimHeld, CommitIsSuccess and MergedIsApplied                          *)

\* Nothing a run or its claim depends on changes in the row of step s.
SameRun(s) ==
    /\ child'[s].status = child[s].status /\ child'[s].gen = child[s].gen
    /\ child'[s].claim = child[s].claim /\ child'[s].commit = child[s].commit

\* A run that is current after a step was current before it, in the same
\* generation, and the parent has not left FAILED or CANCELLED.
LEMMA RunPersists ==
    ASSUME TypeOK, TypeOK', CanvasLifecycle, ParentMoves,
           NEW c \in Dispatchers, NEW s \in Steps, Moves(c),
           Working(c, s)', Current(c)'
    PROVE  /\ Working(c, s) /\ Current(c)
           /\ parent'.gen = parent.gen /\ canvas'[c].gen = canvas[c].gen
           /\ parent'.status \notin {"FAILED", "CANCELLED"} =>
                 parent.status \notin {"FAILED", "CANCELLED"}
<1>1. Working(c, s) /\ canvas'[c].gen = canvas[c].gen
  BY DEF Moves, Working
<1>2. canvas[c].gen = parent'.gen
  BY <1>1 DEF Current
<1>3. /\ canvas[c].gen <= parent.gen /\ canvas[c].gen > 0
      /\ canvas[c].gen \in Nat /\ parent.gen \in Nat
  BY <1>1 DEF CanvasLifecycle, TypeOK, Canvas, Parent
<1>4. SameParent \/ FailedParent \/ PreparedParent \/ FinishedParent
  BY <1>2, <1>3 DEF ParentMoves, OpenedParent, CancelledParent, RetriedParent
<1>5. parent'.gen = parent.gen
  BY <1>4 DEF SameParent, FailedParent, PreparedParent, FinishedParent
<1>6. FinishedParent => parent.status \notin {"FAILED", "CANCELLED"}
  BY DEF FinishedParent, FinalizeCommits, Barred, IsTerminal, Terminal
<1>7. parent'.status \notin {"FAILED", "CANCELLED"} =>
         parent.status \notin {"FAILED", "CANCELLED"}
  BY <1>4, <1>6 DEF SameParent, FailedParent, PreparedParent, IsTerminal, Terminal
<1> QED
  BY <1>1, <1>2, <1>5, <1>7 DEF Current

LEMMA ClaimSame ==
    ASSUME TypeOK, TypeOK', CanvasLifecycle, ClaimHeld, ParentMoves,
           NEW c \in Dispatchers, NEW s \in Steps, Moves(c), SameRun(s),
           Working(c, s)', Current(c)'
    PROVE  /\ child'[s].gen = canvas'[c].gen
           /\ child'[s].claim = c
           /\ child'[s].commit = None
           /\ parent'.status \notin {"FAILED", "CANCELLED"} =>
                 child'[s].status = "RUNNING"
BY RunPersists DEF ClaimHeld, SameRun

LEMMA FoldFields ==
    ASSUME TypeOK, NEW S, NEW s \in Steps
    PROVE  /\ Fold(S)[s].status = child[s].status
           /\ Fold(S)[s].gen = child[s].gen
           /\ Fold(S)[s].claim = child[s].claim
           /\ Fold(S)[s].commit = child[s].commit
           /\ Fold(S)[s].merge = IF s \in S
                                 THEN IF child[s].commit = None THEN "skipped"
                                                                ELSE "merged"
                                 ELSE child[s].merge
<1>1. child[s] \in Child
  BY DEF TypeOK
<1> QED
  BY <1>1 DEF Fold, Child

\* merge_wave touches merge_status only.
LEMMA MergeSameRun ==
    ASSUME TypeOK, NEW c \in Dispatchers,
           MergeSucceeds(c) \/ MergeConflicts(c) \/ MergeFails(c)
    PROVE  \A s \in Steps : SameRun(s)
<1>1. CASE MergeSucceeds(c)
  BY <1>1, FoldFields DEF MergeSucceeds, SameRun
<1>2. CASE MergeConflicts(c)
  <2>1. PICK k \in Pending(c), S \in SUBSET Pending(c) :
          child' = [Fold(S) EXCEPT ![k].merge = "conflict"]
    BY <1>2 DEF MergeConflicts
  <2>2. \A s \in Steps : Fold(S)[s] \in Child
    BY FoldType
  <2>3. \A s \in Steps : /\ child'[s].status = Fold(S)[s].status
                         /\ child'[s].gen = Fold(S)[s].gen
                         /\ child'[s].claim = Fold(S)[s].claim
                         /\ child'[s].commit = Fold(S)[s].commit
    BY <2>1, <2>2, FoldType DEF Child
  <2> QED
    BY <2>3, FoldFields DEF SameRun
<1>3. CASE MergeFails(c)
  <2>1. PICK S : child' = Fold(S)
    BY <1>3 DEF MergeFails
  <2> QED
    BY <2>1, FoldFields DEF SameRun
<1> QED
  BY <1>1, <1>2, <1>3

LEMMA WaveSameRun ==
    ASSUME TypeOK, NEW c \in Dispatchers, WaveCommits(c)
    PROVE  \A s \in Steps : SameRun(s) /\ child'[s].merge = child[s].merge
<1> SUFFICES ASSUME NEW s \in Steps
             PROVE  SameRun(s) /\ child'[s].merge = child[s].merge
  OBVIOUS
<1>1. child[s] \in Child
  BY DEF TypeOK
<1> QED
  BY <1>1 DEF WaveCommits, SameRun, Child

\* The callbacks that write a field the claim depends on.
Writes(c) ==
    \/ PrepareCommits(c)
    \/ \E s \in Steps : StepRefused(c, s) \/ StepClaims(c, s)
                       \/ StepSucceeds(c, s) \/ StepFails(c, s)

LEMMA CallbackSameRun ==
    ASSUME TypeOK, NEW c \in Dispatchers, Callback(c), ~Writes(c)
    PROVE  \A s \in Steps : SameRun(s)
<1>1. UNCHANGED child => \A s \in Steps : SameRun(s)
  BY DEF SameRun
<1> QED
  BY <1>1, MergeSameRun, WaveSameRun
  DEF Writes, Callback, CallbackSkipped, PrepareReuses, PrepareReads, PrepareFails,
      WaveReads, WaveFails, Step, StepSkips, StepDiscarded, MergeRepeated,
      MergeFindsFailure, FinalizeReturns, FinalizeReads, FinalizeCommits,
      FinalizeFails, FinalizeCleans, FinalizeCleanupFails

LEMMA DispatchSameRun ==
    ASSUME NEW d \in Dispatchers, Dispatch(d)
    PROVE  UNCHANGED child
BY DEF Dispatch, DispatchFindsQueued, DispatchBuilds, DispatchMismatches,
       DispatchPublishes, DispatchPublishFails, DispatchConfirms, RetryPersists

\* What each writer does to the row it writes, and that it leaves the others.
LEMMA PrepareWrites ==
    ASSUME TypeOK, NEW c \in Dispatchers, PrepareCommits(c), NEW s \in Steps
    PROVE  /\ child'[s].status = child[s].status
           /\ child'[s].claim = child[s].claim
           /\ child'[s].commit = child[s].commit
           /\ child'[s].gen = canvas[c].gen /\ child'[s].merge = "pending"
<1>1. child[s] \in Child
  BY DEF TypeOK
<1> QED
  BY <1>1 DEF PrepareCommits, Child

LEMMA StepWrites ==
    ASSUME TypeOK, NEW c \in Dispatchers, NEW s \in Steps,
           \/ StepRefused(c, s) \/ StepClaims(c, s)
           \/ StepSucceeds(c, s) \/ StepFails(c, s)
    PROVE  /\ \A t \in Steps \ {s} : child'[t] = child[t]
           /\ child'[s].gen = child[s].gen
           /\ StepRefused(c, s) =>
                 /\ child'[s].status = "CANCELLED"
                 /\ child'[s].claim = child[s].claim
                 /\ child'[s].commit = child[s].commit
                 /\ child'[s].merge = child[s].merge
           /\ StepClaims(c, s) =>
                 /\ child'[s].status = "RUNNING" /\ child'[s].claim = c
                 /\ child'[s].commit = child[s].commit
                 /\ child'[s].merge = child[s].merge
           /\ StepSucceeds(c, s) =>
                 /\ child'[s].status = "SUCCESS"
                 /\ child'[s].merge # "merged"
           /\ StepFails(c, s) =>
                 /\ child'[s].status = "FAILED"
                 /\ child'[s].commit = child[s].commit
                 /\ child'[s].merge = child[s].merge
<1>1. child[s] \in Child
  BY DEF TypeOK
<1>2. CASE StepRefused(c, s)
  <2>1. child' = [child EXCEPT ![s].status = "CANCELLED"]
    BY <1>2 DEF StepRefused
  <2>2. ~StepClaims(c, s) /\ ~StepSucceeds(c, s) /\ ~StepFails(c, s)
    BY <1>2 DEF StepRefused, StepClaims, StepSucceeds, StepFails
  <2> QED
    BY <1>1, <2>1, <2>2 DEF TypeOK, Child
<1>3. CASE StepClaims(c, s)
  <2>1. child' = [child EXCEPT ![s].status = "RUNNING", ![s].claim = c]
    BY <1>3 DEF StepClaims
  <2>2. ~StepRefused(c, s) /\ ~StepSucceeds(c, s) /\ ~StepFails(c, s)
    BY <1>3 DEF StepRefused, StepClaims, StepSucceeds, StepFails
  <2> QED
    BY <1>1, <2>1, <2>2 DEF TypeOK, Child
<1>4. CASE StepSucceeds(c, s)
  <2>1. PICK changed \in BOOLEAN :
          child' = [child EXCEPT ![s].status = "SUCCESS",
                                 ![s].commit = IF changed THEN c ELSE None,
                                 ![s].merge = IF changed THEN "ready"
                                                         ELSE "skipped"]
    BY <1>4 DEF StepSucceeds
  <2>2. child'[s].status = "SUCCESS" /\ child'[s].status # "FAILED"
        /\ child'[s].merge # "merged" /\ child'[s].gen = child[s].gen
        /\ \A t \in Steps \ {s} : child'[t] = child[t]
    BY <1>1, <2>1 DEF TypeOK, Child
  <2>3. ~StepRefused(c, s) /\ ~StepClaims(c, s)
    BY <1>4 DEF StepRefused, StepClaims, StepSucceeds
  <2>4. StepFails(c, s) => child'[s].status = "FAILED"
    BY <1>1 DEF StepFails, TypeOK, Child
  <2> QED
    BY <2>2, <2>3, <2>4
<1>5. CASE StepFails(c, s)
  <2>1. child' = [child EXCEPT ![s].status = "FAILED"]
    BY <1>5 DEF StepFails
  <2>2. ~StepRefused(c, s) /\ ~StepClaims(c, s)
    BY <1>5 DEF StepRefused, StepClaims, StepFails
  <2>3. child'[s].status # "SUCCESS"
    BY <1>1, <2>1 DEF TypeOK, Child
  <2>4. StepSucceeds(c, s) => child'[s].status = "SUCCESS"
    <3> SUFFICES ASSUME StepSucceeds(c, s) PROVE child'[s].status = "SUCCESS"
      OBVIOUS
    <3>1. PICK changed \in BOOLEAN :
            child' = [child EXCEPT ![s].status = "SUCCESS",
                                   ![s].commit = IF changed THEN c ELSE None,
                                   ![s].merge = IF changed THEN "ready"
                                                           ELSE "skipped"]
      BY DEF StepSucceeds
    <3> QED
      BY <1>1, <3>1 DEF TypeOK, Child
  <2> QED
    BY <1>1, <2>1, <2>2, <2>3, <2>4 DEF TypeOK, Child
<1> QED
  BY <1>2, <1>3, <1>4, <1>5

\* StepRefused returns the claim, StepSucceeds and StepFails end the run.
LEMMA WriterMoves ==
    ASSUME TypeOK, CanvasLifecycle, NEW c \in Dispatchers, NEW s \in Steps,
           StepRefused(c, s) \/ StepSucceeds(c, s) \/ StepFails(c, s)
    PROVE  /\ \A d \in Dispatchers : Moves(d)
           /\ ~Working(c, s)'
<1>1. StepReturns(c, s)
  BY DEF StepRefused, StepSucceeds, StepFails
<1>2. canvas[c].stage = "steps" \/ Working(c, s)
  BY DEF StepRefused, StepSucceeds, StepFails, Working
<1>3. canvas[c].stage \notin {"free", "built"}
  BY <1>2 DEF CanvasLifecycle
<1> QED
  BY <1>1, <1>3, StepReturnsMoves DEF Working

LEMMA ClaimNext ==
    ASSUME TypeOK, TypeOK', CanvasLifecycle, ClaimHeld, CommitIsSuccess, [Next]_vars
    PROVE  ClaimHeld'
<1> SUFFICES ASSUME NEW c \in Dispatchers, NEW s \in Steps,
                    Working(c, s)', Current(c)'
             PROVE  /\ child'[s].gen = canvas'[c].gen
                    /\ child'[s].claim = c
                    /\ child'[s].commit = None
                    /\ parent'.status \notin {"FAILED", "CANCELLED"} =>
                          child'[s].status = "RUNNING"
  BY DEF ClaimHeld
<1>1. ParentMoves
  BY NextParent
<1>2. CASE Moves(c) /\ SameRun(s)
  BY <1>1, <1>2, ClaimSame
<1>3. CASE UNCHANGED vars
  BY <1>2, <1>3, StaysMoves DEF vars, SameRun
<1>4. ASSUME NEW k \in Cancellers, CancelCommits(k) \/ Cancel(k)
      PROVE  Moves(c) /\ SameRun(s)
  <2>1. Moves(c)
    BY <1>4, CancelMoves
  <2>2. ~CancelCommits(k)
    <3>1. parent'.gen = parent.gen
      BY <1>1, <2>1, RunPersists
    <3>2. parent.gen \in Nat
      BY DEF TypeOK, Parent
    <3>3. CancelCommits(k) => parent'.gen = parent.gen + 1
      BY DEF CancelCommits, TypeOK, Parent
    <3> QED
      BY <3>1, <3>2, <3>3
  <2> QED
    BY <1>4, <2>1, <2>2
    DEF Cancel, CancelRevokes, CancelCleans, CancelCleanupFails, CancelReports, SameRun
<1>5. ASSUME NEW d \in Dispatchers, Dispatch(d) \/ RetryCommits(d)
      PROVE  Moves(c) /\ SameRun(s)
  <2>1. CASE DispatchBuilds(d)
    <3>1. d # c => canvas'[c] = canvas[c]
      BY <2>1, BuildsFields
    <3>2. canvas[d].stage = "free" /\ canvas[d] \in Canvas
      BY <2>1 DEF DispatchBuilds, CanvasLifecycle, TypeOK
    <3>3. canvas'[d].step = canvas[d].step
      BY <2>1, BuildsFields
    <3>4. d # c
      BY <3>2, <3>3 DEF CanvasLifecycle, Working
    <3> QED
      BY <2>1, <3>1, <3>4, StaysMoves DEF DispatchBuilds, SameRun
  <2>2. CASE RetryCommits(d)
    <3>1. Moves(c)
      BY <2>2, DispatchMoves DEF DispatchBuilds, RetryCommits
    <3>2. parent'.gen = parent.gen
      BY <1>1, <3>1, RunPersists
    <3>3. parent.gen \in Nat
      BY DEF TypeOK, Parent
    <3>4. parent'.gen = parent.gen + 1
      BY <2>2 DEF RetryCommits, TypeOK, Parent
    <3> QED
      BY <3>2, <3>3, <3>4
  <2>3. CASE Dispatch(d) /\ ~DispatchBuilds(d)
    BY <2>3, DispatchMoves, DispatchSameRun DEF SameRun
  <2> QED
    BY <1>5, <2>1, <2>2, <2>3
<1>6. ASSUME NEW d \in Dispatchers, PrepareCommits(d)
      PROVE  /\ child'[s].gen = canvas'[c].gen
             /\ child'[s].claim = c
             /\ child'[s].commit = None
             /\ parent'.status \notin {"FAILED", "CANCELLED"} =>
                   child'[s].status = "RUNNING"
  <2>1. Moves(c)
    BY <1>6, AdvanceMoves DEF PrepareCommits
  <2>2. canvas[d].gen = parent.gen
    BY <1>6 DEF PrepareCommits, Barred, Current
  <2> QED
    BY <1>1, <1>6, <2>1, <2>2, RunPersists, PrepareWrites DEF ClaimHeld, Current
<1>7. ASSUME NEW d \in Dispatchers, NEW t \in Steps, StepClaims(d, t)
      PROVE  /\ child'[s].gen = canvas'[c].gen
             /\ child'[s].claim = c
             /\ child'[s].commit = None
             /\ parent'.status \notin {"FAILED", "CANCELLED"} =>
                   child'[s].status = "RUNNING"
  <2>1. /\ canvas[d] \in Canvas
        /\ canvas' = [canvas EXCEPT ![d].step[t] = "working"]
        /\ UNCHANGED parent
    BY <1>7 DEF StepClaims, TypeOK
  <2>2. /\ canvas'[d].gen = canvas[d].gen
        /\ \A u \in Steps \ {t} : canvas'[d].step[u] = canvas[d].step[u]
        /\ \A b \in Dispatchers \ {d} : canvas'[b] = canvas[b]
    BY <2>1 DEF TypeOK, Canvas
  <2>3. CASE c = d /\ s = t
    <3>1. child[s].gen = canvas[c].gen /\ child[s].commit = None
      BY <1>7, <2>3 DEF StepClaims, StepFenced, Committed, CommitIsSuccess
    <3> QED
      BY <1>7, <2>2, <2>3, <3>1, StepWrites
  <2>4. CASE s # t
    BY <1>7, <2>1, <2>2, <2>4, StepWrites DEF ClaimHeld, Working, Current
  <2>5. CASE c # d /\ s = t
    <3>1. Working(c, s) /\ Current(c)
      BY <2>1, <2>2, <2>5 DEF Working, Current
    <3>2. child[s].claim = c /\ child[s].status = "RUNNING"
      BY <1>7, <3>1 DEF ClaimHeld, StepClaims
    <3> QED
      BY <1>7, <2>5, <3>2, ActorAssumption DEF StepClaims, Claimed
  <2> QED
    BY <2>3, <2>4, <2>5
<1>8. ASSUME NEW d \in Dispatchers, NEW t \in Steps,
             StepRefused(d, t) \/ StepSucceeds(d, t) \/ StepFails(d, t)
      PROVE  /\ child'[s].gen = canvas'[c].gen
             /\ child'[s].claim = c
             /\ child'[s].commit = None
             /\ parent'.status \notin {"FAILED", "CANCELLED"} =>
                   child'[s].status = "RUNNING"
  <2>1. Moves(c) /\ ~Working(d, t)' /\ UNCHANGED parent
    BY <1>8, WriterMoves DEF StepRefused, StepSucceeds, StepFails
  <2>2. Working(c, s) /\ Current(c) /\ canvas'[c].gen = canvas[c].gen
    BY <1>1, <2>1, RunPersists
  <2>3. CASE s # t
    BY <1>8, <2>1, <2>2, <2>3, StepWrites DEF ClaimHeld
  <2>4. CASE s = t /\ StepRefused(d, t)
    BY <2>1, <2>2, <2>4, StepWrites DEF ClaimHeld, StepRefused
  <2>5. CASE s = t /\ (StepSucceeds(d, t) \/ StepFails(d, t))
    <3>1. Working(d, t) /\ Current(d)
      BY <2>5 DEF StepSucceeds, StepFails, StepFenced, Working
    <3>2. child[t].claim = d /\ child[s].claim = c
      BY <2>2, <3>1 DEF ClaimHeld
    <3> QED
      BY <2>1, <2>5, <3>2
  <2> QED
    BY <1>8, <2>3, <2>4, <2>5
<1>9. ASSUME NEW d \in Dispatchers, FinalizeReads(d)
      PROVE  /\ child'[s].gen = canvas'[c].gen
             /\ child'[s].claim = c
             /\ child'[s].commit = None
             /\ parent'.status \notin {"FAILED", "CANCELLED"} =>
                   child'[s].status = "RUNNING"
  <2>1. /\ canvas'[c].gen = canvas[c].gen /\ canvas'[c].step = canvas[c].step
        /\ UNCHANGED <<parent, child>>
    BY <1>9 DEF FinalizeReads, TypeOK, Canvas
  <2> QED
    BY <2>1 DEF ClaimHeld, Working, Current
<1>10. ASSUME NEW d \in Dispatchers, Callback(d), ~Writes(d), ~FinalizeReads(d)
       PROVE  Moves(c) /\ SameRun(s)
  BY <1>10, CallbackSameRun, CallbackMoves DEF Writes
<1> QED
  BY <1>2, <1>3, <1>4, <1>5, <1>6, <1>7, <1>8, <1>9, <1>10 DEF Next, Writes

\* RetryCommits and CancelCommits on one row.
LEMMA RetryWrites ==
    ASSUME TypeOK, NEW d \in Dispatchers, RetryCommits(d), NEW s \in Steps
    PROVE  \/ Complete(s) /\ child'[s] = child[s]
           \/ /\ ~Complete(s)
              /\ child'[s].commit = None /\ child'[s].merge = "pending"
<1>1. child[s] \in Child
  BY DEF TypeOK
<1> QED
  BY <1>1 DEF RetryCommits, Child

LEMMA CancelWrites ==
    ASSUME TypeOK, NEW k \in Cancellers, CancelCommits(k), NEW s \in Steps
    PROVE  \/ child'[s] = child[s]
           \/ /\ child[s].status # "SUCCESS"
              /\ child'[s].commit = child[s].commit
              /\ child'[s].merge = child[s].merge
<1>1. child[s] \in Child
  BY DEF TypeOK
<1> QED
  BY <1>1 DEF CancelCommits, Child, Terminal

LEMMA CommitSuccessNext ==
    ASSUME TypeOK, ClaimHeld, CommitIsSuccess, [Next]_vars
    PROVE  CommitIsSuccess'
<1> SUFFICES ASSUME NEW s \in Steps, child'[s].commit # None
             PROVE  child'[s].status = "SUCCESS"
  BY DEF CommitIsSuccess
<1>1. CASE SameRun(s)
  BY <1>1 DEF SameRun, CommitIsSuccess
<1>2. ASSUME NEW c \in Dispatchers, Callback(c) PROVE child'[s].status = "SUCCESS"
  <2>1. CASE ~Writes(c)
    BY <1>1, <1>2, <2>1, CallbackSameRun
  <2>2. CASE PrepareCommits(c)
    BY <2>2, PrepareWrites DEF CommitIsSuccess
  <2>3. ASSUME NEW t \in Steps,
               \/ StepRefused(c, t) \/ StepClaims(c, t)
               \/ StepSucceeds(c, t) \/ StepFails(c, t)
        PROVE  child'[s].status = "SUCCESS"
    <3>1. CASE s # t
      BY <1>1, <2>3, <3>1, StepWrites DEF SameRun
    <3>2. CASE s = t /\ (StepRefused(c, t) \/ StepClaims(c, t))
      BY <3>2, StepWrites
      DEF StepRefused, StepClaims, Committed, CommitIsSuccess
    <3>3. CASE s = t /\ StepSucceeds(c, t)
      BY <3>3, StepWrites
    <3>4. CASE s = t /\ StepFails(c, t)
      <4>1. Working(c, t) /\ Current(c)
        BY <3>4 DEF StepFails, StepFenced, Working
      <4> QED
        BY <3>4, <4>1, StepWrites DEF ClaimHeld
    <3> QED
      BY <2>3, <3>1, <3>2, <3>3, <3>4
  <2> QED
    BY <2>1, <2>2, <2>3 DEF Writes
<1>3. ASSUME NEW d \in Dispatchers, Dispatch(d) \/ RetryCommits(d)
      PROVE  child'[s].status = "SUCCESS"
  BY <1>1, <1>3, DispatchSameRun, RetryWrites DEF SameRun, CommitIsSuccess
<1>4. ASSUME NEW k \in Cancellers, CancelCommits(k) \/ Cancel(k)
      PROVE  child'[s].status = "SUCCESS"
  <2>1. Cancel(k) => UNCHANGED child
    BY DEF Cancel, CancelRevokes, CancelCleans, CancelCleanupFails, CancelReports
  <2> QED
    BY <1>1, <1>4, <2>1, CancelWrites DEF SameRun, CommitIsSuccess
<1>5. CASE UNCHANGED vars
  BY <1>1, <1>5 DEF vars, SameRun
<1> QED
  BY <1>2, <1>3, <1>4, <1>5 DEF Next

\* Nothing takes a commit off the integration branch.
LEMMA AppliedGrows ==
    ASSUME [Next]_vars
    PROVE  applied \subseteq applied'
<1>1. CASE UNCHANGED vars
  BY <1>1 DEF vars
<1>2. ASSUME NEW c \in Dispatchers, Callback(c) PROVE applied \subseteq applied'
  BY <1>2 DEF Callback, CallbackSkipped, PrepareReuses, PrepareReads,
      PrepareCommits, PrepareFails, WaveReads, WaveCommits, WaveFails, Step,
      StepSkips, StepRefused, StepClaims, StepDiscarded, StepSucceeds, StepFails,
      MergeRepeated, MergeFindsFailure, MergeSucceeds, MergeConflicts, MergeFails,
      FinalizeReturns, FinalizeReads, FinalizeCommits, FinalizeFails,
      FinalizeCleans, FinalizeCleanupFails
<1>3. ASSUME NEW d \in Dispatchers, Dispatch(d) \/ RetryCommits(d)
      PROVE  applied \subseteq applied'
  BY <1>3 DEF Dispatch, DispatchFindsQueued, DispatchBuilds, DispatchMismatches,
      DispatchPublishes, DispatchPublishFails, DispatchConfirms, RetryPersists,
      RetryCommits
<1>4. ASSUME NEW k \in Cancellers, CancelCommits(k) \/ Cancel(k)
      PROVE  applied \subseteq applied'
  BY <1>4 DEF CancelCommits, Cancel, CancelRevokes, CancelCleans,
      CancelCleanupFails, CancelReports
<1> QED
  BY <1>1, <1>2, <1>3, <1>4 DEF Next

\* A step that is marked merged by this very merge_wave was picked by it.
LEMMA MergeMarks ==
    ASSUME TypeOK, NEW c \in Dispatchers, NEW s \in Steps,
           MergeSucceeds(c) \/ MergeConflicts(c) \/ MergeFails(c),
           child'[s].merge = "merged"
    PROVE  \/ child[s].merge = "merged"
           \/ child[s].commit # None /\ <<s, child[s].commit>> \in applied'
<1>1. Pending(c) \subseteq Steps
  BY DEF Pending, WaveSteps
<1>2. ASSUME NEW S \in SUBSET Steps, NEW T \in SUBSET Steps, S \subseteq T,
             Fold(S)[s].merge = "merged", applied' = applied \cup Picks(T)
      PROVE  \/ child[s].merge = "merged"
             \/ child[s].commit # None /\ <<s, child[s].commit>> \in applied'
  BY <1>2, FoldFields DEF Picks
<1>3. CASE MergeSucceeds(c)
  BY <1>1, <1>2, <1>3 DEF MergeSucceeds
<1>4. CASE MergeConflicts(c)
  <2>1. PICK k \in Pending(c), S \in SUBSET Pending(c) :
          /\ child' = [Fold(S) EXCEPT ![k].merge = "conflict"]
          /\ applied' = applied \cup Picks(S)
    BY <1>4 DEF MergeConflicts
  <2>2. \A t \in Steps : Fold(S)[t] \in Child
    BY FoldType
  <2>3. child'[s].merge = Fold(S)[s].merge
    <3>1. s = k => child'[s].merge = "conflict"
      BY <1>1, <2>1, <2>2, FoldType DEF Child
    <3>2. s # k => child'[s] = Fold(S)[s]
      BY <2>1, FoldType
    <3> QED
      BY <3>1, <3>2
  <2> QED
    BY <1>1, <1>2, <2>1, <2>3
<1>5. CASE MergeFails(c)
  <2>1. PICK k \in Pending(c), at \in {"untouched", "picked", "marked"} :
          LET S == {t \in Pending(c) : t < k}
              picked == IF at = "untouched" THEN S ELSE S \cup {k}
              marked == IF at = "marked" THEN S \cup {k} ELSE S
          IN  child' = Fold(marked) /\ applied' = applied \cup Picks(picked)
    BY <1>5 DEF MergeFails
  <2>2. PICK S \in SUBSET Steps, T \in SUBSET Steps :
          S \subseteq T /\ child' = Fold(S) /\ applied' = applied \cup Picks(T)
    BY <1>1, <2>1
  <2> QED
    BY <1>2, <2>2
<1> QED
  BY <1>3, <1>4, <1>5

LEMMA MergedNext ==
    ASSUME TypeOK, ClaimHeld, CommitIsSuccess, MergedIsApplied, [Next]_vars
    PROVE  MergedIsApplied'
<1> SUFFICES ASSUME NEW s \in Steps, child'[s].merge = "merged"
             PROVE  child'[s].status = "SUCCESS" /\ <<s, child'[s].commit>> \in applied'
  BY DEF MergedIsApplied, Applied
<1>1. CASE SameRun(s) /\ child[s].merge = "merged"
  BY <1>1, AppliedGrows DEF SameRun, MergedIsApplied, Applied
<1>2. CASE child'[s] = child[s]
  BY <1>1, <1>2 DEF SameRun
<1>3. child[s].merge = "merged" =>
         child[s].status = "SUCCESS" /\ child[s].commit # None
  BY ActorAssumption DEF MergedIsApplied, Applied, TypeOK, Commits
<1>4. ASSUME NEW c \in Dispatchers,
             MergeSucceeds(c) \/ MergeConflicts(c) \/ MergeFails(c)
      PROVE  child'[s].status = "SUCCESS" /\ <<s, child'[s].commit>> \in applied'
  BY <1>1, <1>4, MergeMarks, MergeSameRun DEF SameRun, CommitIsSuccess
<1>5. ASSUME NEW c \in Dispatchers, Writes(c)
      PROVE  child'[s].status = "SUCCESS" /\ <<s, child'[s].commit>> \in applied'
  <2>1. ~PrepareCommits(c)
    BY PrepareWrites
  <2>2. PICK t \in Steps : \/ StepRefused(c, t) \/ StepClaims(c, t)
                           \/ StepSucceeds(c, t) \/ StepFails(c, t)
    BY <1>5, <2>1 DEF Writes
  <2>3. CASE s # t
    BY <1>2, <2>2, <2>3, StepWrites
  <2>4. CASE s = t
    <3>1. ~StepSucceeds(c, t)
      BY <2>4, StepWrites
    <3>2. child[s].merge = "merged"
      BY <2>2, <2>4, <3>1, StepWrites
    <3>3. ~StepRefused(c, t) /\ ~StepClaims(c, t)
      BY <1>3, <2>4, <3>2 DEF StepRefused, StepClaims, Committed
    <3>4. ~StepFails(c, t)
      BY <1>3, <2>4, <3>2 DEF StepFails, StepFenced, ClaimHeld, Working
    <3> QED
      BY <2>2, <3>1, <3>3, <3>4
  <2> QED
    BY <2>3, <2>4
<1>6. ASSUME NEW c \in Dispatchers, Callback(c)
      PROVE  child'[s].status = "SUCCESS" /\ <<s, child'[s].commit>> \in applied'
  <2>1. CASE WaveCommits(c)
    BY <1>1, <2>1, WaveSameRun
  <2> QED
    BY <1>2, <1>4, <1>5, <1>6, <2>1
    DEF Writes, Callback, CallbackSkipped, PrepareReuses, PrepareReads, PrepareFails,
        WaveReads, WaveFails, Step, StepSkips, StepDiscarded, MergeRepeated,
        MergeFindsFailure, FinalizeReturns, FinalizeReads, FinalizeCommits,
        FinalizeFails, FinalizeCleans, FinalizeCleanupFails
<1>7. ASSUME NEW d \in Dispatchers, Dispatch(d) \/ RetryCommits(d)
      PROVE  child'[s].status = "SUCCESS" /\ <<s, child'[s].commit>> \in applied'
  BY <1>2, <1>7, DispatchSameRun, RetryWrites
<1>8. ASSUME NEW k \in Cancellers, CancelCommits(k) \/ Cancel(k)
      PROVE  child'[s].status = "SUCCESS" /\ <<s, child'[s].commit>> \in applied'
  <2>1. Cancel(k) => UNCHANGED child
    BY DEF Cancel, CancelRevokes, CancelCleans, CancelCleanupFails, CancelReports
  <2> QED
    BY <1>2, <1>3, <1>8, <2>1, CancelWrites
<1>9. CASE UNCHANGED vars
  BY <1>2, <1>9 DEF vars
<1> QED
  BY <1>6, <1>7, <1>8, <1>9 DEF Next

-----------------------------------------------------------------------------
(* The inductive invariant                                                 *)

LEMMA InvInit == Init => ExecutionInv
<1> SUFFICES ASSUME Init PROVE ExecutionInv
  OBVIOUS
<1>1. TypeOK
  BY TypeInit
<1>2. /\ parent.gen = 0 /\ ~parent.change /\ parent.status = "RUNNING"
      /\ codeChanges.named = 0 /\ codeChanges.orphaned = 0
  BY DEF Init
<1>3. \A c \in Dispatchers :
        /\ canvas[c].gen = 0 /\ canvas[c].stage = "free" /\ ~canvas[c].busy
        /\ \A s \in Steps : canvas[c].step[s] # "working"
  BY DEF Init, NoCanvas
<1>4. \A s \in Steps : child[s].commit = None /\ child[s].merge # "merged"
  BY DEF Init, NewChild
<1> QED
  BY <1>1, <1>2, <1>3, <1>4
  DEF ExecutionInv, CanvasLifecycle, OneCodeChange, ChangesFit, FinalizerIsRight, ClaimHeld,
      CommitIsSuccess, MergedIsApplied, Working

LEMMA InvNext == ExecutionInv /\ [Next]_vars => ExecutionInv'
BY TypeNext, LifecycleNext, CodeChangeNext, FinalizerNext, ClaimNext,
   CommitSuccessNext, MergedNext DEF ExecutionInv

\* The strengthened invariant holds in every reachable state.
THEOREM InvCorrect == Spec => []ExecutionInv
BY InvInit, InvNext, PTL DEF Spec

-----------------------------------------------------------------------------
(* What follows from it                                                    *)

\* However many retries, cancellations and overlapping canvases there are, an
\* orchestrator gets at most one CodeChange, and SUCCESS always comes with it
\* (finalize_execution).
THEOREM OneCodeChangeAlways == Spec => []OneCodeChange
<1>1. ExecutionInv => OneCodeChange
  BY DEF ExecutionInv
<1> QED
  BY <1>1, InvCorrect, PTL

\* Two deliveries never execute the same step in the same generation
\* (execute_step): the claim a current run holds is its own.
THEOREM OneRunPerGenerationAlways == Spec => []OneRunPerGeneration
<1>1. ExecutionInv => OneRunPerGeneration
  BY DEF ExecutionInv, OneRunPerGeneration, WorkingNow, StepFenced, ClaimHeld
<1> QED
  BY <1>1, InvCorrect, PTL

\* A row marked merged has its commit on the integration branch, whatever
\* interrupted merge_wave and whatever was cancelled or retried since.
THEOREM MergedIsAppliedAlways == Spec => []MergedIsApplied
<1>1. ExecutionInv => MergedIsApplied
  BY DEF ExecutionInv
<1> QED
  BY <1>1, InvCorrect, PTL

\* Nothing but a retry, which opens a new generation, makes a finished
\* orchestrator active again, and never a successful one.
THEOREM RevivalNeedsRetryAlways == Spec => RevivalNeedsRetry
<1>1. ASSUME TypeOK, [Next]_vars
      PROVE  IsTerminal /\ parent'.status \notin Terminal =>
                parent'.gen = parent.gen + 1 /\ parent.status # "SUCCESS"
  BY <1>1, NextParent
  DEF ParentMoves, SameParent, FailedParent, PreparedParent, FinishedParent,
      OpenedParent, CancelledParent, RetriedParent, IsTerminal, Terminal
<1> QED
  BY <1>1, TypeCorrect, PTL DEF Spec, RevivalNeedsRetry

\* A callback that has lost its generation meets a barrier or a fence.
LEMMA StaleIsInert ==
    ASSUME NEW c \in Dispatchers, Callback(c), ~Current(c)
    PROVE  UNCHANGED <<parent, child, applied, trees, codeChanges>>
<1>1. Barred(c) /\ ~Cleanable(c) /\ \A s \in Steps : StepFenced(c, s)
  BY DEF Barred, Cleanable, StepFenced
<1> QED
  BY <1>1 DEF Callback, CallbackSkipped, PrepareReuses, PrepareReads,
      PrepareCommits, PrepareFails, WaveReads, WaveCommits, WaveFails, Step,
      StepSkips, StepRefused, StepClaims, StepDiscarded, StepSucceeds, StepFails,
      Merging, MergeRepeated, MergeFindsFailure, MergeSucceeds, MergeConflicts,
      MergeFails, FinalizeReturns, FinalizeReads, FinalizeCommits, FinalizeFails,
      FinalizeCleans, FinalizeCleanupFails

\* A callback of an older generation writes nothing (_callback_barrier and the
\* fences of execute_step).
THEOREM OldGenerationIsInertAlways == Spec => OldGenerationIsInert
<1>1. [\A c \in Dispatchers : Callback(c) /\ ~Current(c) =>
          UNCHANGED <<parent, child, applied, trees, codeChanges>>]_vars
  BY StaleIsInert
<1> QED
  BY <1>1, PTL DEF OldGenerationIsInert

-----------------------------------------------------------------------------
(* Refinement                                                              *)

\* Commits reach the integration branch in merge_wave only.
LEMMA OnlyMergeIntegrates ==
    ASSUME TypeOK, [Next]_vars, applied' # applied
    PROVE  /\ parent.status = "RUNNING"
           /\ UNCHANGED codeChanges
           /\ parent'.gen = parent.gen
           /\ parent'.status \in {"RUNNING", "FAILED"}
<1>1. PICK c \in Dispatchers : MergeSucceeds(c) \/ MergeConflicts(c) \/ MergeFails(c)
  <2>1. ASSUME NEW c \in Dispatchers, Callback(c), applied' # applied
        PROVE  MergeSucceeds(c) \/ MergeConflicts(c) \/ MergeFails(c)
    BY <2>1 DEF Callback, CallbackSkipped, PrepareReuses, PrepareReads,
      PrepareCommits, PrepareFails, WaveReads, WaveCommits, WaveFails, Step,
      StepSkips, StepRefused, StepClaims, StepDiscarded, StepSucceeds, StepFails,
      MergeRepeated, MergeFindsFailure,
      FinalizeReturns, FinalizeReads, FinalizeCommits, FinalizeFails,
      FinalizeCleans, FinalizeCleanupFails
  <2>2. ASSUME NEW d \in Dispatchers, Dispatch(d) \/ RetryCommits(d)
        PROVE  UNCHANGED applied
    BY <2>2 DEF Dispatch, DispatchFindsQueued, DispatchBuilds, DispatchMismatches,
      DispatchPublishes, DispatchPublishFails, DispatchConfirms, RetryPersists,
      RetryCommits
  <2>3. ASSUME NEW k \in Cancellers, CancelCommits(k) \/ Cancel(k)
        PROVE  UNCHANGED applied
    BY <2>3 DEF CancelCommits, Cancel, CancelRevokes, CancelCleans,
      CancelCleanupFails, CancelReports
  <2> QED
    BY <2>1, <2>2, <2>3 DEF Next, vars
<1>2. parent.status = "RUNNING"
  BY <1>1 DEF MergeSucceeds, MergeConflicts, MergeFails, Merging, Barred,
              IsTerminal, TypeOK, Parent
<1>3. \A plan : FailParent(plan) => FailedParent
  BY FailParentMoves
<1> QED
  BY <1>1, <1>2, <1>3 DEF MergeSucceeds, MergeConflicts, MergeFails, FailedParent

\* Every step of the execution is a step of the contract, or leaves its state alone.
LEMMA ContractStep ==
    ASSUME TypeOK, TypeOK', CanvasLifecycle, OneCodeChange, ChangesFit, FinalizerIsRight,
           [Next]_vars
    PROVE  [Contract!ContractNext]_(Contract!cvars)
<1>1. CASE applied' # applied
  <2>1. applied \subseteq applied' /\ applied' \subseteq Commits
    BY AppliedGrows DEF TypeOK
  <2>2. Contract!Integrate
    BY <1>1, <2>1, OnlyMergeIntegrates DEF Contract!Integrate
  <2> QED
    BY <2>2 DEF Contract!ContractNext
<1>2. CASE applied' = applied /\ \E c \in Dispatchers : FinalizeCommits(c)
  <2>1. /\ codeChanges.named = 0 /\ codeChanges'.named = 1
        /\ codeChanges'.orphaned = codeChanges.orphaned
        /\ parent.status = "RUNNING" /\ parent'.status = "SUCCESS" /\ parent'.gen = parent.gen
    BY <1>2
    DEF FinalizeCommits, FinalizerIsRight, OneCodeChange, Barred, IsTerminal,
        TypeOK, Parent
  <2> QED
    BY <1>2, <2>1 DEF Contract!ContractNext, Contract!Succeed
<1>3. CASE applied' = applied /\ \E c \in Dispatchers : FinalizeFails(c)
  <2>1. PICK c \in Dispatchers : FinalizeFails(c)
    BY <1>3
  <2>2. /\ parent \in Parent /\ codeChanges \in [named : Nat, orphaned : Nat]
    BY DEF TypeOK
  <2>3. /\ parent'.status = "FAILED" /\ parent'.gen = parent.gen
        /\ codeChanges'.named = codeChanges.named
        /\ codeChanges'.orphaned \in {codeChanges.orphaned, codeChanges.orphaned + 1}
    BY <2>1, <2>2 DEF FinalizeFails, FailParent, Parent
  <2>4. ~parent.change /\ codeChanges.named = 0
    <3>1. ~parent.change
      BY <2>1 DEF FinalizeFails, FinalizerIsRight
    <3> QED
      BY <3>1 DEF OneCodeChange
  <2>5. codeChanges.orphaned < parent.gen /\ parent.status = "RUNNING"
    <3>1. parent.status = "RUNNING"
      BY <2>1, <2>2 DEF FinalizeFails, Barred, IsTerminal, Parent
    <3> QED
      BY <2>1, <2>4, <3>1, FinalizerIsFirst
  <2>6. Contract!Fail
    BY <1>3, <2>3, <2>4, <2>5 DEF Contract!Fail
  <2> QED
    BY <2>6 DEF Contract!ContractNext
<1>4. CASE /\ applied' = applied
           /\ \A c \in Dispatchers : ~FinalizeCommits(c) /\ ~FinalizeFails(c)
  <2>1. UNCHANGED codeChanges
    BY <1>4, OnlyFinalizerPublishes
  <2>2. ParentMoves /\ ~FinishedParent
    BY <1>4, NextParent DEF FinishedParent
  <2>3. CASE SameParent
    BY <1>4, <2>1, <2>3 DEF SameParent, Contract!cvars
  <2>4. CASE FailedParent
    BY <1>4, <2>1, <2>4 DEF FailedParent, Contract!ContractNext, Contract!Fail
  <2>5. CASE PreparedParent
    <3>1. parent.status = "RUNNING"
      BY <2>5 DEF PreparedParent, IsTerminal, TypeOK, Parent
    <3> QED
      BY <1>4, <2>1, <2>5, <3>1 DEF PreparedParent, Contract!cvars
  <2>6. CASE OpenedParent
    BY <1>4, <2>1, <2>6 DEF OpenedParent, Contract!ContractNext, Contract!Open
  <2>7. CASE CancelledParent
    <3>1. parent.status = "RUNNING"
      BY <2>7 DEF CancelledParent, IsTerminal, TypeOK, Parent
    <3> QED
      BY <1>4, <2>1, <2>7, <3>1
      DEF CancelledParent, Contract!ContractNext, Contract!Cancelled
  <2>8. CASE RetriedParent
    BY <1>4, <2>1, <2>8
    DEF RetriedParent, Contract!ContractNext, Contract!Retried
  <2> QED
    BY <2>2, <2>3, <2>4, <2>5, <2>6, <2>7, <2>8 DEF ParentMoves
<1> QED
  BY <1>1, <1>2, <1>3, <1>4

\* The execution keeps its contract, step by step: an integration branch that
\* only a running execution extends, one CodeChange, and a generation that
\* every cancellation and every retry advances.
THEOREM ImplementsContractAlways == Spec => ImplementsContract
<1>1. Init => Contract!ContractInit
  BY DEF Init, Contract!ContractInit
<1>2. ASSUME ExecutionInv, [Next]_vars
      PROVE  [Contract!ContractNext]_(Contract!cvars)
  BY <1>2, InvNext, ContractStep DEF ExecutionInv
<1> QED
  BY <1>1, <1>2, InvCorrect, PTL
  DEF Spec, ImplementsContract, Contract!ContractSpec
=============================================================================

----------------------- MODULE ExecutionProgress_proofs -----------------------
(***************************************************************************)
(* Theorems about the progress of an execution, for every plan, every      *)
(* number of dispatchers and cancellations, and every combination of       *)
(* faults, as long as retries come one by one (TimelyRetry): SUCCESS means *)
(* that every step is finished, finished work is kept, a step starts from  *)
(* the commits of the waves before it and keeps its directory, conflicts   *)
(* are real, and no worktree is left.                                      *)
(***************************************************************************)
EXTENDS ExecutionSafety_proofs, ExecutionProgress

-----------------------------------------------------------------------------
(* What a step does to the canvases                                        *)

\* Fields that place canvas c in its chain.
SamePlace(c) ==
    /\ canvas'[c].gen = canvas[c].gen /\ canvas'[c].ids = canvas[c].ids
    /\ canvas'[c].stage = canvas[c].stage /\ canvas'[c].wave = canvas[c].wave
    /\ canvas'[c].step = canvas[c].step

OthersStay(c) == \A d \in Dispatchers \ {c} : canvas'[d] = canvas[d]

\* The rest of the chain: the place after the place of canvas c.
LEMMA AdvanceFields ==
    ASSUME TypeOK, NEW c \in Dispatchers, Advance(c)
    PROVE  /\ OthersStay(c)
           /\ canvas'[c].gen = canvas[c].gen /\ canvas'[c].ids = canvas[c].ids
           /\ canvas[c].stage = "prepare" =>
                /\ canvas'[c].stage = "wave" /\ ~canvas'[c].busy
                /\ canvas'[c].wave = canvas[c].wave /\ canvas'[c].step = canvas[c].step
           /\ canvas[c].stage = "wave" =>
                /\ canvas'[c].stage = "steps" /\ ~canvas'[c].busy
                /\ canvas'[c].wave = canvas[c].wave
                /\ \A s \in Steps : canvas'[c].step[s] =
                     IF WaveOf[s] = canvas[c].wave THEN "queued" ELSE canvas[c].step[s]
           /\ canvas[c].stage = "merge" =>
                /\ canvas'[c].step = canvas[c].step /\ canvas'[c].busy = canvas[c].busy
                /\ IF canvas[c].wave < LastWave
                   THEN canvas'[c].stage = "wave" /\ canvas'[c].wave = canvas[c].wave + 1
                   ELSE canvas'[c].stage = "finalize" /\ canvas'[c].wave = canvas[c].wave
           /\ canvas[c].stage \in {"finalize", "cleanup"} =>
                /\ canvas'[c].stage = "done" /\ ~canvas'[c].busy
                /\ canvas'[c].wave = canvas[c].wave /\ canvas'[c].step = canvas[c].step
<1> DEFINE r == canvas[c]
<1>1. canvas'[c] = Successor(r) /\ OthersStay(c)
  BY DEF Advance, TypeOK, OthersStay
<1>2. r \in Canvas
  BY DEF TypeOK
<1> HIDE DEF r
<1>3. Successor(r).gen = r.gen /\ Successor(r).ids = r.ids
  BY <1>2 DEF Successor, AfterMerge, Canvas
<1>4. CASE r.stage = "prepare"
  <2>1. /\ Successor(r).stage = "wave" /\ ~Successor(r).busy
        /\ Successor(r).wave = r.wave /\ Successor(r).step = r.step
    BY <1>2, <1>4 DEF Successor, Canvas
  <2> QED
    BY <1>1, <1>3, <1>4, <2>1 DEF r
<1>5. CASE r.stage = "wave"
  <2>1. Successor(r) = [r EXCEPT
             !.stage = "steps", !.busy = FALSE, !.todo = {}, !.base = {},
             !.step = [s \in Steps |-> IF WaveOf[s] = r.wave
                                       THEN "queued" ELSE r.step[s]]]
    BY <1>5 DEF Successor
  <2>2. /\ Successor(r).stage = "steps" /\ ~Successor(r).busy
        /\ Successor(r).wave = r.wave
        /\ \A s \in Steps : Successor(r).step[s] =
             IF WaveOf[s] = r.wave THEN "queued" ELSE r.step[s]
    BY <1>2, <2>1 DEF Canvas
  <2> QED
    BY <1>1, <1>3, <1>5, <2>2 DEF r
<1>6. CASE r.stage = "merge"
  <2>1. /\ Successor(r).step = r.step /\ Successor(r).busy = r.busy
        /\ IF r.wave < LastWave
           THEN Successor(r).stage = "wave" /\ Successor(r).wave = r.wave + 1
           ELSE Successor(r).stage = "finalize" /\ Successor(r).wave = r.wave
    BY <1>2, <1>6 DEF Successor, AfterMerge, Canvas
  <2> QED
    BY <1>1, <1>3, <1>6, <2>1 DEF r
<1>7. CASE r.stage \notin {"prepare", "wave", "merge"}
  <2>1. /\ Successor(r).stage = "done" /\ ~Successor(r).busy
        /\ Successor(r).wave = r.wave /\ Successor(r).step = r.step
    BY <1>2, <1>7 DEF Successor, Canvas
  <2> QED
    BY <1>1, <1>3, <1>7, <2>1 DEF r
<1> QED
  BY <1>4, <1>5, <1>6, <1>7

\* A member of the chord returns; the last one triggers merge_wave.
LEMMA ReturnFields ==
    ASSUME TypeOK, NEW c \in Dispatchers, NEW s \in Steps, StepReturns(c, s)
    PROVE  /\ OthersStay(c)
           /\ canvas'[c].gen = canvas[c].gen /\ canvas'[c].ids = canvas[c].ids
           /\ canvas'[c].wave = canvas[c].wave /\ canvas'[c].busy = canvas[c].busy
           /\ canvas'[c].step[s] = "done"
           /\ \A t \in Steps \ {s} : canvas'[c].step[t] = canvas[c].step[t]
           /\ \/ canvas'[c].stage = canvas[c].stage
              \/ /\ canvas[c].stage = "steps" /\ canvas'[c].stage = "merge"
                 /\ \A t \in Steps : WaveOf[t] = canvas[c].wave =>
                                        canvas'[c].step[t] = "done"
<1> DEFINE r == [canvas[c] EXCEPT !.step[s] = "done"]
<1>1. canvas[c] \in Canvas
  BY DEF TypeOK
<1>2. canvas'[c] = (IF Joined(r) THEN [r EXCEPT !.stage = "merge"] ELSE r)
      /\ OthersStay(c)
  BY DEF StepReturns, TypeOK, OthersStay
<1>3. /\ r.gen = canvas[c].gen /\ r.ids = canvas[c].ids /\ r.stage = canvas[c].stage
      /\ r.wave = canvas[c].wave /\ r.busy = canvas[c].busy
      /\ r.step = [canvas[c].step EXCEPT ![s] = "done"]
  BY <1>1 DEF Canvas
<1>4. [canvas[c].step EXCEPT ![s] = "done"]
            \in [Steps -> {"idle", "queued", "working", "done"}]
  BY <1>1 DEF Canvas
<1>5. r \in Canvas
  BY <1>1, <1>4 DEF Canvas
<1>6. r.step[s] = "done" /\ \A t \in Steps \ {s} : r.step[t] = canvas[c].step[t]
  BY <1>1, <1>3 DEF Canvas
<1> HIDE DEF r
<1>7. CASE Joined(r)
  <2>1. /\ canvas'[c].gen = r.gen /\ canvas'[c].ids = r.ids
        /\ canvas'[c].wave = r.wave /\ canvas'[c].busy = r.busy
        /\ canvas'[c].step = r.step /\ canvas'[c].stage = "merge"
    BY <1>2, <1>5, <1>7 DEF Canvas
  <2>2. r.stage = "steps" /\ \A t \in Steps : WaveOf[t] = r.wave => r.step[t] = "done"
    BY <1>7 DEF Joined, WaveSteps
  <2> QED
    BY <1>2, <1>3, <1>6, <2>1, <2>2
<1>8. CASE ~Joined(r)
  BY <1>2, <1>3, <1>6, <1>8
<1> QED
  BY <1>7, <1>8

\* Reads, a claim and the finalizer's commit change a canvas in its place.
LEMMA ReadsFields ==
    ASSUME TypeOK, NEW c \in Dispatchers,
           PrepareReads(c) \/ WaveReads(c) \/ FinalizeReads(c)
    PROVE  OthersStay(c) /\ SamePlace(c) /\ canvas'[c].busy
<1>1. canvas[c] \in Canvas
  BY DEF TypeOK
<1>2. CASE PrepareReads(c) \/ FinalizeReads(c)
  <2>1. canvas' = [canvas EXCEPT ![c].busy = TRUE]
    BY <1>2 DEF PrepareReads, FinalizeReads
  <2> QED
    BY <1>1, <2>1 DEF TypeOK, Canvas, OthersStay, SamePlace
<1>3. CASE WaveReads(c)
  BY <1>1, <1>3 DEF WaveReads, TypeOK, Canvas, OthersStay, SamePlace
<1> QED
  BY <1>2, <1>3

LEMMA ClaimFields ==
    ASSUME TypeOK, NEW c \in Dispatchers, NEW s \in Steps, StepClaims(c, s)
    PROVE  /\ OthersStay(c)
           /\ canvas'[c].gen = canvas[c].gen /\ canvas'[c].ids = canvas[c].ids
           /\ canvas'[c].stage = "steps" /\ canvas[c].stage = "steps"
           /\ canvas'[c].wave = canvas[c].wave /\ canvas'[c].busy = canvas[c].busy
           /\ canvas'[c].step[s] = "working"
           /\ \A t \in Steps \ {s} : canvas'[c].step[t] = canvas[c].step[t]
<1>1. canvas[c] \in Canvas
  BY DEF TypeOK
<1>2. canvas' = [canvas EXCEPT ![c].step[s] = "working"] /\ canvas[c].stage = "steps"
  BY DEF StepClaims
<1> QED
  BY <1>1, <1>2 DEF TypeOK, Canvas, OthersStay

LEMMA FinishFields ==
    ASSUME TypeOK, NEW c \in Dispatchers, FinalizeCommits(c)
    PROVE  /\ OthersStay(c)
           /\ canvas'[c].gen = canvas[c].gen /\ canvas'[c].ids = canvas[c].ids
           /\ canvas'[c].stage = "cleanup" /\ canvas[c].stage = "finalize"
           /\ canvas'[c].wave = canvas[c].wave /\ canvas'[c].step = canvas[c].step
<1>1. canvas[c] \in Canvas
  BY DEF TypeOK
<1> QED
  BY <1>1 DEF FinalizeCommits, TypeOK, Canvas, OthersStay

\* The dispatch: a canvas is recorded, published, or revoked.
LEMMA BuildsPlace ==
    ASSUME TypeOK, NEW d \in Dispatchers, DispatchBuilds(d)
    PROVE  /\ OthersStay(d)
           /\ canvas'[d].gen = parent'.gen /\ canvas'[d].stage = "built"
           /\ canvas'[d].wave = disp[d].start
           /\ canvas'[d].busy = canvas[d].busy /\ canvas'[d].step = canvas[d].step
<1> DEFINE gen == IF parent.gen = 0 THEN 1 ELSE parent.gen
           ids == IF Republish THEN parent.ids ELSE d
           built == [canvas[d] EXCEPT !.stage = "built", !.gen = gen,
                                      !.ids = ids, !.start = disp[d].start,
                                      !.wave = disp[d].start]
<1>1. canvas' = [canvas EXCEPT ![d] = built]
  BY DEF DispatchBuilds
<1>2. built.wave = disp[d].start
  <2>1. canvas[d] \in Canvas
    BY DEF TypeOK
  <2> HIDE DEF gen, ids
  <2> QED
    BY <2>1 DEF Canvas
<1> HIDE DEF built
<1> QED
  BY <1>1, <1>2, BuildsFields DEF TypeOK, OthersStay

LEMMA PublishPlace ==
    ASSUME TypeOK, NEW d \in Dispatchers, DispatchPublishes(d)
    PROVE  /\ OthersStay(d)
           /\ canvas'[d].gen = canvas[d].gen /\ canvas'[d].ids = canvas[d].ids
           /\ canvas'[d].wave = canvas[d].wave /\ canvas'[d].step = canvas[d].step
           /\ canvas'[d].busy = canvas[d].busy
           /\ canvas'[d].stage = IF canvas[d].stage = "built" THEN "prepare"
                                                              ELSE canvas[d].stage
<1>1. canvas[d] \in Canvas
  BY DEF TypeOK
<1> QED
  BY <1>1 DEF DispatchPublishes, Publish, TypeOK, Canvas, OthersStay

LEMMA RevokePlace ==
    ASSUME TypeOK, NEW k \in Cancellers, CancelRevokes(k), NEW d \in Dispatchers
    PROVE  \/ canvas'[d] = canvas[d]
           \/ /\ d \in canceller[k].targets /\ canvas[d].stage \notin {"free", "done"}
              /\ canvas'[d].gen = canvas[d].gen /\ canvas'[d].ids = canvas[d].ids
              /\ canvas'[d].stage = "revoked" /\ canvas'[d].wave = canvas[d].wave
              /\ \A s \in Steps : canvas'[d].step[s] \in {canvas[d].step[s], "done"}
<1>1. PICK reached \in SUBSET canceller[k].targets, terminated \in BOOLEAN :
        canvas' = [c \in Dispatchers |->
                     IF c \in reached THEN Revoked(canvas[c], terminated)
                                      ELSE canvas[c]]
  BY DEF CancelRevokes
<1>2. CASE canvas'[d] # canvas[d]
  <2> DEFINE r == canvas[d]
  <2>1. r \in Canvas
    BY DEF TypeOK
  <2>2. /\ d \in canceller[k].targets /\ r.stage \notin {"free", "done"}
        /\ canvas'[d] = Revoked(r, terminated)
    BY <1>1, <1>2 DEF Revoked
  <2> HIDE DEF r
  <2>3. canvas'[d] = [r EXCEPT !.stage = "revoked",
                   !.step = [s \in Steps |->
                      IF r.step[s] = "queued" \/ (r.step[s] = "working" /\ terminated)
                      THEN "done" ELSE r.step[s]]]
    BY <2>2 DEF Revoked
  <2>4. /\ canvas'[d].gen = r.gen /\ canvas'[d].ids = r.ids
        /\ canvas'[d].stage = "revoked" /\ canvas'[d].wave = r.wave
        /\ \A s \in Steps : canvas'[d].step[s] \in {r.step[s], "done"}
    BY <2>1, <2>3 DEF Canvas
  <2> QED
    BY <2>2, <2>4 DEF r
<1> QED
  BY <1>2

-----------------------------------------------------------------------------
(* Who is in charge                                                        *)

\* A recorded canvas stays recorded, in its generation.
Keeps(c) ==
    /\ canvas'[c].gen = canvas[c].gen /\ canvas'[c].ids = canvas[c].ids
    /\ canvas'[c].stage = "free" <=> canvas[c].stage = "free"

LEMMA StepStage ==
    ASSUME TypeOK, CanvasLifecycle, NEW c \in Dispatchers, NEW s \in Steps, Step(c, s)
    PROVE  /\ canvas[c].stage \notin {"free", "built"}
           /\ StepClaims(c, s) \/ StepReturns(c, s)
<1>1. canvas[c].stage = "steps" \/ Working(c, s)
  BY DEF Step, StepSkips, StepRefused, StepClaims, StepDiscarded, StepSucceeds,
         StepFails, Working
<1> QED
  BY <1>1 DEF CanvasLifecycle, Step, StepSkips, StepRefused, StepDiscarded,
              StepSucceeds, StepFails

LEMMA CallbackKeeps ==
    ASSUME TypeOK, CanvasLifecycle, NEW c \in Dispatchers, Callback(c)
    PROVE  OthersStay(c) /\ Keeps(c) /\ canvas[c].stage # "free"
<1>1. CASE /\ Advance(c)
           /\ canvas[c].stage \in {"prepare", "wave", "merge", "finalize", "cleanup"}
  BY <1>1, AdvanceFields DEF Keeps
<1>2. CASE PrepareReads(c) \/ WaveReads(c) \/ FinalizeReads(c)
  BY <1>2, ReadsFields DEF PrepareReads, WaveReads, FinalizeReads, SamePlace, Keeps
<1>3. CASE FinalizeCommits(c)
  BY <1>3, FinishFields DEF Keeps
<1>4. ASSUME NEW s \in Steps, Step(c, s)
      PROVE  OthersStay(c) /\ Keeps(c) /\ canvas[c].stage # "free"
  <2>1. CASE StepClaims(c, s)
    BY <2>1, ClaimFields DEF Keeps
  <2>2. CASE StepReturns(c, s)
    BY <1>4, <2>2, StepStage, ReturnFields DEF Keeps
  <2> QED
    BY <1>4, <2>1, <2>2, StepStage
<1> QED
  BY <1>1, <1>2, <1>3, <1>4
  DEF Callback, CallbackSkipped, PrepareReuses, PrepareCommits, PrepareFails,
      WaveCommits, WaveFails, MergeRepeated, MergeFindsFailure,
      MergeSucceeds, MergeConflicts, MergeFails, Merging, FinalizeReturns,
      FinalizeFails, FinalizeCleans, FinalizeCleanupFails

LEMMA NextKeeps ==
    ASSUME TypeOK, CanvasLifecycle, [Next]_vars, NEW c \in Dispatchers,
           ~DispatchBuilds(c)
    PROVE  Keeps(c)
<1>1. canvas'[c] = canvas[c] => Keeps(c)
  BY DEF Keeps
<1>2. ASSUME NEW d \in Dispatchers, Callback(d) PROVE Keeps(c)
  BY <1>1, <1>2, CallbackKeeps DEF OthersStay
<1>3. ASSUME NEW d \in Dispatchers, Dispatch(d) \/ RetryCommits(d) PROVE Keeps(c)
  <2>1. CASE DispatchBuilds(d)
    BY <1>1, <2>1, BuildsPlace DEF OthersStay
  <2>2. CASE DispatchPublishes(d)
    BY <1>1, <2>2, PublishPlace DEF OthersStay, Keeps
  <2> QED
    BY <1>1, <1>3, <2>1, <2>2
    DEF Dispatch, DispatchFindsQueued, DispatchMismatches, DispatchPublishFails,
        DispatchConfirms, RetryPersists, RetryCommits
<1>4. ASSUME NEW k \in Cancellers, CancelCommits(k) \/ Cancel(k) PROVE Keeps(c)
  <2>1. CASE CancelRevokes(k)
    BY <1>1, <2>1, RevokePlace DEF Keeps
  <2> QED
    BY <1>1, <1>4, <2>1
    DEF CancelCommits, Cancel, CancelCleans, CancelCleanupFails, CancelReports
<1> QED
  BY <1>1, <1>2, <1>3, <1>4 DEF Next, vars

\* A generation that is current after a step was current before it.
SameGeneration ==
    /\ parent'.gen = parent.gen
    /\ SameParent \/ FailedParent \/ PreparedParent \/ FinishedParent

LEMMA LivePersists ==
    ASSUME TypeOK, TypeOK', CanvasLifecycle, [Next]_vars, NEW c \in Dispatchers,
           ~DispatchBuilds(c), Live(c)'
    PROVE  Live(c) /\ SameGeneration
<1>1. ParentMoves
  BY NextParent
<1>2. /\ canvas[c].stage # "free" /\ canvas[c].gen = parent'.gen
      /\ canvas[c].gen <= parent.gen /\ canvas[c].gen > 0
      /\ canvas[c].gen \in Nat /\ parent.gen \in Nat
  BY NextKeeps DEF Live, Current, Keeps, CanvasLifecycle, TypeOK, Canvas, Parent
<1>3. SameParent \/ FailedParent \/ PreparedParent \/ FinishedParent
  BY <1>1, <1>2 DEF ParentMoves, OpenedParent, CancelledParent, RetriedParent
<1>4. parent'.gen = parent.gen
  BY <1>3 DEF SameParent, FailedParent, PreparedParent, FinishedParent
<1> QED
  BY <1>2, <1>3, <1>4 DEF Live, Current, SameGeneration

\* Who builds after a step built before it, or has just committed a retry.
LEMMA BuilderPersists ==
    ASSUME TypeOK, [Next]_vars, NEW c \in Dispatchers, disp'[c].pc = "build"
    PROVE  \/ disp[c].pc = "build" /\ disp'[c] = disp[c]
           \/ RetryCommits(c)
<1>1. CASE UNCHANGED disp
  BY <1>1
<1>2. ASSUME NEW d \in Dispatchers, Dispatch(d)
      PROVE  disp[c].pc = "build" /\ disp'[c] = disp[c]
  <2>1. \E p \in {"publish", "confirm", "persist", "done"} :
          disp' = [disp EXCEPT ![d].pc = p]
    BY <1>2 DEF Dispatch, DispatchFindsQueued, DispatchBuilds, DispatchMismatches,
        DispatchPublishes, DispatchPublishFails, DispatchConfirms, RetryPersists
  <2> QED
    BY <2>1 DEF TypeOK, Dispatcher
<1>3. ASSUME NEW d \in Dispatchers, RetryCommits(d)
      PROVE  (disp[c].pc = "build" /\ disp'[c] = disp[c]) \/ RetryCommits(c)
  BY <1>3 DEF RetryCommits, TypeOK
<1>4. ASSUME NEW d \in Dispatchers, Callback(d) PROVE UNCHANGED disp
  BY <1>4 DEF Callback, CallbackSkipped, PrepareReuses, PrepareReads,
      PrepareCommits, PrepareFails, WaveReads, WaveCommits, WaveFails, Step,
      StepSkips, StepRefused, StepClaims, StepDiscarded, StepSucceeds, StepFails,
      MergeRepeated, MergeFindsFailure, MergeSucceeds, MergeConflicts, MergeFails,
      FinalizeReturns, FinalizeReads, FinalizeCommits, FinalizeFails,
      FinalizeCleans, FinalizeCleanupFails
<1>5. ASSUME NEW k \in Cancellers, CancelCommits(k) \/ Cancel(k) PROVE UNCHANGED disp
  BY <1>5 DEF CancelCommits, Cancel, CancelRevokes, CancelCleans,
      CancelCleanupFails, CancelReports
<1> QED
  BY <1>1, <1>2, <1>3, <1>4, <1>5 DEF Next, vars


\* A retry opens a generation and a dispatch begins; the first dispatch opens the
\* first one.
LEMMA RetryFields ==
    ASSUME TypeOK, NEW d \in Dispatchers, RetryCommits(d)
    PROVE  /\ parent.gen \in Nat /\ parent.gen > 0 /\ parent'.gen = parent.gen + 1
           /\ parent.status \in {"FAILED", "CANCELLED"} /\ parent'.status = "RUNNING"
           /\ parent'.integ = parent.integ
           /\ disp[d].pc = "idle" /\ disp'[d].pc = "build"
           /\ \E w \in Waves : FirstWave(w) /\ disp'[d].start = w
           /\ \A c \in Dispatchers \ {d} : disp'[c] = disp[c]
           /\ UNCHANGED <<canvas, canceller, applied, trees, codeChanges>>
<1>1. parent \in Parent /\ disp \in [Dispatchers -> Dispatcher]
  BY DEF TypeOK
<1>2. /\ parent.gen > 0 /\ parent.status \in {"FAILED", "CANCELLED"}
      /\ disp[d].pc = "idle"
      /\ parent' = [parent EXCEPT !.status = "RUNNING", !.plan = "retrying",
                                  !.gen = parent.gen + 1, !.canvasId = FALSE]
      /\ UNCHANGED <<canvas, canceller, applied, trees, codeChanges>>
  BY DEF RetryCommits
<1>3. PICK w \in Waves :
        /\ FirstWave(w)
        /\ disp' = [disp EXCEPT ![d] = [pc |-> "build", start |-> w,
                                        gen |-> parent.gen + 1]]
  BY DEF RetryCommits
<1>4. /\ disp'[d].pc = "build" /\ disp'[d].start = w
      /\ \A c \in Dispatchers \ {d} : disp'[c] = disp[c]
  BY <1>1, <1>3
<1>5. /\ parent.gen \in Nat /\ parent'.gen = parent.gen + 1
      /\ parent'.status = "RUNNING" /\ parent'.integ = parent.integ
  BY <1>1, <1>2 DEF Parent
<1> QED
  BY <1>2, <1>3, <1>4, <1>5

LEMMA RetryRow ==
    ASSUME TypeOK, NEW d \in Dispatchers, RetryCommits(d), NEW s \in Steps
    PROVE  \/ Complete(s) /\ child'[s] = child[s]
           \/ /\ ~Complete(s)
              /\ child'[s].status = "PENDING" /\ child'[s].gen = parent'.gen
              /\ child'[s].commit = None /\ child'[s].merge = "pending"
              /\ child'[s].path = child[s].path
<1>1. child[s] \in Child
  BY DEF TypeOK
<1>2. child'[s] = IF Complete(s) THEN child[s]
                  ELSE [child[s] EXCEPT !.status = "PENDING", !.claim = None,
                                        !.commit = None, !.merge = "pending",
                                        !.gen = parent.gen + 1]
  BY DEF RetryCommits
<1> QED
  BY <1>1, <1>2, RetryFields DEF Child

LEMMA BuildsParent ==
    ASSUME TypeOK, NEW d \in Dispatchers, DispatchBuilds(d)
    PROVE  /\ disp[d].pc = "build"
           /\ parent'.gen = (IF parent.gen = 0 THEN 1 ELSE parent.gen)
           /\ parent'.status = parent.status /\ parent'.integ = parent.integ
           /\ disp'[d].pc = "publish"
           /\ \A c \in Dispatchers \ {d} : disp'[c] = disp[c]
           /\ UNCHANGED <<child, canceller, applied, trees, codeChanges>>
BY DEF DispatchBuilds, TypeOK, Parent, Dispatcher

LEMMA AloneNext ==
    ASSUME TypeOK, TypeOK', CanvasLifecycle, Alone, [Next]_vars, TimelyRetry
    PROVE  Alone'
<1>1. ASSUME NEW d \in Dispatchers, RetryCommits(d), NEW c \in Dispatchers, InCharge(c)'
      PROVE  c = d
  <2>0. parent.gen \in Nat /\ parent.gen > 0 /\ parent'.gen = parent.gen + 1
    BY <1>1, RetryFields
  <2>1. parent'.gen # parent.gen
    BY <2>0
  <2>2. ~DispatchBuilds(c)
    BY <2>0, <2>1, BuildsParent
  <2>3. ~Live(c)'
    BY <2>1, <2>2, LivePersists DEF SameGeneration
  <2>4. c # d => disp'[c] = disp[c] /\ disp[c].pc # "build"
    BY <1>1 DEF RetryCommits, TypeOK, TimelyRetry
  <2> QED
    BY <1>1, <2>3, <2>4 DEF InCharge
<1>2. ASSUME NEW d \in Dispatchers, DispatchBuilds(d), NEW c \in Dispatchers, InCharge(c)'
      PROVE  c = d
  <2>1. disp[d].pc = "build" /\ ~RetryCommits(c)
    BY <1>2 DEF DispatchBuilds, RetryCommits, TypeOK, Parent
  <2>2. ASSUME c # d PROVE InCharge(c)
    <3>1. ~DispatchBuilds(c)
      BY <2>1, <2>2 DEF DispatchBuilds, Alone, InCharge
    <3> QED
      BY <1>2, <2>1, <3>1, LivePersists, BuilderPersists DEF InCharge
  <2> QED
    BY <2>1, <2>2 DEF Alone, InCharge
<1>3. CASE \A d \in Dispatchers : ~RetryCommits(d) /\ ~DispatchBuilds(d)
  <2>1. ASSUME NEW c \in Dispatchers, InCharge(c)' PROVE InCharge(c)
    BY <1>3, <2>1, LivePersists, BuilderPersists DEF InCharge
  <2> QED
    BY <2>1 DEF Alone
<1> QED
  BY <1>1, <1>2, <1>3 DEF Alone

\* Only prepare_execution and a retry put a step into another generation.
LEMMA ChildGeneration ==
    ASSUME TypeOK, [Next]_vars, NEW s \in Steps
    PROVE  \/ child'[s].gen = child[s].gen
           \/ /\ child'[s].gen = parent.gen /\ parent'.gen = parent.gen
              /\ parent'.status = "RUNNING"
           \/ child'[s].gen = parent'.gen /\ parent'.status = "RUNNING"
<1>1. ASSUME NEW c \in Dispatchers, Callback(c)
      PROVE  \/ child'[s].gen = child[s].gen
             \/ /\ child'[s].gen = parent.gen /\ parent'.gen = parent.gen
                /\ parent'.status = "RUNNING"
  <2>1. CASE ~Writes(c)
    BY <1>1, <2>1, CallbackSameRun DEF SameRun
  <2>2. CASE PrepareCommits(c)
    <3>1. /\ canvas[c].gen = parent.gen
          /\ parent' = [parent EXCEPT !.status = "RUNNING", !.plan = "dispatched",
                                      !.integ = TRUE]
      BY <2>2 DEF PrepareCommits, Barred, Current
    <3> QED
      BY <2>2, <3>1, PrepareWrites DEF TypeOK, Parent
  <2>3. ASSUME NEW t \in Steps,
               \/ StepRefused(c, t) \/ StepClaims(c, t)
               \/ StepSucceeds(c, t) \/ StepFails(c, t)
        PROVE  child'[s].gen = child[s].gen
    BY <2>3, StepWrites
  <2> QED
    BY <2>1, <2>2, <2>3 DEF Writes
<1>2. ASSUME NEW d \in Dispatchers, RetryCommits(d)
      PROVE  \/ child'[s].gen = child[s].gen
             \/ child'[s].gen = parent'.gen /\ parent'.status = "RUNNING"
  BY <1>2, RetryRow, RetryFields
<1>3. ASSUME NEW k \in Cancellers, CancelCommits(k) PROVE child'[s].gen = child[s].gen
  BY <1>3 DEF CancelCommits, TypeOK, Child
<1>4. ASSUME NEW k \in Cancellers, Cancel(k) PROVE UNCHANGED child
  BY <1>4 DEF Cancel, CancelRevokes, CancelCleans, CancelCleanupFails, CancelReports
<1> QED
  BY <1>1, <1>2, <1>3, <1>4, DispatchSameRun DEF Next, vars

\* Only a cancellation revokes, and it revokes what it knew when it committed.
LEMMA RevokedBy ==
    ASSUME TypeOK, CanvasLifecycle, [Next]_vars, NEW c \in Dispatchers,
           canvas'[c].stage = "revoked"
    PROVE  \/ canvas[c].stage = "revoked"
           \/ \E k \in Cancellers : CancelRevokes(k) /\ c \in canceller[k].targets
<1>1. canvas'[c] = canvas[c] => canvas[c].stage = "revoked"
  OBVIOUS
<1>2. ASSUME NEW d \in Dispatchers, Callback(d) PROVE canvas[c].stage = "revoked"
  <2>1. CASE d # c
    BY <1>1, <1>2, <2>1, CallbackKeeps DEF OthersStay
  <2>2. CASE d = c
    <3>1. ASSUME Advance(c), canvas[c].stage \in
                   {"prepare", "wave", "merge", "finalize", "cleanup"}
          PROVE  canvas'[c].stage # "revoked"
      BY <3>1, AdvanceFields
    <3>2. CASE PrepareReads(c) \/ WaveReads(c) \/ FinalizeReads(c)
      BY <3>2, ReadsFields DEF SamePlace
    <3>3. CASE FinalizeCommits(c)
      BY <3>3, FinishFields
    <3>4. ASSUME NEW s \in Steps, Step(c, s) PROVE canvas[c].stage = "revoked"
      BY <3>4, StepStage, ClaimFields, ReturnFields
    <3> QED
      BY <1>2, <2>2, <3>1, <3>2, <3>3, <3>4
      DEF Callback, CallbackSkipped, PrepareReuses, PrepareCommits, PrepareFails,
          WaveCommits, WaveFails, MergeRepeated, MergeFindsFailure,
          MergeSucceeds, MergeConflicts, MergeFails, Merging, FinalizeReturns,
          FinalizeFails, FinalizeCleans, FinalizeCleanupFails
  <2> QED
    BY <2>1, <2>2
<1>3. ASSUME NEW d \in Dispatchers, Dispatch(d) \/ RetryCommits(d)
      PROVE  canvas[c].stage = "revoked"
  <2>1. CASE DispatchBuilds(d)
    BY <1>1, <2>1, BuildsPlace DEF OthersStay
  <2>2. CASE DispatchPublishes(d)
    BY <1>1, <2>2, PublishPlace DEF OthersStay
  <2> QED
    BY <1>1, <1>3, <2>1, <2>2
    DEF Dispatch, DispatchFindsQueued, DispatchMismatches, DispatchPublishFails,
        DispatchConfirms, RetryPersists, RetryCommits
<1>4. ASSUME NEW k \in Cancellers, CancelCommits(k) \/ Cancel(k)
      PROVE  canvas[c].stage = "revoked" \/ (CancelRevokes(k) /\ c \in canceller[k].targets)
  <2>1. CASE CancelRevokes(k)
    BY <1>1, <2>1, RevokePlace
  <2> QED
    BY <1>1, <1>4, <2>1
    DEF CancelCommits, Cancel, CancelCleans, CancelCleanupFails, CancelReports
<1> QED
  BY <1>1, <1>2, <1>3, <1>4 DEF Next, vars

LEMMA TargetsNext ==
    ASSUME TypeOK, TypeOK', CanvasLifecycle, TargetsAreStale, [Next]_vars,
           NEW k \in Cancellers, NEW d \in canceller'[k].targets
    PROVE  canvas'[d].stage # "free" /\ canvas'[d].gen < parent'.gen
<1>1. canceller[k] \in Canceller /\ canceller'[k] \in Canceller /\ d \in Dispatchers
  BY DEF TypeOK, Canceller
<1>2. /\ canvas[d].gen \in Nat /\ canvas'[d].gen \in Nat
      /\ parent.gen \in Nat /\ parent'.gen \in Nat /\ parent.gen <= parent'.gen
  BY <1>1, NextParent, GenerationGrows DEF TypeOK, Canvas, Parent
<1>3. CASE d \in canceller[k].targets
  <2>1. canvas[d].stage # "free" /\ canvas[d].gen < parent.gen
    BY <1>3 DEF TargetsAreStale
  <2>2. ~DispatchBuilds(d)
    BY <1>1, <2>1 DEF DispatchBuilds, CanvasLifecycle
  <2> QED
    BY <1>1, <1>2, <2>1, <2>2, NextKeeps DEF Keeps
<1>4. CASE d \notin canceller[k].targets
  <2>1. PICK j \in Cancellers : CancelCommits(j)
    <3>1. ASSUME NEW c \in Dispatchers, Callback(c) PROVE UNCHANGED canceller
      BY <3>1 DEF Callback, CallbackSkipped, PrepareReuses, PrepareReads,
      PrepareCommits, PrepareFails, WaveReads, WaveCommits, WaveFails, Step,
      StepSkips, StepRefused, StepClaims, StepDiscarded, StepSucceeds, StepFails,
      MergeRepeated, MergeFindsFailure, MergeSucceeds, MergeConflicts, MergeFails,
      FinalizeReturns, FinalizeReads, FinalizeCommits, FinalizeFails,
      FinalizeCleans, FinalizeCleanupFails
    <3>2. ASSUME NEW c \in Dispatchers, Dispatch(c) \/ RetryCommits(c)
          PROVE  UNCHANGED canceller
      BY <3>2 DEF Dispatch, DispatchFindsQueued, DispatchBuilds, DispatchMismatches,
        DispatchPublishes, DispatchPublishFails, DispatchConfirms, RetryPersists,
        RetryCommits
    <3>3. ASSUME NEW j \in Cancellers, Cancel(j)
          PROVE  canceller'[k].targets = canceller[k].targets
      <4>1. \E p \in {"cleanup", "done", "report"} :
              canceller' = [canceller EXCEPT ![j].pc = p]
        BY <3>3 DEF Cancel, CancelRevokes, CancelCleans, CancelCleanupFails, CancelReports
      <4> QED
        BY <1>1, <4>1 DEF TypeOK, Canceller
    <3> QED
      BY <1>4, <3>1, <3>2, <3>3 DEF Next, vars
  <2>2. canceller' = [canceller EXCEPT ![j] = [pc |-> "revoke", gen |-> parent.gen + 1,
                                               targets |-> Revocable]]
        /\ UNCHANGED canvas /\ parent'.gen = parent.gen + 1
    BY <2>1 DEF CancelCommits, TypeOK, Parent
  <2>3. d \in Revocable
    BY <1>4, <2>2 DEF TypeOK
  <2>4. canvas[d].ids # None
    BY <2>3 DEF Revocable
  <2>5. canvas[d].stage # "free" /\ canvas[d].gen <= parent.gen
    BY <1>1, <2>4 DEF TargetsAreStale, CanvasLifecycle
  <2> QED
    BY <1>2, <2>2, <2>5
<1> QED
  BY <1>3, <1>4

LEMMA TargetsKept ==
    ASSUME TypeOK, TypeOK', CanvasLifecycle, TargetsAreStale, [Next]_vars
    PROVE  TargetsAreStale'
<1>1. /\ parent.gen \in Nat /\ parent'.gen \in Nat /\ parent.gen <= parent'.gen
      /\ \A s \in Steps : child[s].gen \in Nat /\ child'[s].gen \in Nat
  BY NextParent, GenerationGrows DEF TypeOK, Canvas, Parent, Child
<1>2. ASSUME NEW c \in Dispatchers, canvas'[c].stage = "free" PROVE canvas'[c].ids = None
  <2>1. ~DispatchBuilds(c)
    BY <1>2, BuildsPlace
  <2> QED
    BY <1>2, <2>1, NextKeeps DEF Keeps, TargetsAreStale
<1>3. ASSUME NEW s \in Steps
      PROVE  /\ child'[s].gen <= parent'.gen
             /\ parent'.status = "CANCELLED" => child'[s].gen < parent'.gen
  <2>1. child[s].gen <= parent.gen
        /\ (parent.status = "CANCELLED" => child[s].gen < parent.gen)
    BY DEF TargetsAreStale
  <2>2. child'[s].gen <= parent'.gen
    BY <1>1, <2>1, ChildGeneration
  <2>3. CASE parent'.status = "CANCELLED"
    <3>1. child'[s].gen = child[s].gen
      BY <2>3, ChildGeneration
    <3>2. \/ parent.status = "CANCELLED"
          \/ parent'.gen = parent.gen + 1
      BY <2>3, NextParent DEF ParentMoves, SameParent, FailedParent, PreparedParent,
         FinishedParent, OpenedParent, CancelledParent, RetriedParent
    <3> QED
      BY <1>1, <2>1, <2>2, <3>1, <3>2
  <2> QED
    BY <2>2, <2>3
<1> QED
  BY <1>2, <1>3, TargetsNext DEF TargetsAreStale

LEMMA RevokedNext ==
    ASSUME TypeOK, TypeOK', CanvasLifecycle, RevokedAreStale, [Next]_vars
    PROVE  RevokedAreStale'
<1>1. TargetsAreStale'
  BY TargetsKept DEF RevokedAreStale
<1>2. ASSUME NEW c \in Dispatchers, canvas'[c].stage = "revoked"
      PROVE  canvas'[c].gen < parent'.gen
  <2>1. canvas[c].gen < parent.gen
    BY <1>2, RevokedBy DEF RevokedAreStale, TargetsAreStale
  <2>2. ~DispatchBuilds(c)
    BY <1>2, BuildsPlace
  <2>3. canvas'[c].gen = canvas[c].gen /\ parent.gen <= parent'.gen
    BY <2>2, NextKeeps, NextParent, GenerationGrows DEF Keeps
  <2> QED
    BY <2>1, <2>3 DEF TypeOK, Canvas, Parent
<1> QED
  BY <1>1, <1>2 DEF RevokedAreStale


-----------------------------------------------------------------------------
(* How far the steps are: what is left alone                               *)

SameRow(s) == SameRun(s) /\ child'[s].merge = child[s].merge
\* The parent keeps its generation, and its status or fails.
KeptOrFailed ==
    /\ parent'.gen = parent.gen /\ parent'.integ = parent.integ
    /\ parent'.status \in {parent.status, "FAILED"}
SameBuilder(c) ==
    disp'[c].pc = "build" => disp[c].pc = "build" /\ disp'[c].start = disp[c].start

LEMMA FrameRow ==
    ASSUME NEW s \in Steps, RowFits(s), SameRow(s), KeptOrFailed
    PROVE  RowFits(s)'
BY DEF RowFits, Unprepared, OldIsFinished, FoldedIsSuccess, Finished, Folded,
       InGeneration, IsTerminal, Terminal, SameRow, SameRun, KeptOrFailed

\* A canvas in its place, before a row that stays as it is.
LEMMA FrameCanvas ==
    ASSUME NEW c \in Dispatchers, NEW s \in Steps, CanvasFits(c, s),
           SamePlace(c), SameBuilder(c), SameRow(s), KeptOrFailed,
           canvas'[c].stage = "prepare" /\ canvas'[c].busy =>
               canvas[c].busy \/ ~parent.integ
    PROVE  CanvasFits(c, s)'
<1>1. Chord(c, s)'
  BY DEF CanvasFits, Chord, SamePlace
<1>2. PreparedFirst(c, s)'
  BY DEF CanvasFits, PreparedFirst, SamePlace, KeptOrFailed, Live, Current, Working
<1>3. Ahead(c, s)' = Ahead(c, s) /\ Behind(c, s)' = Behind(c, s)
      /\ Returned(c, s)' = Returned(c, s) /\ Working(c, s)' = Working(c, s)
  BY DEF Ahead, Behind, Returned, Working, SamePlace
<1>4. Live(c)' = Live(c) /\ Current(c)' = Current(c) /\ InGeneration(s)' = InGeneration(s)
      /\ Finished(s)' = Finished(s) /\ (IsTerminal => IsTerminal')
  BY DEF Live, Current, SamePlace, KeptOrFailed, InGeneration, SameRow, SameRun,
         Finished, IsTerminal, Terminal
<1>5. Follows(c, s)'
  BY <1>3, <1>4
  DEF CanvasFits, Follows, NotBegun, AtWorkIsRunning, ReturnedIsOver,
      BehindIsFinished, SameRow, SameRun, SameBuilder
<1> QED
  BY <1>1, <1>2, <1>5 DEF CanvasFits

\* A canvas that is not in charge fits whatever the rows are.
LEMMA IdleCanvas ==
    ASSUME NEW c \in Dispatchers, NEW s \in Steps, Chord(c, s)',
           Working(c, s)' => parent'.integ /\ canvas'[c].stage # "free",
           ~InCharge(c)'
    PROVE  CanvasFits(c, s)'
BY DEF CanvasFits, PreparedFirst, Follows, NotBegun, AtWorkIsRunning, ReturnedIsOver,
       BehindIsFinished, InCharge, Live

\* While the canvas in charge writes, the others are not, and stay so.
LEMMA OthersFit ==
    ASSUME ProgressInv, NEW c \in Dispatchers, InCharge(c), OthersStay(c), UNCHANGED disp,
           parent'.gen = parent.gen, parent.integ => parent'.integ,
           NEW d \in Dispatchers \ {c}, NEW s \in Steps
    PROVE  CanvasFits(d, s)'
<1>1. canvas'[d] = canvas[d] /\ ~InCharge(d)
  BY DEF OthersStay, ProgressInv, WhoIsInCharge, Alone
<1>2. ~InCharge(d)'
  BY <1>1 DEF InCharge, Live, Current
<1>3. Chord(d, s) /\ PreparedFirst(d, s)
  BY DEF ProgressInv, Progress, CanvasFits
<1>4. Chord(d, s)'
  BY <1>1, <1>3 DEF Chord
<1>5. Working(d, s)' => parent'.integ /\ canvas'[d].stage # "free"
  BY <1>1, <1>3 DEF PreparedFirst, Working, ProgressInv, ExecutionInv, CanvasLifecycle
<1> QED
  BY <1>2, <1>4, <1>5, IdleCanvas

\* The types the arguments about places and statuses need.
LEMMA PlaceTypes ==
    ASSUME TypeOK, NEW c \in Dispatchers, NEW s \in Steps
    PROVE  /\ WaveOf[s] \in Nat /\ WaveOf[s] <= LastWave /\ LastWave \in Nat
           /\ canvas[c].wave \in Nat /\ canvas[c].wave <= LastWave
           /\ parent.gen \in Nat /\ child[s].gen \in Nat /\ canvas[c].gen \in Nat
           /\ parent.status \in {"RUNNING", "SUCCESS", "FAILED", "CANCELLED"}
           /\ child[s].status \in Status /\ child[s].merge \in MergeStatus
<1>1. child[s] \in Child /\ canvas[c] \in Canvas /\ parent \in Parent
  BY DEF TypeOK
<1>2. WaveOf[s] \in Waves /\ canvas[c].wave \in Waves
  BY <1>1, PlanAssumption DEF Canvas
<1> QED
  BY <1>1, <1>2, PlanAssumption DEF Waves, Child, Canvas, Parent, Terminal

-----------------------------------------------------------------------------
(* How far the steps are: the chain goes on                                *)

\* The canvas that goes on fits, if it is prepared, and if the steps of the wave it
\* leaves are finished or the parent has failed.
LEMMA ChainFits ==
    ASSUME ProgressInv, NEW c \in Dispatchers, NEW s \in Steps, Advance(c), UNCHANGED disp,
           canvas[c].stage \in {"prepare", "wave", "merge", "finalize", "cleanup"},
           child'[s].status = child[s].status, child'[s].gen = child[s].gen,
           Finished(s) => Finished(s)', KeptOrFailed,
           canvas[c].stage = "prepare" /\ Live(c) =>
               parent.integ \/ parent'.status \in {"FAILED", "CANCELLED"},
           canvas[c].stage = "merge" /\ Live(c) /\ WaveOf[s] = canvas[c].wave =>
               Finished(s)' \/ parent'.status \in Terminal
    PROVE  CanvasFits(c, s)'
<1>0. /\ WaveOf[s] \in Nat /\ WaveOf[s] <= LastWave /\ LastWave \in Nat
      /\ canvas[c].wave \in Nat /\ canvas[c].wave <= LastWave
      /\ TypeOK /\ CanvasFits(c, s) /\ disp[c].pc \notin {"idle", "build"}
  BY PlaceTypes DEF ProgressInv, ExecutionInv, Progress, CanvasLifecycle
<1>1. Live(c)' = Live(c) /\ Current(c)' = Current(c) /\ InGeneration(s)' = InGeneration(s)
      /\ (IsTerminal => IsTerminal')
  BY <1>0, AdvanceFields
  DEF Live, Current, KeptOrFailed, InGeneration, IsTerminal, Terminal
<1>2. CASE canvas[c].stage = "prepare"
  <2>1. /\ canvas'[c].stage = "wave" /\ ~canvas'[c].busy
        /\ canvas'[c].wave = canvas[c].wave /\ canvas'[c].step = canvas[c].step
    BY <1>0, <1>2, AdvanceFields
  <2>2. Chord(c, s)' /\ ~Working(c, s)'
    BY <1>0, <1>2, <2>1 DEF CanvasFits, Chord, Working
  <2>3. PreparedFirst(c, s)'
    BY <1>0, <1>1, <1>2, <2>1, <2>2 DEF PreparedFirst, KeptOrFailed
  <2>4. /\ Ahead(c, s)' => Ahead(c, s)
        /\ Behind(c, s)' => Behind(c, s)
        /\ ~Returned(c, s)'
    BY <1>2, <2>1 DEF Ahead, Behind, Returned
  <2>5. Follows(c, s)'
    BY <1>0, <1>1, <2>2, <2>4
    DEF CanvasFits, Follows, NotBegun, AtWorkIsRunning, ReturnedIsOver, BehindIsFinished
  <2> QED
    BY <2>2, <2>3, <2>5 DEF CanvasFits
<1>3. CASE canvas[c].stage = "wave"
  <2>1. /\ canvas'[c].stage = "steps" /\ ~canvas'[c].busy
        /\ canvas'[c].wave = canvas[c].wave
        /\ canvas'[c].step[s] =
             IF WaveOf[s] = canvas[c].wave THEN "queued" ELSE canvas[c].step[s]
    BY <1>0, <1>3, AdvanceFields
  <2>2. Chord(c, s)' /\ ~Working(c, s)'
    BY <1>0, <1>3, <2>1 DEF CanvasFits, Chord, Working
  <2>3. PreparedFirst(c, s)'
    BY <1>0, <1>1, <1>3, <2>1, <2>2 DEF CanvasFits, PreparedFirst, KeptOrFailed
  <2>4. /\ Ahead(c, s)' => Ahead(c, s)
        /\ Behind(c, s)' => Behind(c, s)
        /\ ~Returned(c, s)'
    BY <1>0, <1>3, <2>1 DEF CanvasFits, Chord, Ahead, Behind, Returned
  <2>5. Follows(c, s)'
    BY <1>0, <1>1, <2>2, <2>4
    DEF CanvasFits, Follows, NotBegun, AtWorkIsRunning, ReturnedIsOver, BehindIsFinished
  <2> QED
    BY <2>2, <2>3, <2>5 DEF CanvasFits
<1>4. CASE canvas[c].stage = "merge"
  <2>1. /\ canvas'[c].step = canvas[c].step /\ canvas'[c].busy = canvas[c].busy
        /\ \/ /\ canvas'[c].stage = "wave" /\ canvas'[c].wave = canvas[c].wave + 1
           \/ /\ canvas'[c].stage = "finalize" /\ canvas'[c].wave = canvas[c].wave
              /\ ~(canvas[c].wave < LastWave)
    BY <1>0, <1>4, AdvanceFields
  <2>2. Chord(c, s)' /\ ~Working(c, s)'
    BY <1>0, <1>4, <2>1 DEF CanvasFits, Chord, Working
  <2>3. PreparedFirst(c, s)'
    BY <1>0, <1>1, <1>4, <2>1, <2>2 DEF CanvasFits, PreparedFirst, KeptOrFailed
  <2>4. /\ Ahead(c, s)' => Ahead(c, s)
        /\ Behind(c, s)' => Behind(c, s) \/ WaveOf[s] = canvas[c].wave
        /\ ~Returned(c, s)'
    BY <1>0, <1>4, <2>1 DEF Ahead, Behind, Returned
  <2>5. Follows(c, s)'
    BY <1>0, <1>1, <1>4, <2>2, <2>4
    DEF CanvasFits, Follows, NotBegun, AtWorkIsRunning, ReturnedIsOver,
        BehindIsFinished, IsTerminal
  <2> QED
    BY <2>2, <2>3, <2>5 DEF CanvasFits
<1>5. CASE canvas[c].stage \in {"finalize", "cleanup"}
  <2>1. canvas'[c].stage = "done" /\ canvas'[c].step = canvas[c].step
    BY <1>0, <1>5, AdvanceFields
  <2>2. Chord(c, s)' /\ ~Working(c, s)'
    BY <1>0, <1>5, <2>1 DEF CanvasFits, Chord, Working
  <2>3. PreparedFirst(c, s)'
    BY <1>0, <1>1, <1>5, <2>1, <2>2 DEF CanvasFits, PreparedFirst, KeptOrFailed
  <2>4. ~Ahead(c, s)' /\ ~Behind(c, s)' /\ ~Returned(c, s)'
    BY <2>1 DEF Ahead, Behind, Returned
  <2>5. Follows(c, s)'
    BY <1>0, <1>1, <2>2, <2>4
    DEF CanvasFits, Follows, NotBegun, AtWorkIsRunning, ReturnedIsOver, BehindIsFinished
  <2> QED
    BY <2>2, <2>3, <2>5 DEF CanvasFits
<1> QED
  BY <1>2, <1>3, <1>4, <1>5


LEMMA QuietProgress ==
    ASSUME ProgressInv, UNCHANGED child, KeptOrFailed,
           \A c \in Dispatchers : SamePlace(c) /\ SameBuilder(c),
           \A c \in Dispatchers : canvas'[c].stage = "prepare" /\ canvas'[c].busy =>
               canvas[c].busy \/ ~parent.integ
    PROVE  Progress'
<1>1. \A s \in Steps : SameRow(s)
  BY DEF SameRow, SameRun
<1> QED
  BY <1>1, FrameRow, FrameCanvas DEF ProgressInv, Progress

LEMMA FailsKept ==
    ASSUME TypeOK, NEW plan, FailParent(plan)
    PROVE  KeptOrFailed /\ parent'.status = "FAILED"
BY DEF FailParent, TypeOK, Parent, KeptOrFailed

\* The callbacks that go on and leave the rows as they are.
GoesOn(c) ==
    \/ CallbackSkipped(c) \/ PrepareReuses(c) \/ PrepareFails(c)
    \/ WaveCommits(c) \/ WaveFails(c)
    \/ MergeRepeated(c) \/ MergeFindsFailure(c)
    \/ FinalizeReturns(c) \/ FinalizeFails(c)
    \/ FinalizeCleans(c) \/ FinalizeCleanupFails(c)

LEMMA GoesOnFields ==
    ASSUME TypeOK, NEW c \in Dispatchers, GoesOn(c)
    PROVE  /\ Advance(c) /\ UNCHANGED disp /\ KeptOrFailed
           /\ canvas[c].stage \in {"prepare", "wave", "merge", "finalize", "cleanup"}
           /\ \A s \in Steps : SameRow(s)
<1>1. /\ Advance(c) /\ UNCHANGED disp
      /\ canvas[c].stage \in {"prepare", "wave", "merge", "finalize", "cleanup"}
      /\ UNCHANGED parent \/ \E plan : FailParent(plan)
      /\ UNCHANGED child \/ WaveCommits(c)
  BY DEF GoesOn, CallbackSkipped, PrepareReuses, PrepareFails, WaveCommits, WaveFails,
         MergeRepeated, MergeFindsFailure, Merging, FinalizeReturns, FinalizeFails,
         FinalizeCleans, FinalizeCleanupFails
<1>2. KeptOrFailed
  BY <1>1, FailsKept DEF KeptOrFailed
<1>3. \A s \in Steps : SameRow(s)
  BY <1>1, WaveSameRun DEF SameRow, SameRun
<1> QED
  BY <1>1, <1>2, <1>3

\* A canvas that goes on, next to others that stay.
LEMMA GoesOnProgress ==
    ASSUME ProgressInv, NEW c \in Dispatchers, GoesOn(c)
    PROVE  Progress'
<1>0. TypeOK
  BY DEF ProgressInv, ExecutionInv
<1>1. /\ Advance(c) /\ UNCHANGED disp /\ KeptOrFailed
      /\ canvas[c].stage \in {"prepare", "wave", "merge", "finalize", "cleanup"}
      /\ \A s \in Steps : SameRow(s)
  BY <1>0, GoesOnFields
<1>2. \A s \in Steps : RowFits(s)'
  BY <1>1, FrameRow DEF ProgressInv, Progress
<1>3. ASSUME NEW d \in Dispatchers \ {c}, NEW s \in Steps PROVE CanvasFits(d, s)'
  <2>1. canvas'[d] = canvas[d]
    BY <1>0, <1>1, AdvanceFields DEF OthersStay
  <2> QED
    BY <1>1, <2>1, FrameCanvas DEF ProgressInv, Progress, SamePlace, SameBuilder
<1>4. ASSUME NEW s \in Steps PROVE CanvasFits(c, s)'
  <2>1. Finished(s)' = Finished(s) /\ child'[s].status = child[s].status
        /\ child'[s].gen = child[s].gen
    BY <1>1 DEF SameRow, SameRun, Finished
  <2>2. RowFits(s) /\ parent.status \in {"RUNNING", "SUCCESS", "FAILED", "CANCELLED"}
    BY <1>0, PlaceTypes DEF ProgressInv, Progress
  <2>3. CASE CallbackSkipped(c)
    <3>1. Barred(c) /\ UNCHANGED parent /\ canvas[c].stage \in {"prepare", "wave", "merge"}
      BY <2>3 DEF CallbackSkipped
    <3>2. Live(c) => parent.status \in {"SUCCESS", "FAILED", "CANCELLED"}
      BY <3>1 DEF Barred, Live, IsTerminal, Terminal
    <3>3. Live(c) => parent.integ \/ parent'.status \in {"FAILED", "CANCELLED"}
      BY <2>2, <3>1, <3>2 DEF RowFits, Unprepared
    <3>4. Live(c) => parent'.status \in Terminal
      BY <3>1, <3>2 DEF Terminal
    <3> QED
      BY <1>1, <2>1, <3>3, <3>4, ChainFits
  <2>4. CASE PrepareReuses(c) \/ PrepareFails(c)
    <3>1. parent.integ \/ parent'.status = "FAILED"
      BY <1>0, <2>4, FailsKept DEF PrepareReuses, PrepareFails
    <3>2. canvas[c].stage = "prepare"
      BY <2>4 DEF PrepareReuses, PrepareFails
    <3> QED
      BY <1>1, <2>1, <3>1, <3>2, ChainFits
  <2>5. CASE MergeRepeated(c)
    <3>1. canvas[c].stage = "merge" /\ (WaveOf[s] = canvas[c].wave => Folded(s))
      BY <2>5 DEF MergeRepeated, Merging, Pending, WaveSteps
    <3>2. WaveOf[s] = canvas[c].wave => Finished(s)'
      BY <2>1, <2>2, <3>1 DEF RowFits, FoldedIsSuccess, Folded, Finished
    <3> QED
      BY <1>1, <2>1, <3>1, <3>2, ChainFits
  <2>6. CASE MergeFindsFailure(c)
    <3>1. canvas[c].stage = "merge" /\ parent'.status \in Terminal
      BY <1>0, <2>6, FailsKept DEF MergeFindsFailure, Merging, Terminal
    <3> QED
      BY <1>1, <2>1, <3>1, ChainFits
  <2>7. CASE canvas[c].stage \in {"wave", "finalize", "cleanup"}
    BY <1>1, <2>1, <2>7, ChainFits
  <2> QED
    BY <2>3, <2>4, <2>5, <2>6, <2>7
    DEF GoesOn, WaveCommits, WaveFails, FinalizeReturns, FinalizeFails,
        FinalizeCleans, FinalizeCleanupFails
<1> QED
  BY <1>2, <1>3, <1>4 DEF Progress

\* prepare_execution: the rows are taken into the generation while nothing has begun.
LEMMA PrepareProgress ==
    ASSUME ProgressInv, NEW c \in Dispatchers, PrepareCommits(c)
    PROVE  Progress'
<1>0. TypeOK
  BY DEF ProgressInv, ExecutionInv
<1>1. /\ canvas[c].stage = "prepare" /\ canvas[c].busy /\ Current(c)
      /\ Live(c) /\ ~IsTerminal
      /\ Advance(c) /\ UNCHANGED disp
      /\ parent' = [parent EXCEPT !.status = "RUNNING", !.plan = "dispatched",
                                  !.integ = TRUE]
  BY DEF PrepareCommits, Barred, Live
<1>2. /\ parent'.gen = parent.gen /\ parent'.status = "RUNNING" /\ parent'.integ
  BY <1>0, <1>1 DEF TypeOK, Parent
<1>3. ~parent.integ
  <2>1. PICK s \in Steps : TRUE
    BY PlanAssumption DEF Steps
  <2> QED
    BY <1>1, <2>1 DEF ProgressInv, Progress, CanvasFits, PreparedFirst
<1>4. ASSUME NEW s \in Steps
      PROVE  /\ child[s].status = "PENDING" /\ child'[s].status = "PENDING"
             /\ child'[s].gen = parent'.gen /\ child'[s].merge = "pending"
             /\ parent'.gen # 0
  <2>1. child[s].status = "PENDING"
    BY <1>1, <1>3 DEF ProgressInv, Progress, RowFits, Unprepared
  <2>2. canvas[c].gen > 0
    BY <1>1 DEF ProgressInv, ExecutionInv, CanvasLifecycle
  <2> QED
    BY <1>0, <1>1, <1>2, <2>1, <2>2, PrepareWrites DEF Current
<1>5. ASSUME NEW s \in Steps PROVE RowFits(s)'
  BY <1>2, <1>4
  DEF RowFits, Unprepared, OldIsFinished, InGeneration, FoldedIsSuccess, Folded
<1>6. ASSUME NEW d \in Dispatchers \ {c}, NEW s \in Steps PROVE CanvasFits(d, s)'
  BY <1>0, <1>1, <1>2, <1>3, AdvanceFields, OthersFit DEF InCharge
<1>7. ASSUME NEW s \in Steps PROVE CanvasFits(c, s)'
  <2>1. CanvasFits(c, s) /\ disp'[c].pc # "build"
    BY <1>1 DEF ProgressInv, ExecutionInv, CanvasLifecycle, Progress
  <2>2. /\ canvas'[c].stage = "wave" /\ ~canvas'[c].busy
        /\ canvas'[c].wave = canvas[c].wave /\ canvas'[c].step = canvas[c].step
    BY <1>0, <1>1, AdvanceFields
  <2>3. Chord(c, s)' /\ ~Working(c, s)'
    BY <1>1, <2>1, <2>2 DEF CanvasFits, Chord, Working
  <2>4. ~Behind(c, s)
    BY <1>1, <1>4, <2>1 DEF CanvasFits, Follows, BehindIsFinished, Finished
  <2>5. ~Behind(c, s)' /\ ~Returned(c, s)'
    BY <1>1, <2>2, <2>4 DEF Behind, Returned
  <2> QED
    BY <1>2, <1>4, <2>1, <2>2, <2>3, <2>5
    DEF CanvasFits, PreparedFirst, Follows, NotBegun, AtWorkIsRunning, ReturnedIsOver,
        BehindIsFinished
<1> QED
  BY <1>5, <1>6, <1>7 DEF Progress


-----------------------------------------------------------------------------
(* How far the steps are: the members of the chord                         *)

\* What execute_step writes to its row; the other rows stay.
LEMMA SucceedsRow ==
    ASSUME TypeOK, NEW c \in Dispatchers, NEW s \in Steps, StepSucceeds(c, s)
    PROVE  /\ child'[s].status = "SUCCESS" /\ child'[s].gen = child[s].gen
           /\ child'[s].path = child[s].path /\ child'[s].base = child[s].base
           /\ \/ child'[s].commit = c /\ child'[s].merge = "ready"
              \/ child'[s].commit = None /\ child'[s].merge = "skipped"
<1>1. PICK changed \in BOOLEAN :
        child' = [child EXCEPT ![s].status = "SUCCESS",
                               ![s].commit = IF changed THEN c ELSE None,
                               ![s].merge = IF changed THEN "ready" ELSE "skipped"]
  BY DEF StepSucceeds
<1>2. child[s] \in Child
  BY DEF TypeOK
<1> QED
  BY <1>1, <1>2 DEF TypeOK, Child

\* A step that is not fenced is one of the canvas in charge.
LEMMA Unfenced ==
    ASSUME ProgressInv, NEW c \in Dispatchers, NEW s \in Steps, ~StepFenced(c, s),
           canvas[c].step[s] \in {"queued", "working"}
    PROVE  /\ Live(c) /\ InCharge(c) /\ InGeneration(s)
           /\ canvas[c].stage = "steps" /\ WaveOf[s] = canvas[c].wave
           /\ canvas[c].step[s] = "queued" => child[s].status = "PENDING"
           /\ canvas[c].step[s] = "working" => child[s].status = "RUNNING"
           /\ ~Finished(s) /\ ~Folded(s) /\ parent.status # "SUCCESS"
           /\ parent.integ \/ parent.status \in {"FAILED", "CANCELLED"}
<1>1. Current(c) /\ InGeneration(s)
  BY DEF StepFenced, Current, InGeneration
<1>2. CanvasFits(c, s) /\ RowFits(s)
  BY DEF ProgressInv, Progress
<1>3. /\ canvas[c].stage = "steps" /\ WaveOf[s] = canvas[c].wave
  <2>1. canvas[c].stage # "revoked"
    <3>1. parent.gen \in Nat /\ canvas[c].gen = parent.gen
      BY <1>1 DEF ProgressInv, ExecutionInv, TypeOK, Parent, Current
    <3> QED
      BY <3>1 DEF ProgressInv, WhoIsInCharge, RevokedAreStale, TargetsAreStale
  <2> QED
    BY <1>2, <2>1 DEF CanvasFits, Chord
<1>4. Live(c) /\ InCharge(c)
  BY <1>1, <1>3 DEF Live, InCharge
<1>5. /\ canvas[c].step[s] = "queued" => child[s].status = "PENDING"
      /\ canvas[c].step[s] = "working" => child[s].status = "RUNNING"
  BY <1>1, <1>2, <1>3, <1>4
  DEF CanvasFits, Follows, NotBegun, Ahead, AtWorkIsRunning, Working
<1>6. ~Finished(s) /\ ~Folded(s) /\ parent.status # "SUCCESS"
  BY <1>2, <1>5 DEF RowFits, FoldedIsSuccess, Finished
<1>7. parent.integ \/ parent.status \in {"FAILED", "CANCELLED"}
  BY <1>2, <1>3, <1>4 DEF CanvasFits, PreparedFirst
<1> QED
  BY <1>1, <1>3, <1>4, <1>5, <1>6, <1>7

\* The canvas whose member returns: the place before the other rows does not
\* change, and the step is over.
LEMMA ReturnFits ==
    ASSUME ProgressInv, NEW c \in Dispatchers, NEW s \in Steps, StepReturns(c, s),
           canvas[c].step[s] \in {"queued", "working"},
           UNCHANGED <<parent, disp>>, NEW t \in Steps, t # s => SameRow(t),
           Live(c) /\ ~IsTerminal => child'[s].status \in {"SUCCESS", "FAILED"}
    PROVE  CanvasFits(c, t)'
<1>0. /\ TypeOK /\ CanvasFits(c, t) /\ CanvasFits(c, s)
      /\ disp'[c].pc = "build" => disp[c].pc = "build"
      /\ canvas[c].stage \in {"steps", "revoked"}
      /\ WaveOf[t] \in Nat /\ canvas[c].wave \in Nat
  <2>1. TypeOK /\ CanvasFits(c, t) /\ CanvasFits(c, s)
    BY DEF ProgressInv, ExecutionInv, Progress
  <2> QED
    BY <2>1, PlaceTypes DEF CanvasFits, Chord
<1>1. /\ canvas'[c].gen = canvas[c].gen /\ canvas'[c].wave = canvas[c].wave
      /\ canvas'[c].step[s] = "done"
      /\ t # s => canvas'[c].step[t] = canvas[c].step[t]
      /\ \/ canvas'[c].stage = canvas[c].stage
         \/ /\ canvas[c].stage = "steps" /\ canvas'[c].stage = "merge"
            /\ WaveOf[t] = canvas[c].wave => canvas'[c].step[t] = "done"
  BY <1>0, ReturnFields
<1>2. Live(c)' = Live(c) /\ Current(c)' = Current(c) /\ IsTerminal' = IsTerminal
  BY <1>0, <1>1 DEF Live, Current, IsTerminal
<1>3. Working(c, t)' => Working(c, t) /\ t # s
  BY <1>1 DEF Working
<1>4. Chord(c, t)'
  BY <1>0, <1>1 DEF CanvasFits, Chord
<1>5. PreparedFirst(c, t)'
  BY <1>0, <1>1, <1>2, <1>3 DEF CanvasFits, PreparedFirst
<1>6. disp[c].pc # "build"
  BY <1>0 DEF ProgressInv, ExecutionInv, CanvasLifecycle
<1>7. CASE t = s
  <2>1. ~Ahead(c, t)' /\ ~Working(c, t)'
    BY <1>0, <1>1, <1>3, <1>7 DEF CanvasFits, Chord, Ahead
  <2>2. Live(c)' => ~Behind(c, t)'
    <3>1. Live(c) => WaveOf[s] = canvas[c].wave
      <4>1. parent.gen \in Nat
        BY <1>0, PlaceTypes
      <4> QED
        BY <1>0, <4>1 DEF CanvasFits, Chord, Live, Current, ProgressInv, WhoIsInCharge,
           RevokedAreStale, TargetsAreStale
    <3> QED
      BY <1>0, <1>1, <1>2, <1>7, <3>1 DEF Behind
  <2> QED
    BY <1>0, <1>2, <1>4, <1>5, <1>6, <1>7, <2>1, <2>2
    DEF CanvasFits, Follows, NotBegun, AtWorkIsRunning, ReturnedIsOver, BehindIsFinished
<1>8. CASE t # s
  <2>1. SameRow(t) /\ InGeneration(t)' = InGeneration(t) /\ Finished(t)' = Finished(t)
    BY <1>8 DEF SameRow, SameRun, InGeneration, Finished
  <2>2. /\ Ahead(c, t)' => Ahead(c, t)
        /\ Behind(c, t)' => Behind(c, t)
        /\ Returned(c, t)' => Returned(c, t)
    BY <1>0, <1>1, <1>8 DEF Ahead, Behind, Returned
  <2> QED
    BY <1>0, <1>2, <1>3, <1>4, <1>5, <1>6, <2>1, <2>2
    DEF CanvasFits, Follows, NotBegun, AtWorkIsRunning, ReturnedIsOver,
        BehindIsFinished, SameRow, SameRun
<1> QED
  BY <1>7, <1>8

\* Members that return without a word: there was nothing left for them to do.
LEMMA SkipProgress ==
    ASSUME ProgressInv, NEW c \in Dispatchers, NEW s \in Steps,
           StepSkips(c, s) \/ StepDiscarded(c, s)
    PROVE  Progress'
<1>0. TypeOK /\ CanvasFits(c, s) /\ RowFits(s)
  BY DEF ProgressInv, ExecutionInv, Progress
<1>1. /\ StepReturns(c, s) /\ canvas[c].step[s] \in {"queued", "working"}
      /\ UNCHANGED <<parent, child, disp>>
  BY DEF StepSkips, StepDiscarded
<1>2. \A t \in Steps : SameRow(t)
  BY <1>1 DEF SameRow, SameRun
<1>3. KeptOrFailed
  BY <1>1 DEF KeptOrFailed
<1>4. ASSUME Live(c), ~IsTerminal PROVE child'[s].status \in {"SUCCESS", "FAILED"}
  <2>1. CASE StepFenced(c, s)
    <3>1. ~InGeneration(s)
      BY <1>4, <2>1 DEF StepFenced, Live, Current, InGeneration
    <3>2. canvas[c].stage \in {"steps", "revoked"}
      BY <1>0, <1>1 DEF CanvasFits, Chord
    <3>3. parent.integ
      BY <1>0, <1>4, <3>2 DEF CanvasFits, PreparedFirst, IsTerminal, Terminal
    <3> QED
      BY <1>0, <1>1, <1>4, <3>1, <3>3 DEF RowFits, OldIsFinished, Finished
  <2>2. CASE ~StepFenced(c, s)
    <3>1. StepSkips(c, s) /\ canvas[c].step[s] = "queued"
      BY <2>2 DEF StepSkips, StepDiscarded
    <3>2. child[s].status = "PENDING"
      BY <2>2, <3>1, Unfenced
    <3> QED
      BY <2>2, <3>1, <3>2 DEF StepSkips, Committed, Claimed
  <2> QED
    BY <2>1, <2>2
<1>5. ASSUME NEW d \in Dispatchers \ {c}, NEW t \in Steps PROVE CanvasFits(d, t)'
  <2>1. canvas'[d] = canvas[d]
    BY <1>0, <1>1, ReturnFields DEF OthersStay
  <2> QED
    BY <1>1, <1>2, <1>3, <2>1, FrameCanvas
    DEF ProgressInv, Progress, SamePlace, SameBuilder
<1>6. ASSUME NEW t \in Steps PROVE RowFits(t)' /\ CanvasFits(c, t)'
  BY <1>1, <1>2, <1>3, <1>4, ReturnFits, FrameRow DEF ProgressInv, Progress
<1> QED
  BY <1>5, <1>6 DEF Progress

\* Members that write: refused, successful or failed.
LEMMA WriteProgress ==
    ASSUME ProgressInv, NEW c \in Dispatchers, NEW s \in Steps,
           StepRefused(c, s) \/ StepSucceeds(c, s) \/ StepFails(c, s)
    PROVE  Progress'
<1>0. TypeOK
  BY DEF ProgressInv, ExecutionInv
<1>1. /\ StepReturns(c, s) /\ canvas[c].step[s] \in {"queued", "working"}
      /\ ~StepFenced(c, s) /\ UNCHANGED <<parent, disp>>
  BY DEF StepRefused, StepSucceeds, StepFails
<1>2. KeptOrFailed
  BY <1>1 DEF KeptOrFailed
<1>3. \A t \in Steps \ {s} : SameRow(t)
  BY <1>0, StepWrites DEF SameRow, SameRun
<1>4. RowFits(s)' /\ (~IsTerminal => child'[s].status \in {"SUCCESS", "FAILED"})
  <2>1. /\ InGeneration(s) /\ ~Folded(s) /\ parent.status # "SUCCESS"
        /\ parent.integ \/ parent.status \in {"FAILED", "CANCELLED"}
        /\ RowFits(s) /\ child'[s].gen = child[s].gen
    BY <1>0, <1>1, Unfenced, StepWrites DEF ProgressInv, Progress
  <2>2. InGeneration(s)' /\ IsTerminal' = IsTerminal
    BY <1>1, <2>1 DEF InGeneration, IsTerminal
  <2>3. CASE StepRefused(c, s)
    <3>1. /\ child'[s].status = "CANCELLED" /\ child'[s].merge = child[s].merge
          /\ child'[s].commit = child[s].commit /\ IsTerminal
      BY <1>0, <2>3, StepWrites DEF StepRefused, IsTerminal, Terminal
    <3> QED
      BY <1>1, <2>1, <2>2, <3>1
      DEF RowFits, Unprepared, OldIsFinished, FoldedIsSuccess, Folded
  <2>4. CASE StepSucceeds(c, s) \/ StepFails(c, s)
    <3>1. Working(c, s)
      BY <2>4 DEF StepSucceeds, StepFails, Working
    <3>2. parent.integ
      BY <3>1 DEF ProgressInv, Progress, CanvasFits, PreparedFirst
    <3>3. \/ child'[s].status = "SUCCESS"
             /\ (child'[s].merge = "skipped" => child'[s].commit = None)
          \/ child'[s].status = "FAILED" /\ child'[s].merge = child[s].merge
             /\ child'[s].commit = child[s].commit
      BY <1>0, <2>4, SucceedsRow, StepWrites
    <3> QED
      BY <1>1, <2>1, <2>2, <3>2, <3>3
      DEF RowFits, Unprepared, OldIsFinished, FoldedIsSuccess, Folded
  <2> QED
    BY <2>3, <2>4
<1>5. ASSUME NEW d \in Dispatchers \ {c}, NEW t \in Steps PROVE CanvasFits(d, t)'
  BY <1>0, <1>1, Unfenced, ReturnFields, OthersFit
<1>6. ASSUME NEW t \in Steps PROVE CanvasFits(c, t)'
  BY <1>1, <1>3, <1>4, ReturnFits
<1>7. ASSUME NEW t \in Steps PROVE RowFits(t)'
  BY <1>2, <1>3, <1>4, FrameRow DEF ProgressInv, Progress
<1> QED
  BY <1>5, <1>6, <1>7 DEF Progress

\* The claim.
LEMMA ClaimProgress ==
    ASSUME ProgressInv, NEW c \in Dispatchers, NEW s \in Steps, StepClaims(c, s)
    PROVE  Progress'
<1>0. TypeOK
  BY DEF ProgressInv, ExecutionInv
<1>1. /\ canvas[c].step[s] = "queued" /\ ~StepFenced(c, s) /\ UNCHANGED <<parent, disp>>
      /\ parent.status \notin {"FAILED", "CANCELLED"}
  BY DEF StepClaims
<1>2. /\ Live(c) /\ InCharge(c) /\ InGeneration(s) /\ parent.integ
      /\ canvas[c].stage = "steps" /\ WaveOf[s] = canvas[c].wave
      /\ ~Folded(s) /\ parent.status # "SUCCESS"
  BY <1>1, Unfenced
<1>3. \A t \in Steps \ {s} : SameRow(t)
  BY <1>0, StepWrites DEF SameRow, SameRun
<1>4. /\ child'[s].gen = child[s].gen /\ child'[s].status = "RUNNING"
      /\ child'[s].merge = child[s].merge /\ child'[s].commit = child[s].commit
  BY <1>0, StepWrites
<1>5. RowFits(s)'
  BY <1>1, <1>2, <1>4
  DEF ProgressInv, Progress, RowFits, Unprepared, OldIsFinished, FoldedIsSuccess,
      Folded, InGeneration
<1>6. KeptOrFailed
  BY <1>1 DEF KeptOrFailed
<1>7. ASSUME NEW t \in Steps PROVE RowFits(t)'
  BY <1>3, <1>5, <1>6, FrameRow DEF ProgressInv, Progress
<1>8. ASSUME NEW d \in Dispatchers \ {c}, NEW t \in Steps PROVE CanvasFits(d, t)'
  BY <1>0, <1>1, <1>2, ClaimFields, OthersFit
<1>9. ASSUME NEW t \in Steps PROVE CanvasFits(c, t)'
  <2>1. /\ canvas'[c].gen = canvas[c].gen /\ canvas'[c].ids = canvas[c].ids
        /\ canvas'[c].stage = "steps" /\ canvas[c].stage = "steps"
        /\ canvas'[c].wave = canvas[c].wave /\ canvas'[c].busy = canvas[c].busy
        /\ canvas'[c].step[s] = "working"
        /\ t # s => canvas'[c].step[t] = canvas[c].step[t]
        /\ CanvasFits(c, t) /\ WaveOf[t] \in Nat /\ canvas[c].wave \in Nat
    BY <1>0, ClaimFields, PlaceTypes DEF ProgressInv, Progress
  <2>2. Live(c)' = Live(c) /\ Current(c)' = Current(c) /\ IsTerminal' = IsTerminal
    BY <1>1, <2>1 DEF Live, Current, IsTerminal
  <2>3. Chord(c, t)' /\ PreparedFirst(c, t)'
    BY <1>1, <1>2, <2>1, <2>2 DEF CanvasFits, Chord, PreparedFirst
  <2>4. /\ Ahead(c, t)' => Ahead(c, t) /\ t # s
        /\ Behind(c, t)' => Behind(c, t) /\ t # s
        /\ Returned(c, t)' => Returned(c, t) /\ t # s
        /\ Working(c, t)' => t = s \/ Working(c, t)
    BY <1>2, <2>1 DEF Ahead, Behind, Returned, Working
  <2>5. disp'[c].pc # "build"
    BY <1>1, <1>2 DEF ProgressInv, ExecutionInv, CanvasLifecycle
  <2>6. t # s => /\ InGeneration(t)' = InGeneration(t) /\ Finished(t)' = Finished(t)
                 /\ child'[t].status = child[t].status
    BY <1>1, <1>3 DEF SameRow, SameRun, InGeneration, Finished
  <2> QED
    BY <1>4, <2>1, <2>2, <2>3, <2>4, <2>5, <2>6
    DEF CanvasFits, Follows, NotBegun, AtWorkIsRunning, ReturnedIsOver, BehindIsFinished
<1> QED
  BY <1>7, <1>8, <1>9 DEF Progress

-----------------------------------------------------------------------------
(* How far the steps are: merge_wave and the finalizer                     *)

\* The rows merge_wave leaves, folds in, or marks conflicting.
MergeLeaves(s) == child'[s].merge = child[s].merge
MergeFolds(s) ==
    child'[s].merge = IF child[s].commit = None THEN "skipped" ELSE "merged"

LEMMA MergeRow ==
    ASSUME TypeOK, NEW c \in Dispatchers, NEW s \in Steps,
           MergeSucceeds(c) \/ MergeConflicts(c) \/ MergeFails(c)
    PROVE  /\ SameRun(s) /\ child'[s].path = child[s].path /\ child'[s].base = child[s].base
           /\ s \notin Pending(c) => MergeLeaves(s)
           /\ \/ MergeLeaves(s)
              \/ MergeFolds(s)
              \/ child'[s].merge = "conflict" /\ MergeConflicts(c)
           /\ MergeSucceeds(c) /\ s \in Pending(c) => MergeFolds(s)
<1>1. SameRun(s)
  BY MergeSameRun
<1>2. ASSUME NEW S \in SUBSET Pending(c)
      PROVE  /\ Fold(S)[s].path = child[s].path /\ Fold(S)[s].base = child[s].base
             /\ s \notin S => Fold(S)[s] = child[s]
             /\ s \in S => Fold(S)[s].merge = IF child[s].commit = None THEN "skipped"
                                                                       ELSE "merged"
  <2>1. child[s] \in Child
    BY DEF TypeOK
  <2> QED
    BY <2>1 DEF Fold, Child
<1>3. CASE MergeSucceeds(c)
  <2>1. child' = Fold(Pending(c))
    BY <1>3 DEF MergeSucceeds
  <2> QED
    BY <1>1, <1>2, <1>3, <2>1 DEF MergeLeaves, MergeFolds
<1>4. CASE MergeConflicts(c)
  <2>1. PICK k \in Pending(c), S \in SUBSET Pending(c) :
          child' = [Fold(S) EXCEPT ![k].merge = "conflict"]
    BY <1>4 DEF MergeConflicts
  <2>2. Fold(S) \in [Steps -> Child] /\ Fold(S)[s] \in Child
    BY FoldType
  <2>3. CASE s = k
    <3>1. /\ child'[s].merge = "conflict" /\ child'[s].path = Fold(S)[s].path
          /\ child'[s].base = Fold(S)[s].base
      BY <2>1, <2>2, <2>3 DEF Child
    <3>2. MergeSucceeds(c) => MergeFolds(s)
      BY <1>2, <2>3 DEF MergeSucceeds, MergeFolds
    <3> QED
      BY <1>1, <1>2, <1>4, <2>3, <3>1, <3>2
  <2>4. CASE s # k
    <3>1. child'[s] = Fold(S)[s]
      BY <2>1, <2>2, <2>4
    <3>2. MergeSucceeds(c) /\ s \in Pending(c) => MergeFolds(s)
      BY <1>2 DEF MergeSucceeds, MergeFolds
    <3> QED
      BY <1>1, <1>2, <3>1, <3>2 DEF MergeLeaves, MergeFolds
  <2> QED
    BY <2>3, <2>4
<1>5. CASE MergeFails(c)
  <2>1. PICK S \in SUBSET Pending(c) : child' = Fold(S)
    <3>1. PICK k \in Pending(c), at \in {"untouched", "picked", "marked"} :
            LET S == {t \in Pending(c) : t < k}
                marked == IF at = "marked" THEN S \cup {k} ELSE S
            IN  child' = Fold(marked)
      BY <1>5 DEF MergeFails
    <3> QED
      BY <3>1
  <2>2. MergeSucceeds(c) /\ s \in Pending(c) => MergeFolds(s)
    BY <1>2 DEF MergeSucceeds, MergeFolds
  <2> QED
    BY <1>1, <1>2, <2>1, <2>2 DEF MergeLeaves, MergeFolds
<1> QED
  BY <1>3, <1>4, <1>5

\* What merge_wave finds when it is let through: the wave is prepared, and its
\* steps have succeeded unless one of them has failed.
LEMMA MergeFinds ==
    ASSUME ProgressInv, NEW c \in Dispatchers, Merging(c), NEW s \in Steps
    PROVE  /\ Live(c) /\ ~IsTerminal /\ parent.integ /\ disp[c].pc \notin {"idle", "build"}
           /\ s \in Pending(c) => InGeneration(s) /\ WaveOf[s] = canvas[c].wave
           /\ WaveOf[s] = canvas[c].wave /\ ~HasFailure(c) => child[s].status = "SUCCESS"
<1>1. canvas[c].stage = "merge" /\ Live(c) /\ ~IsTerminal
  BY DEF Merging, Barred, Live
<1>2. CanvasFits(c, s) /\ RowFits(s) /\ CanvasLifecycle
  BY DEF ProgressInv, ExecutionInv, Progress
<1>3. parent.integ /\ disp[c].pc \notin {"idle", "build"}
  BY <1>1, <1>2 DEF CanvasFits, PreparedFirst, CanvasLifecycle, IsTerminal, Terminal
<1>4. s \in Pending(c) => InGeneration(s) /\ WaveOf[s] = canvas[c].wave
  BY <1>1, <1>2, <1>3 DEF Pending, WaveSteps, RowFits, OldIsFinished, Finished, Folded
<1>5. ASSUME WaveOf[s] = canvas[c].wave, ~HasFailure(c) PROVE child[s].status = "SUCCESS"
  <2>1. Returned(c, s)
    BY <1>1, <1>2, <1>5 DEF CanvasFits, Chord, Returned
  <2>2. child[s].status \in {"SUCCESS", "FAILED"}
    BY <1>1, <1>2, <2>1 DEF CanvasFits, Follows, ReturnedIsOver
  <2> QED
    BY <1>5, <2>2 DEF HasFailure, WaveSteps
<1> QED
  BY <1>1, <1>3, <1>4, <1>5

LEMMA MergeProgress ==
    ASSUME ProgressInv, NEW c \in Dispatchers,
           MergeSucceeds(c) \/ MergeConflicts(c) \/ MergeFails(c)
    PROVE  Progress'
<1>0. TypeOK
  BY DEF ProgressInv, ExecutionInv
<1>1. /\ Merging(c) /\ ~HasFailure(c) /\ Advance(c) /\ UNCHANGED disp
      /\ canvas[c].stage = "merge"
  BY DEF MergeSucceeds, MergeConflicts, MergeFails, Merging
<1>2. KeptOrFailed /\ (~MergeSucceeds(c) => parent'.status = "FAILED")
  BY <1>0, FailsKept DEF MergeSucceeds, MergeConflicts, MergeFails, KeptOrFailed
<1>3. Live(c) /\ ~IsTerminal /\ parent.integ
  <2>1. PICK s \in Steps : TRUE
    BY PlanAssumption DEF Steps
  <2> QED
    BY <1>1, <2>1, MergeFinds
<1>4. ASSUME NEW s \in Steps
      PROVE  /\ RowFits(s)' /\ (Finished(s) => Finished(s)')
             /\ child'[s].status = child[s].status /\ child'[s].gen = child[s].gen
             /\ WaveOf[s] = canvas[c].wave => Finished(s)' \/ parent'.status \in Terminal
  <2>0. RowFits(s)
    BY DEF ProgressInv, Progress
  <2>1. SameRun(s)
    BY <1>0, MergeRow
  <2>2. CASE s \in Pending(c)
    <3>1. /\ InGeneration(s) /\ child[s].status = "SUCCESS" /\ ~Folded(s)
      BY <1>1, <2>2, MergeFinds DEF Pending
    <3>2. \/ child'[s].merge \in {child[s].merge, "conflict", "merged"}
          \/ child'[s].merge = "skipped" /\ child[s].commit = None
      BY <1>0, MergeRow DEF MergeLeaves, MergeFolds
    <3>3. parent'.status # "SUCCESS" /\ parent'.integ /\ InGeneration(s)'
      BY <1>2, <1>3, <2>1, <3>1
      DEF KeptOrFailed, IsTerminal, Terminal, SameRun, InGeneration
    <3>4. RowFits(s)'
      BY <2>0, <1>2, <1>3, <2>1, <3>1, <3>2, <3>3
      DEF RowFits, Unprepared, OldIsFinished, FoldedIsSuccess, Folded, SameRun, KeptOrFailed
    <3>5. MergeSucceeds(c) => Finished(s)'
      BY <1>0, <2>1, <2>2, <3>1, MergeRow DEF MergeFolds, Finished, SameRun
    <3> QED
      BY <1>2, <2>1, <3>1, <3>4, <3>5 DEF SameRun, Finished, Folded, Terminal
  <2>3. CASE s \notin Pending(c)
    <3>1. SameRow(s)
      BY <1>0, <2>1, <2>3, MergeRow DEF SameRow, MergeLeaves
    <3>2. WaveOf[s] = canvas[c].wave => Finished(s)
      BY <2>0, <2>3 DEF Pending, WaveSteps, RowFits, FoldedIsSuccess, Folded, Finished
    <3> QED
      BY <1>2, <2>0, <3>1, <3>2, FrameRow DEF SameRow, SameRun, Finished
  <2> QED
    BY <2>2, <2>3
<1>5. ASSUME NEW d \in Dispatchers \ {c}, NEW s \in Steps PROVE CanvasFits(d, s)'
  BY <1>0, <1>1, <1>2, <1>3, AdvanceFields, OthersFit DEF InCharge, KeptOrFailed
<1>6. ASSUME NEW s \in Steps PROVE CanvasFits(c, s)'
  BY <1>1, <1>2, <1>3, <1>4, ChainFits
<1> QED
  BY <1>4, <1>5, <1>6 DEF Progress

LEMMA FinishProgress ==
    ASSUME ProgressInv, NEW c \in Dispatchers, FinalizeCommits(c)
    PROVE  Progress'
<1>0. TypeOK /\ CanvasLifecycle
  BY DEF ProgressInv, ExecutionInv
<1>1. /\ canvas[c].stage = "finalize" /\ Live(c) /\ ~IsTerminal /\ InCharge(c)
      /\ UNCHANGED <<child, disp>>
      /\ parent' = [parent EXCEPT !.status = "SUCCESS", !.plan = "executed",
                                  !.change = TRUE]
  BY DEF FinalizeCommits, Barred, Live, InCharge
<1>2. /\ parent'.gen = parent.gen /\ parent'.integ = parent.integ
      /\ parent'.status = "SUCCESS"
  BY <1>0, <1>1 DEF TypeOK, Parent
<1>3. ASSUME NEW s \in Steps PROVE Finished(s) /\ parent.integ
  <2>1. CanvasFits(c, s)
    BY DEF ProgressInv, Progress
  <2>2. Finished(s)
    BY <1>1, <2>1 DEF CanvasFits, Follows, BehindIsFinished, Behind
  <2> QED
    BY <1>1, <2>1, <2>2 DEF CanvasFits, PreparedFirst, IsTerminal, Terminal
<1>4. ASSUME NEW s \in Steps PROVE RowFits(s)'
  BY <1>1, <1>2, <1>3
  DEF ProgressInv, Progress, RowFits, Unprepared, OldIsFinished, FoldedIsSuccess,
      Folded, Finished, IsTerminal, Terminal
<1>5. ASSUME NEW d \in Dispatchers \ {c}, NEW s \in Steps PROVE CanvasFits(d, s)'
  BY <1>0, <1>1, <1>2, FinishFields, OthersFit
<1>6. ASSUME NEW s \in Steps PROVE CanvasFits(c, s)'
  <2>1. canvas'[c].stage = "cleanup" /\ canvas'[c].step = canvas[c].step
    BY <1>0, FinishFields
  <2>2. CanvasFits(c, s) /\ disp'[c].pc # "build"
    BY <1>0, <1>1 DEF ProgressInv, Progress, CanvasLifecycle
  <2>3. Chord(c, s)' /\ ~Working(c, s)'
    BY <1>1, <2>1, <2>2 DEF CanvasFits, Chord, Working
  <2>4. ~Ahead(c, s)' /\ ~Behind(c, s)' /\ ~Returned(c, s)'
    BY <2>1 DEF Ahead, Behind, Returned
  <2> QED
    BY <1>2, <1>3, <2>1, <2>2, <2>3, <2>4
    DEF CanvasFits, PreparedFirst, Follows, NotBegun, AtWorkIsRunning, ReturnedIsOver,
        BehindIsFinished
<1> QED
  BY <1>4, <1>5, <1>6 DEF Progress

-----------------------------------------------------------------------------
(* How far the steps are: dispatch, retry and cancellation                 *)

\* Reads, confirmations, failures of a dispatch and cleanups of a cancellation leave
\* every canvas in its place.
LEMMA QuietSteps ==
    ASSUME ProgressInv,
           \/ \E c \in Dispatchers :
                 \/ PrepareReads(c) \/ WaveReads(c) \/ FinalizeReads(c)
                 \/ DispatchFindsQueued(c) \/ DispatchMismatches(c)
                 \/ DispatchPublishFails(c) \/ DispatchConfirms(c) \/ RetryPersists(c)
           \/ \E k \in Cancellers :
                 CancelCleans(k) \/ CancelCleanupFails(k) \/ CancelReports(k)
           \/ UNCHANGED vars
    PROVE  Progress'
<1>0. TypeOK
  BY DEF ProgressInv, ExecutionInv
<1>1. CASE UNCHANGED <<parent, child, canvas, disp>>
  BY <1>1, QuietProgress DEF KeptOrFailed, SamePlace, SameBuilder
<1>2. ASSUME NEW c \in Dispatchers, PrepareReads(c) \/ WaveReads(c) \/ FinalizeReads(c)
      PROVE  Progress'
  <2>1. OthersStay(c) /\ SamePlace(c) /\ UNCHANGED <<parent, child, disp>>
        /\ (canvas[c].stage = "prepare" => ~parent.integ)
    BY <1>0, <1>2, ReadsFields DEF PrepareReads, WaveReads, FinalizeReads
  <2>2. \A d \in Dispatchers :
          /\ SamePlace(d)
          /\ canvas'[d].stage = "prepare" /\ canvas'[d].busy =>
               canvas[d].busy \/ ~parent.integ
    BY <2>1 DEF OthersStay, SamePlace
  <2> QED
    BY <2>1, <2>2, QuietProgress DEF KeptOrFailed, SameBuilder
<1>3. ASSUME NEW d \in Dispatchers,
             \/ DispatchFindsQueued(d) \/ DispatchMismatches(d)
             \/ DispatchPublishFails(d) \/ DispatchConfirms(d) \/ RetryPersists(d)
      PROVE  Progress'
  <2>1. \E p \in {"persist", "done"} : disp' = [disp EXCEPT ![d].pc = p]
    BY <1>3 DEF DispatchFindsQueued, DispatchMismatches, DispatchPublishFails,
       DispatchConfirms, RetryPersists
  <2>2. \A c \in Dispatchers : SameBuilder(c)
    BY <1>0, <2>1 DEF SameBuilder, TypeOK, Dispatcher
  <2>3. KeptOrFailed
    <3>1. CASE UNCHANGED parent
      BY <3>1 DEF KeptOrFailed
    <3>2. CASE \E plan : FailParent(plan)
      BY <1>0, <3>2, FailsKept
    <3>3. CASE parent' = [parent EXCEPT !.plan = "dispatch_queued"]
      BY <1>0, <3>3 DEF TypeOK, Parent, KeptOrFailed
    <3> QED
      BY <1>3, <3>1, <3>2, <3>3
      DEF DispatchFindsQueued, DispatchMismatches, DispatchPublishFails,
          DispatchConfirms, RetryPersists
  <2>4. UNCHANGED <<child, canvas>>
    BY <1>3 DEF DispatchFindsQueued, DispatchMismatches, DispatchPublishFails,
       DispatchConfirms, RetryPersists
  <2> QED
    BY <2>2, <2>3, <2>4, QuietProgress DEF SamePlace
<1>4. ASSUME NEW k \in Cancellers, CancelReports(k) PROVE Progress'
  <2>1. UNCHANGED <<child, canvas, disp>> /\ KeptOrFailed
    BY <1>0, <1>4 DEF CancelReports, TypeOK, Parent, KeptOrFailed
  <2> QED
    BY <2>1, QuietProgress DEF SamePlace, SameBuilder
<1> QED
  BY <1>1, <1>2, <1>3, <1>4 DEF CancelCleans, CancelCleanupFails, vars

\* A canvas that stays and is not in charge.
LEMMA IdleStays ==
    ASSUME ProgressInv, NEW c \in Dispatchers, NEW s \in Steps,
           canvas'[c] = canvas[c], parent.integ => parent'.integ, ~InCharge(c)'
    PROVE  CanvasFits(c, s)'
<1>1. Chord(c, s) /\ PreparedFirst(c, s) /\ CanvasLifecycle
  BY DEF ProgressInv, ExecutionInv, Progress, CanvasFits
<1>2. Chord(c, s)'
  BY <1>1 DEF Chord
<1>3. Working(c, s)' => parent'.integ /\ canvas'[c].stage # "free"
  BY <1>1 DEF PreparedFirst, Working, CanvasLifecycle
<1> QED
  BY <1>2, <1>3, IdleCanvas

LEMMA PublishProgress ==
    ASSUME ProgressInv, NEW d \in Dispatchers, DispatchPublishes(d)
    PROVE  Progress'
<1>0. TypeOK /\ CanvasLifecycle
  BY DEF ProgressInv, ExecutionInv
<1>1. UNCHANGED <<parent, child>> /\ disp' = [disp EXCEPT ![d].pc = "confirm"]
  BY DEF DispatchPublishes
<1>2. /\ \A s \in Steps : SameRow(s)
      /\ \A c \in Dispatchers : SameBuilder(c)
      /\ KeptOrFailed /\ disp'[d].pc # "build"
  BY <1>0, <1>1 DEF SameRow, SameRun, SameBuilder, KeptOrFailed, TypeOK, Dispatcher
<1>3. ASSUME NEW s \in Steps PROVE RowFits(s)'
  BY <1>2, FrameRow DEF ProgressInv, Progress
<1>4. ASSUME NEW c \in Dispatchers, NEW s \in Steps, canvas'[c] = canvas[c]
      PROVE  CanvasFits(c, s)'
  BY <1>2, <1>4, FrameCanvas DEF ProgressInv, Progress, SamePlace
<1>5. ASSUME NEW s \in Steps, canvas[d].stage = "built" PROVE CanvasFits(d, s)'
  <2>1. /\ canvas'[d].gen = canvas[d].gen /\ canvas'[d].stage = "prepare"
        /\ canvas'[d].wave = canvas[d].wave /\ canvas'[d].step = canvas[d].step
        /\ ~canvas'[d].busy
    BY <1>0, <1>5, PublishPlace DEF CanvasLifecycle
  <2>2. CanvasFits(d, s)
    BY DEF ProgressInv, Progress
  <2>3. Chord(d, s)' /\ ~Working(d, s)'
    BY <1>5, <2>1, <2>2 DEF CanvasFits, Chord, Working
  <2>4. /\ Live(d)' => Live(d)
        /\ Ahead(d, s)' => Ahead(d, s)
        /\ Behind(d, s)' => Behind(d, s)
        /\ ~Returned(d, s)'
    BY <1>1, <1>5, <2>1 DEF Live, Current, Ahead, Behind, Returned
  <2> QED
    BY <1>1, <1>2, <2>1, <2>2, <2>3, <2>4
    DEF CanvasFits, PreparedFirst, Follows, NotBegun, AtWorkIsRunning, ReturnedIsOver,
        BehindIsFinished, InGeneration, Finished, IsTerminal
<1>6. ASSUME canvas[d].stage # "built" PROVE canvas'[d] = canvas[d]
  BY <1>6 DEF DispatchPublishes, Publish
<1>7. \A c \in Dispatchers \ {d} : canvas'[c] = canvas[c]
  BY <1>0, PublishPlace DEF OthersStay
<1> QED
  BY <1>3, <1>4, <1>5, <1>6, <1>7 DEF Progress

LEMMA BuildsProgress ==
    ASSUME ProgressInv, NEW d \in Dispatchers, DispatchBuilds(d)
    PROVE  Progress'
<1>0. TypeOK /\ CanvasLifecycle
  BY DEF ProgressInv, ExecutionInv
<1>1. /\ disp[d].pc = "build" /\ InCharge(d)
      /\ parent'.gen = (IF parent.gen = 0 THEN 1 ELSE parent.gen)
      /\ parent'.status = parent.status /\ parent'.integ = parent.integ
      /\ disp'[d].pc = "publish" /\ \A c \in Dispatchers \ {d} : disp'[c] = disp[c]
      /\ UNCHANGED child
  BY <1>0, BuildsParent DEF InCharge
<1>2. /\ OthersStay(d) /\ canvas'[d].gen = parent'.gen /\ canvas'[d].stage = "built"
      /\ canvas'[d].wave = disp[d].start /\ canvas'[d].busy = canvas[d].busy
      /\ canvas'[d].step = canvas[d].step /\ canvas[d].stage = "free"
  BY <1>0, <1>1, BuildsPlace DEF CanvasLifecycle
<1>3. parent.gen \in Nat /\ (parent.gen = 0 => parent'.gen = 1)
      /\ (parent.gen # 0 => parent'.gen = parent.gen)
  BY <1>0, <1>1 DEF TypeOK, Parent
<1>4. ASSUME NEW s \in Steps PROVE RowFits(s)'
  <2>1. RowFits(s)
    BY DEF ProgressInv, Progress
  <2>2. parent.gen = 0 => ~parent'.integ
    BY <1>1, <2>1 DEF RowFits, Unprepared
  <2> QED
    BY <1>1, <1>3, <2>1, <2>2
    DEF RowFits, Unprepared, OldIsFinished, FoldedIsSuccess, Folded, Finished,
        InGeneration, IsTerminal
<1>5. ASSUME NEW c \in Dispatchers \ {d}, NEW s \in Steps PROVE CanvasFits(c, s)'
  <2>1. canvas'[c] = canvas[c] /\ ~InCharge(c) /\ canvas[c].gen \in Nat
        /\ canvas[c].gen <= parent.gen
    BY <1>0, <1>1, <1>2
    DEF OthersStay, ProgressInv, WhoIsInCharge, Alone, TypeOK, Canvas, CanvasLifecycle
  <2>2. ~InCharge(c)'
    BY <1>1, <1>3, <2>1 DEF InCharge, Live, Current
  <2> QED
    BY <1>1, <2>1, <2>2, IdleStays
<1>6. ASSUME NEW s \in Steps PROVE CanvasFits(d, s)'
  <2>1. CanvasFits(d, s) /\ RowFits(s) /\ child[s].gen \in Nat /\ child[s].gen <= parent.gen
    BY <1>0, PlaceTypes DEF ProgressInv, Progress, WhoIsInCharge, RevokedAreStale, TargetsAreStale
  <2>2. Chord(d, s)' /\ ~Working(d, s)' /\ ~canvas'[d].busy
    BY <1>0, <1>2, <2>1 DEF CanvasFits, Chord, Working, CanvasLifecycle
  <2>3. InGeneration(s)' => child'[s].status = "PENDING"
    <3>1. CASE parent.gen = 0
      BY <1>1, <1>3, <2>1, <3>1 DEF InGeneration
    <3>2. CASE parent.gen # 0
      BY <1>1, <1>3, <2>1, <3>2 DEF CanvasFits, Follows, NotBegun, InGeneration
    <3> QED
      BY <3>1, <3>2
  <2>4. Behind(d, s)' => Finished(s)'
    BY <1>1, <1>2, <2>1 DEF Behind, CanvasFits, Follows, BehindIsFinished, Finished
  <2>5. ~Returned(d, s)'
    BY <1>2 DEF Returned
  <2> QED
    BY <1>1, <1>2, <2>2, <2>3, <2>4, <2>5
    DEF CanvasFits, PreparedFirst, Follows, NotBegun, AtWorkIsRunning, ReturnedIsOver,
        BehindIsFinished
<1> QED
  BY <1>4, <1>5, <1>6 DEF Progress


\* A retry starts where the plan is unfinished, and takes the unfinished rows into
\* its generation.
LEMMA RetryProgress ==
    ASSUME ProgressInv, NEW d \in Dispatchers, RetryCommits(d), TimelyRetry
    PROVE  Progress'
<1>0. TypeOK /\ CanvasLifecycle
  BY DEF ProgressInv, ExecutionInv
<1>1. /\ parent.gen \in Nat /\ parent.gen > 0 /\ parent'.gen = parent.gen + 1
      /\ parent.status \in {"FAILED", "CANCELLED"} /\ parent'.status = "RUNNING"
      /\ parent'.integ = parent.integ
      /\ disp[d].pc = "idle" /\ disp'[d].pc = "build"
      /\ \A c \in Dispatchers \ {d} : disp'[c] = disp[c] /\ disp[c].pc # "build"
      /\ UNCHANGED canvas
  BY <1>0, RetryFields DEF TimelyRetry
<1>2. ASSUME NEW c \in Dispatchers PROVE ~Live(c)' /\ ~Current(c)'
  <2>1. canvas[c].gen \in Nat /\ canvas[c].gen <= parent.gen
    BY <1>0 DEF TypeOK, Canvas, CanvasLifecycle
  <2> QED
    BY <1>1, <2>1 DEF Live, Current
<1>3. ASSUME NEW s \in Steps
      PROVE  \/ Finished(s) /\ child'[s] = child[s]
             \/ /\ ~Finished(s)
                /\ child'[s].status = "PENDING" /\ child'[s].gen = parent'.gen
                /\ child'[s].commit = None /\ child'[s].merge = "pending"
  BY <1>0, RetryRow DEF Complete, Folded, Finished
<1>4. ASSUME NEW s \in Steps PROVE RowFits(s)'
  <2>1. RowFits(s)
    BY DEF ProgressInv, Progress
  <2>2. CASE Finished(s) /\ child'[s] = child[s]
    BY <1>1, <2>1, <2>2
    DEF RowFits, Unprepared, OldIsFinished, FoldedIsSuccess, Folded, Finished
  <2>3. CASE child'[s].status = "PENDING" /\ child'[s].gen = parent'.gen
             /\ child'[s].merge = "pending"
    BY <1>1, <2>3
    DEF RowFits, Unprepared, OldIsFinished, FoldedIsSuccess, Folded, InGeneration
  <2> QED
    BY <1>3, <2>2, <2>3
<1>5. ASSUME NEW c \in Dispatchers \ {d}, NEW s \in Steps PROVE CanvasFits(c, s)'
  BY <1>1, <1>2, IdleStays DEF InCharge
<1>6. ASSUME NEW s \in Steps PROVE CanvasFits(d, s)'
  <2>1. CanvasFits(d, s) /\ canvas[d].stage = "free"
    BY <1>0, <1>1 DEF ProgressInv, Progress, CanvasLifecycle
  <2>2. Chord(d, s)' /\ ~Working(d, s)'
    BY <1>1, <2>1 DEF CanvasFits, Chord, Working
  <2>3. InGeneration(s)' => child'[s].status = "PENDING"
    <3>1. child[s].gen <= parent.gen /\ child[s].gen \in Nat
      BY <1>0 DEF ProgressInv, WhoIsInCharge, RevokedAreStale, TargetsAreStale, TypeOK, Child
    <3> QED
      BY <1>1, <1>3, <3>1 DEF InGeneration
  <2>4. ASSUME WaveOf[s] < disp'[d].start PROVE Finished(s)'
    <3>1. PICK w \in Waves : FirstWave(w) /\ disp'[d].start = w
      BY <1>0, RetryFields
    <3>2. w \in Nat /\ WaveOf[s] \in Nat /\ WaveOf[s] < w
      BY <1>0, <2>4, <3>1, PlaceTypes, PlanAssumption DEF Waves
    <3>3. Complete(s)
      <4>1. SUFFICES ASSUME ~Complete(s) PROVE FALSE
        OBVIOUS
      <4>2. WaveOf[s] \in OpenWaves
        BY <4>1 DEF OpenWaves
      <4> QED
        BY <3>1, <3>2, <4>2 DEF FirstWave
    <3> QED
      BY <1>3, <3>3 DEF Complete, Folded, Finished
  <2> QED
    BY <1>2, <2>2, <2>3, <2>4
    DEF CanvasFits, PreparedFirst, Follows, NotBegun, AtWorkIsRunning, ReturnedIsOver,
        BehindIsFinished
<1> QED
  BY <1>4, <1>5, <1>6 DEF Progress

\* A cancellation closes the rows that are open, and the generation with them.
LEMMA CancelRow ==
    ASSUME TypeOK, NEW k \in Cancellers, CancelCommits(k), NEW s \in Steps
    PROVE  /\ child'[s].gen = child[s].gen /\ child'[s].commit = child[s].commit
           /\ child'[s].merge = child[s].merge /\ child'[s].path = child[s].path
           /\ child'[s].base = child[s].base
           /\ child'[s].status = IF child[s].status \in Terminal THEN child[s].status
                                                                 ELSE "CANCELLED"
<1>1. child[s] \in Child
  BY DEF TypeOK
<1> QED
  BY <1>1 DEF CancelCommits, Child

LEMMA CancelProgress ==
    ASSUME ProgressInv, NEW k \in Cancellers, CancelCommits(k)
    PROVE  Progress'
<1>0. TypeOK /\ CanvasLifecycle
  BY DEF ProgressInv, ExecutionInv
<1>1. /\ parent.gen \in Nat /\ parent'.gen = parent.gen + 1
      /\ ~IsTerminal /\ parent'.status = "CANCELLED" /\ parent'.integ = parent.integ
      /\ UNCHANGED <<canvas, disp>>
  BY <1>0 DEF CancelCommits, TypeOK, Parent
<1>2. ASSUME NEW c \in Dispatchers PROVE ~Live(c)' /\ ~Current(c)'
  <2>1. canvas[c].gen \in Nat /\ canvas[c].gen <= parent.gen
    BY <1>0 DEF TypeOK, Canvas, CanvasLifecycle
  <2> QED
    BY <1>1, <2>1 DEF Live, Current
<1>3. ASSUME NEW s \in Steps
      PROVE  /\ child'[s].status \in {child[s].status, "CANCELLED"}
             /\ child[s].status = "SUCCESS" => child'[s].status = "SUCCESS"
             /\ child'[s].merge = child[s].merge /\ child'[s].commit = child[s].commit
             /\ ~InGeneration(s)' /\ (Finished(s) => Finished(s)')
  <2>1. child[s].gen \in Nat /\ child[s].gen <= parent.gen
    BY <1>0 DEF ProgressInv, WhoIsInCharge, RevokedAreStale, TargetsAreStale, TypeOK, Child
  <2> QED
    BY <1>0, <1>1, <2>1, CancelRow DEF Terminal, InGeneration, Finished
<1>4. ASSUME NEW s \in Steps PROVE RowFits(s)'
  BY <1>1, <1>3
  DEF ProgressInv, Progress, RowFits, Unprepared, OldIsFinished, FoldedIsSuccess,
      Folded, IsTerminal, Terminal
<1>5. ASSUME NEW c \in Dispatchers, NEW s \in Steps PROVE CanvasFits(c, s)'
  <2>1. CanvasFits(c, s)
    BY DEF ProgressInv, Progress
  <2>2. Chord(c, s)' /\ (Working(c, s)' => Working(c, s))
    BY <1>1, <2>1 DEF CanvasFits, Chord, Working
  <2> QED
    BY <1>1, <1>2, <1>3, <2>1, <2>2
    DEF CanvasFits, PreparedFirst, Follows, NotBegun, AtWorkIsRunning, ReturnedIsOver,
        BehindIsFinished
<1> QED
  BY <1>4, <1>5 DEF Progress

\* What a revocation stops was not in charge.
LEMMA RevokeProgress ==
    ASSUME ProgressInv, NEW k \in Cancellers, CancelRevokes(k)
    PROVE  Progress'
<1>0. TypeOK /\ CanvasLifecycle
  BY DEF ProgressInv, ExecutionInv
<1>1. UNCHANGED <<parent, child, disp>>
  BY DEF CancelRevokes
<1>2. /\ \A s \in Steps : SameRow(s)
      /\ \A c \in Dispatchers : SameBuilder(c)
      /\ KeptOrFailed
  BY <1>1 DEF SameRow, SameRun, SameBuilder, KeptOrFailed
<1>3. ASSUME NEW s \in Steps PROVE RowFits(s)'
  BY <1>2, FrameRow DEF ProgressInv, Progress
<1>4. ASSUME NEW c \in Dispatchers, NEW s \in Steps PROVE CanvasFits(c, s)'
  <2>1. CASE canvas'[c] = canvas[c]
    BY <1>2, <2>1, FrameCanvas DEF ProgressInv, Progress, SamePlace
  <2>2. CASE canvas'[c] # canvas[c]
    <3>1. /\ c \in canceller[k].targets /\ canvas[c].stage \notin {"free", "done"}
          /\ canvas'[c].gen = canvas[c].gen /\ canvas'[c].stage = "revoked"
          /\ canvas'[c].step[s] \in {canvas[c].step[s], "done"}
      BY <1>0, <2>2, RevokePlace
    <3>2. canvas[c].gen \in Nat /\ parent.gen \in Nat /\ canvas[c].gen < parent.gen
      BY <1>0, <3>1 DEF ProgressInv, WhoIsInCharge, RevokedAreStale, TargetsAreStale, TypeOK, Canvas, Parent
    <3>3. ~InCharge(c)'
      BY <1>0, <1>1, <3>1, <3>2 DEF InCharge, Live, Current, CanvasLifecycle
    <3>4. Chord(c, s)'
      BY <3>1 DEF Chord
    <3>5. Working(c, s)' => Working(c, s)
      BY <3>1 DEF Working
    <3>6. Working(c, s) => parent.integ
      BY DEF ProgressInv, Progress, CanvasFits, PreparedFirst
    <3> QED
      BY <1>1, <3>1, <3>3, <3>4, <3>5, <3>6, IdleCanvas
  <2> QED
    BY <2>1, <2>2
<1> QED
  BY <1>3, <1>4 DEF Progress

-----------------------------------------------------------------------------
(* The inductive invariant                                                 *)

LEMMA ProgressInit == Init => ProgressInv
<1> SUFFICES ASSUME Init PROVE ProgressInv
  OBVIOUS
<1>1. ExecutionInv
  BY InvInit
<1>2. /\ parent.gen = 0 /\ parent.status = "RUNNING" /\ ~parent.integ
      /\ \A c \in Dispatchers :
           /\ canvas[c].gen = 0 /\ canvas[c].stage = "free" /\ canvas[c].ids = None
           /\ \A s \in Steps : canvas[c].step[s] = "idle"
           /\ disp[c].pc = (IF c = Resume THEN "build" ELSE "idle") /\ disp[c].start = 0
      /\ \A s \in Steps :
           /\ child[s].status = "PENDING" /\ child[s].merge = "none" /\ child[s].gen = 0
      /\ \A k \in Cancellers : canceller[k].targets = {}
  BY DEF Init, NoCanvas, NewChild
<1>3. WhoIsInCharge
  BY <1>2 DEF WhoIsInCharge, Alone, InCharge, Live, RevokedAreStale, TargetsAreStale
<1>4. ASSUME NEW s \in Steps PROVE RowFits(s)
  BY <1>2 DEF RowFits, Unprepared, OldIsFinished, FoldedIsSuccess, Folded
<1>5. ASSUME NEW c \in Dispatchers, NEW s \in Steps PROVE CanvasFits(c, s)
  <2>1. WaveOf[s] \in Nat
    BY PlanAssumption DEF Waves
  <2> QED
    BY <1>2, <2>1
    DEF CanvasFits, Chord, PreparedFirst, Follows, NotBegun, AtWorkIsRunning,
        ReturnedIsOver, BehindIsFinished, Live, Working
<1> QED
  BY <1>1, <1>3, <1>4, <1>5 DEF ProgressInv, Progress

LEMMA ProgressNext == ProgressInv /\ [Next]_vars /\ TimelyRetry => ProgressInv'
<1> SUFFICES ASSUME ProgressInv, [Next]_vars, TimelyRetry PROVE ProgressInv'
  OBVIOUS
<1>1. ExecutionInv /\ ExecutionInv'
  BY InvNext DEF ProgressInv
<1>2. WhoIsInCharge'
  BY <1>1, AloneNext, RevokedNext DEF ExecutionInv, ProgressInv, WhoIsInCharge
<1>3. ASSUME NEW c \in Dispatchers, Callback(c) PROVE Progress'
  BY <1>3, GoesOnProgress, QuietSteps, PrepareProgress, SkipProgress, WriteProgress,
     ClaimProgress, MergeProgress, FinishProgress DEF Callback, GoesOn, Step
<1>4. ASSUME NEW d \in Dispatchers, Dispatch(d) PROVE Progress'
  BY <1>4, QuietSteps, BuildsProgress, PublishProgress DEF Dispatch
<1>5. ASSUME NEW k \in Cancellers, CancelCommits(k) \/ Cancel(k) PROVE Progress'
  BY <1>5, QuietSteps, CancelProgress, RevokeProgress DEF Cancel
<1>6. Progress'
  BY <1>3, <1>4, <1>5, RetryProgress, QuietSteps DEF Next
<1> QED
  BY <1>1, <1>2, <1>6 DEF ProgressInv


-----------------------------------------------------------------------------
(* What follows from it                                                    *)

TimelySpec == Spec /\ [][TimelyRetry]_vars

\* The strengthened invariant holds as long as retries come one by one.
THEOREM ProgressCorrect == TimelySpec => []ProgressInv
<1>1. ProgressInv /\ [Next]_vars /\ [TimelyRetry]_vars => ProgressInv'
  <2> SUFFICES ASSUME ProgressInv, [Next]_vars, [TimelyRetry]_vars PROVE ProgressInv'
    OBVIOUS
  <2>1. CASE UNCHANGED vars
    <3>1. \A d \in Dispatchers : ~RetryCommits(d)
      BY <2>1 DEF RetryCommits, ProgressInv, ExecutionInv, TypeOK, Parent, vars
    <3> QED
      BY <3>1, ProgressNext DEF TimelyRetry
  <2> QED
    BY <2>1, ProgressNext
<1> QED
  BY <1>1, ProgressInit, PTL DEF Spec, TimelySpec

\* A parent reported SUCCESS has no step that failed, was cancelled or is open,
\* although finalize_execution looks at none of them: the chain and the barriers it
\* trusts never let it run before every wave is folded in.
THEOREM SuccessIsCompleteAlways == TimelySpec => []SuccessIsComplete
<1>1. ProgressInv => SuccessIsComplete
  BY DEF ProgressInv, ExecutionInv, MergedIsApplied, Progress, RowFits, SuccessIsComplete
<1> QED
  BY <1>1, ProgressCorrect, PTL

LEMMA FinishedStays ==
    ASSUME ProgressInv, [Next]_vars, NEW s \in Steps, Finished(s)
    PROVE  /\ child'[s].status = child[s].status
           /\ child'[s].commit = child[s].commit
           /\ child'[s].merge = child[s].merge
<1>0. TypeOK
  BY DEF ProgressInv, ExecutionInv
<1>1. CASE child'[s] = child[s]
  BY <1>1
<1>2. ASSUME NEW c \in Dispatchers, Callback(c) PROVE SameRow(s)
  <2>1. CASE WaveCommits(c)
    BY <1>0, <2>1, WaveSameRun DEF SameRow
  <2>2. CASE MergeSucceeds(c) \/ MergeConflicts(c) \/ MergeFails(c)
    <3>1. s \notin Pending(c)
      BY DEF Pending, Folded, Finished
    <3> QED
      BY <1>0, <2>2, <3>1, MergeRow DEF SameRow, MergeLeaves
  <2>3. ~PrepareCommits(c)
    <3>1. RowFits(s) /\ CanvasFits(c, s)
      BY DEF ProgressInv, Progress
    <3>2. parent.integ
      BY <3>1 DEF RowFits, Unprepared, Finished
    <3> QED
      BY <3>1, <3>2 DEF CanvasFits, PreparedFirst, PrepareCommits, Barred, Live
  <2>4. ASSUME NEW t \in Steps,
               \/ StepRefused(c, t) \/ StepClaims(c, t)
               \/ StepSucceeds(c, t) \/ StepFails(c, t)
        PROVE  child'[s] = child[s]
    <3>1. ~StepFenced(c, t) /\ canvas[c].step[t] \in {"queued", "working"}
      BY <2>4 DEF StepRefused, StepClaims, StepSucceeds, StepFails
    <3>2. t # s
      BY <3>1, Unfenced
    <3> QED
      BY <1>0, <2>4, <3>2, StepWrites
  <2>5. UNCHANGED child => SameRow(s)
    BY DEF SameRow, SameRun
  <2> QED
    BY <1>2, <2>1, <2>2, <2>3, <2>4, <2>5
    DEF SameRow, SameRun, Callback, CallbackSkipped, PrepareReuses, PrepareReads,
        PrepareFails, WaveReads, WaveFails, Step, StepSkips, StepDiscarded,
        MergeRepeated, MergeFindsFailure, FinalizeReturns, FinalizeReads,
        FinalizeCommits, FinalizeFails, FinalizeCleans, FinalizeCleanupFails
<1>3. ASSUME NEW d \in Dispatchers, RetryCommits(d) PROVE child'[s] = child[s]
  BY <1>0, <1>3, RetryRow DEF Finished, Complete, Folded
<1>4. ASSUME NEW k \in Cancellers, CancelCommits(k) PROVE child'[s] = child[s]
  BY <1>0, <1>4, CancelWrites DEF Finished
<1>5. ASSUME NEW k \in Cancellers, Cancel(k) PROVE UNCHANGED child
  BY <1>5 DEF Cancel, CancelRevokes, CancelCleans, CancelCleanupFails, CancelReports
<1> QED
  BY <1>1, <1>2, <1>3, <1>4, <1>5, DispatchSameRun DEF Next, vars, SameRow, SameRun

\* A step that is finished keeps its result for good, whatever is cancelled, retried
\* or delivered late.
THEOREM WorkIsKeptAlways == TimelySpec => WorkIsKept
<1>1. ASSUME ProgressInv, [Next]_vars
      PROVE  \A s \in Steps : Finished(s) =>
                /\ child'[s].status = child[s].status
                /\ child'[s].commit = child[s].commit
                /\ child'[s].merge = child[s].merge
  BY <1>1, FinishedStays
<1> QED
  BY <1>1, ProgressCorrect, PTL DEF Spec, TimelySpec, WorkIsKept

-----------------------------------------------------------------------------
(* When retries come one by one                                            *)

\* One call of retry_failed_orchestrator for the execution (and any number of
\* cancellations, faults and repeated deliveries).
OneRetry == \A d, e \in Dispatchers \ {Resume} : d = e

\* The first generation is opened by the dispatch of the resume task.
FirstDispatch ==
    /\ disp[Resume].pc = "build" => parent.gen = 0
    /\ \A d \in Dispatchers \ {Resume} : disp[d].pc # "idle" => parent.gen > 0

LEMMA FirstNext ==
    ASSUME TypeOK, TypeOK', FirstDispatch, [Next]_vars
    PROVE  FirstDispatch'
<1>1. parent.gen \in Nat /\ parent'.gen \in Nat /\ Resume \in Dispatchers
      /\ parent.gen <= parent'.gen /\ ParentMoves
  BY ActorAssumption, NextParent, GenerationGrows DEF TypeOK, Parent
<1>2. ASSUME NEW d \in Dispatchers \ {Resume}, disp'[d].pc # "idle"
      PROVE  parent'.gen > 0
  <2>1. CASE \E e \in Dispatchers : RetryCommits(e)
    BY <1>1, <2>1, RetryFields
  <2>2. CASE \A e \in Dispatchers : ~RetryCommits(e)
    <3>1. disp[d].pc # "idle"
      <4>1. ASSUME NEW e \in Dispatchers, Dispatch(e) PROVE disp[d].pc # "idle"
        BY <1>2, <4>1 DEF TypeOK, Dispatch, DispatchFindsQueued, DispatchBuilds,
           DispatchMismatches, DispatchPublishes, DispatchPublishFails,
           DispatchConfirms, RetryPersists
      <4>2. ASSUME NEW e \in Dispatchers, Callback(e) PROVE UNCHANGED disp
        BY <4>2 DEF Callback, CallbackSkipped, PrepareReuses, PrepareReads,
           PrepareCommits, PrepareFails, WaveReads, WaveCommits, WaveFails, Step,
           StepSkips, StepRefused, StepClaims, StepDiscarded, StepSucceeds, StepFails,
           MergeRepeated, MergeFindsFailure, MergeSucceeds, MergeConflicts, MergeFails,
           FinalizeReturns, FinalizeReads, FinalizeCommits, FinalizeFails,
           FinalizeCleans, FinalizeCleanupFails
      <4>3. ASSUME NEW k \in Cancellers, CancelCommits(k) \/ Cancel(k)
            PROVE  UNCHANGED disp
        BY <4>3 DEF CancelCommits, Cancel, CancelRevokes, CancelCleans,
           CancelCleanupFails, CancelReports
      <4> QED
        BY <1>2, <2>2, <4>1, <4>2, <4>3 DEF Next, vars
    <3> QED
      BY <1>1, <3>1 DEF FirstDispatch
  <2> QED
    BY <2>1, <2>2
<1>3. ASSUME disp'[Resume].pc = "build" PROVE parent'.gen = 0
  <2>1. disp[Resume].pc = "build" /\ parent.gen = 0
    BY <1>1, <1>3, BuilderPersists DEF RetryCommits, FirstDispatch
  <2>2. ASSUME NEW d \in Dispatchers PROVE ~DispatchBuilds(d)
    <3>1. CASE d = Resume
      BY <1>1, <1>3, <3>1, BuildsParent DEF TypeOK
    <3>2. CASE d # Resume
      BY <1>1, <2>1, <3>2 DEF FirstDispatch, DispatchBuilds
    <3> QED
      BY <3>1, <3>2
  <2>3. ~OpenedParent
    BY <2>2 DEF OpenedParent
  <2> QED
    BY <1>1, <2>1, <2>3
    DEF ParentMoves, SameParent, FailedParent, PreparedParent, FinishedParent,
        CancelledParent, RetriedParent
<1> QED
  BY <1>2, <1>3 DEF FirstDispatch

\* With one retry, no retry can come between another one's commit and its dispatch:
\* the theorems above hold of the specification itself.
THEOREM OneRetryIsTimely ==
    ASSUME OneRetry
    PROVE  Spec => TimelySpec
<1>1. Init => FirstDispatch
  BY DEF Init, FirstDispatch
<1>2. TypeOK /\ TypeOK' /\ FirstDispatch /\ [Next]_vars => FirstDispatch'
  BY FirstNext
<1>3. FirstDispatch => TimelyRetry
  <2> SUFFICES ASSUME FirstDispatch, NEW d \in Dispatchers, NEW e \in Dispatchers,
                      RetryCommits(d), disp[e].pc = "build"
               PROVE  FALSE
    BY DEF TimelyRetry
  <2>1. d # Resume /\ disp[d].pc = "idle" /\ parent.gen > 0
    BY DEF RetryCommits
  <2>2. CASE e = Resume
    BY <2>1, <2>2 DEF FirstDispatch
  <2>3. CASE e # Resume
    BY <2>1, <2>3 DEF OneRetry
  <2> QED
    BY <2>2, <2>3
<1>4. FirstDispatch => [TimelyRetry]_vars
  BY <1>3
<1> QED
  BY <1>1, <1>2, <1>4, TypeCorrect, PTL DEF Spec, TimelySpec


-----------------------------------------------------------------------------
(* Git: who writes the rows and the branch                                 *)

\* The actions that write the row of step s.
Merges(c) == MergeSucceeds(c) \/ MergeConflicts(c) \/ MergeFails(c)
WritesRow(c, s) ==
    \/ PrepareCommits(c) \/ WaveCommits(c) \/ Merges(c) \/ RetryCommits(c)
    \/ StepRefused(c, s) \/ StepClaims(c, s) \/ StepSucceeds(c, s) \/ StepFails(c, s)

LEMMA RowWriters ==
    ASSUME TypeOK, [Next]_vars, NEW s \in Steps
    PROVE  \/ child'[s] = child[s]
           \/ \E c \in Dispatchers : WritesRow(c, s)
           \/ \E k \in Cancellers : CancelCommits(k)
<1>1. ASSUME NEW c \in Dispatchers, Callback(c) PROVE child'[s] = child[s] \/ WritesRow(c, s)
  <2>1. ASSUME NEW t \in Steps, Step(c, t) PROVE child'[s] = child[s] \/ WritesRow(c, s)
    BY <2>1, StepWrites DEF WritesRow, Step, StepSkips, StepDiscarded
  <2> QED
    BY <1>1, <2>1
    DEF WritesRow, Merges, Callback, CallbackSkipped, PrepareReuses, PrepareReads,
        PrepareFails, WaveReads, WaveFails, MergeRepeated, MergeFindsFailure,
        FinalizeReturns, FinalizeReads, FinalizeCommits, FinalizeFails,
        FinalizeCleans, FinalizeCleanupFails
<1>2. ASSUME NEW k \in Cancellers, Cancel(k) PROVE UNCHANGED child
  BY <1>2 DEF Cancel, CancelRevokes, CancelCleans, CancelCleanupFails, CancelReports
<1> QED
  BY <1>1, <1>2, DispatchSameRun DEF Next, vars, WritesRow

LEMMA BranchWriters ==
    ASSUME [Next]_vars
    PROVE  applied' = applied \/ \E c \in Dispatchers : Merges(c)
<1>1. ASSUME NEW c \in Dispatchers, Callback(c) PROVE applied' = applied \/ Merges(c)
  BY <1>1 DEF Merges, Callback, CallbackSkipped, PrepareReuses, PrepareReads,
      PrepareCommits, PrepareFails, WaveReads, WaveCommits, WaveFails, Step,
      StepSkips, StepRefused, StepClaims, StepDiscarded, StepSucceeds, StepFails,
      MergeRepeated, MergeFindsFailure, FinalizeReturns, FinalizeReads,
      FinalizeCommits, FinalizeFails, FinalizeCleans, FinalizeCleanupFails
<1>2. ASSUME NEW d \in Dispatchers, Dispatch(d) \/ RetryCommits(d) PROVE applied' = applied
  BY <1>2 DEF Dispatch, DispatchFindsQueued, DispatchBuilds, DispatchMismatches,
      DispatchPublishes, DispatchPublishFails, DispatchConfirms, RetryPersists,
      RetryCommits
<1>3. ASSUME NEW k \in Cancellers, CancelCommits(k) \/ Cancel(k) PROVE applied' = applied
  BY <1>3 DEF CancelCommits, Cancel, CancelRevokes, CancelCleans,
      CancelCleanupFails, CancelReports
<1> QED
  BY <1>1, <1>2, <1>3 DEF Next, vars

\* What merge_wave puts on the branch, and the row it finds conflicting.
LEMMA MergeBranch ==
    ASSUME TypeOK, NEW c \in Dispatchers, Merges(c)
    PROVE  \E T \in SUBSET Pending(c) :
             /\ applied' = applied \cup Picks(T)
             /\ MergeSucceeds(c) => \A s \in Pending(c) : child'[s].merge \in {"merged", "skipped"}
             /\ \A s \in Steps : child'[s].merge = "conflict" =>
                  child[s].merge = "conflict" \/ s \in Pending(c) \ T
<1>0. Pending(c) \subseteq Steps
  BY DEF Pending, WaveSteps
<1>1. MergeSucceeds(c) => \A s \in Pending(c) : child'[s].merge \in {"merged", "skipped"}
  BY <1>0, MergeRow DEF MergeFolds
<1>2. ASSUME ~MergeConflicts(c), NEW s \in Steps, child'[s].merge = "conflict"
      PROVE  child[s].merge = "conflict"
  BY <1>2, MergeRow DEF Merges, MergeLeaves, MergeFolds
<1>3. CASE MergeConflicts(c)
  <2>1. PICK k \in Pending(c) :
          LET S == {s \in Pending(c) : s < k} IN
          /\ child' = [Fold(S) EXCEPT ![k].merge = "conflict"]
          /\ applied' = applied \cup Picks(S)
    BY <1>3 DEF MergeConflicts
  <2> DEFINE S == {s \in Pending(c) : s < k}
  <2>2. S \in SUBSET Pending(c) /\ k \notin S
    BY <1>0 DEF Steps
  <2>3. ASSUME NEW s \in Steps, s # k, child'[s].merge = "conflict"
        PROVE  child[s].merge = "conflict"
    <3>1. child'[s] = Fold(S)[s]
      BY <2>1, <2>3, FoldType
    <3> QED
      BY <2>3, <3>1, FoldFields
  <2> QED
    BY <1>0, <1>1, <2>1, <2>2, <2>3
<1>4. CASE MergeSucceeds(c)
  <2>1. applied' = applied \cup Picks(Pending(c))
    BY <1>4 DEF MergeSucceeds
  <2>2. ASSUME NEW s \in Steps, child'[s].merge = "conflict"
        PROVE  child[s].merge = "conflict"
    BY <1>1, <1>4, <2>2, MergeRow DEF MergeLeaves
  <2> QED
    BY <1>1, <2>1, <2>2
<1>5. CASE MergeFails(c)
  <2>1. PICK k \in Pending(c), at \in {"untouched", "picked", "marked"} :
          LET S == {t \in Pending(c) : t < k}
              picked == IF at = "untouched" THEN S ELSE S \cup {k}
              marked == IF at = "marked" THEN S \cup {k} ELSE S
          IN  child' = Fold(marked) /\ applied' = applied \cup Picks(picked)
    BY <1>5 DEF MergeFails
  <2>2. PICK S \in SUBSET Pending(c), T \in SUBSET Pending(c) :
          child' = Fold(S) /\ applied' = applied \cup Picks(T)
    BY <2>1
  <2>3. ASSUME NEW s \in Steps, child'[s].merge = "conflict"
        PROVE  child[s].merge = "conflict"
    BY <2>2, <2>3, FoldFields
  <2> QED
    BY <1>1, <2>2, <2>3
<1> QED
  BY <1>3, <1>4, <1>5 DEF Merges

\* A step's commit is there until a retry, and is the work of the canvas in charge.
LEMMA CommitMoves ==
    ASSUME ProgressInv, [Next]_vars, NEW s \in Steps
    PROVE  \/ child'[s].commit = child[s].commit
           \/ child'[s].commit = None /\ \E d \in Dispatchers : RetryCommits(d)
           \/ /\ child[s].commit = None
              /\ \E c \in Dispatchers : StepSucceeds(c, s) /\ child'[s].commit \in {c, None}
<1>0. TypeOK
  BY DEF ProgressInv, ExecutionInv
<1>1. CASE \E c \in Dispatchers : WaveCommits(c) \/ Merges(c)
  BY <1>0, <1>1, WaveSameRun, MergeSameRun DEF Merges, SameRun
<1>2. CASE \E c \in Dispatchers : PrepareCommits(c)
  BY <1>0, <1>2, PrepareWrites
<1>3. CASE \E c \in Dispatchers : StepRefused(c, s) \/ StepClaims(c, s) \/ StepFails(c, s)
  BY <1>0, <1>3, StepWrites
<1>4. ASSUME NEW c \in Dispatchers, StepSucceeds(c, s)
      PROVE  child[s].commit = None /\ child'[s].commit \in {c, None}
  <2>1. Working(c, s) /\ Current(c)
    BY <1>4 DEF StepSucceeds, StepFenced, Working
  <2> QED
    BY <1>0, <1>4, <2>1, SucceedsRow DEF ProgressInv, ExecutionInv, ClaimHeld
<1>5. CASE \E d \in Dispatchers : RetryCommits(d)
  BY <1>0, <1>5, RetryRow
<1>6. CASE \E k \in Cancellers : CancelCommits(k)
  BY <1>0, <1>6, CancelRow
<1> QED
  BY <1>0, <1>1, <1>2, <1>3, <1>4, <1>5, <1>6, RowWriters DEF WritesRow

LEMMA StagesStay ==
    ASSUME TypeOK, CanvasLifecycle, [Next]_vars, NEW c \in Dispatchers,
           canvas[c].stage # "free"
    PROVE  canvas'[c].stage # "free" /\ ~DispatchBuilds(c)
<1>1. ~DispatchBuilds(c)
  BY DEF DispatchBuilds, CanvasLifecycle
<1> QED
  BY <1>1, NextKeeps DEF Keeps


-----------------------------------------------------------------------------
(* Git: what the rows and the branch say                                   *)

LEMMA CommitKnownNext ==
    ASSUME ProgressInv, CommitIsKnown, [Next]_vars
    PROVE  CommitIsKnown'
<1>0. TypeOK /\ CanvasLifecycle
  BY DEF ProgressInv, ExecutionInv
<1> SUFFICES ASSUME NEW s \in Steps, child'[s].commit # None
             PROVE  canvas'[child'[s].commit].stage # "free"
  BY DEF CommitIsKnown
<1>1. CASE child'[s].commit = child[s].commit
  <2>1. child[s].commit \in Dispatchers /\ canvas[child[s].commit].stage # "free"
    BY <1>0, <1>1 DEF CommitIsKnown, TypeOK, Child, Maybe
  <2> QED
    BY <1>0, <1>1, <2>1, StagesStay
<1>2. ASSUME NEW c \in Dispatchers, StepSucceeds(c, s)
      PROVE  canvas'[c].stage # "free"
  <2>1. canvas[c].stage = "steps"
    BY <1>2, Unfenced DEF StepSucceeds
  <2> QED
    BY <1>0, <2>1, StagesStay
<1> QED
  BY <1>1, <1>2, CommitMoves

LEMMA PicksKnown ==
    ASSUME TypeOK, NEW c \in Dispatchers, NEW T \in SUBSET Pending(c),
           NEW s \in Steps, NEW d, <<s, d>> \in Picks(T)
    PROVE  s \in T /\ d = child[s].commit /\ d # None
BY DEF Picks

\* A canvas in charge after a step was so before, and no retry or cancellation came.
LEMMA CurrentPersists ==
    ASSUME TypeOK, TypeOK', CanvasLifecycle, [Next]_vars, NEW c \in Dispatchers,
           canvas[c].stage # "free", Current(c)'
    PROVE  /\ Live(c) /\ Current(c) /\ InCharge(c) /\ SameGeneration
           /\ parent'.gen = parent.gen /\ (IsTerminal => IsTerminal')
           /\ \A d \in Dispatchers : ~RetryCommits(d)
           /\ \A k \in Cancellers : ~CancelCommits(k)
<1>1. Live(c) /\ SameGeneration
  BY StagesStay, LivePersists DEF Live
<1>2. parent'.gen = parent.gen /\ parent.gen \in Nat
  BY <1>1 DEF SameGeneration, TypeOK, Parent
<1>3. \A d \in Dispatchers : ~RetryCommits(d)
  BY <1>2, RetryFields
<1>4. \A k \in Cancellers : ~CancelCommits(k)
  <2>1. ASSUME NEW k \in Cancellers, CancelCommits(k) PROVE parent'.gen = parent.gen + 1
    BY <2>1 DEF CancelCommits, TypeOK, Parent
  <2> QED
    BY <1>2, <2>1
<1>5. IsTerminal => IsTerminal'
  BY <1>1 DEF SameGeneration, SameParent, FailedParent, PreparedParent, FinishedParent,
     IsTerminal, Terminal
<1> QED
  BY <1>1, <1>2, <1>3, <1>4, <1>5 DEF Live, InCharge

LEMMA BranchKnownNext ==
    ASSUME ProgressInv, TypeOK', CommitIsKnown, BranchIsKnown, [Next]_vars
    PROVE  BranchIsKnown'
<1>0. TypeOK /\ CanvasLifecycle /\ ClaimHeld /\ CommitIsSuccess
  BY DEF ProgressInv, ExecutionInv
<1> SUFFICES ASSUME NEW s \in Steps, NEW c \in Dispatchers, <<s, c>> \in applied'
             PROVE  canvas'[c].stage # "free" /\ (Current(c)' => child'[s].commit = c)
  BY DEF BranchIsKnown
<1>1. CASE <<s, c>> \in applied
  <2>1. canvas[c].stage # "free" /\ canvas'[c].stage # "free"
    BY <1>0, <1>1, StagesStay DEF BranchIsKnown
  <2>2. ASSUME Current(c)' PROVE child'[s].commit = c
    <3>1. Current(c) /\ \A d \in Dispatchers : ~RetryCommits(d)
      BY <1>0, <2>1, <2>2, CurrentPersists
    <3>2. child[s].commit = c /\ c # None
      BY <1>1, <3>1, ActorAssumption DEF BranchIsKnown
    <3> QED
      BY <3>1, <3>2, CommitMoves
  <2> QED
    BY <2>1, <2>2
<1>2. CASE <<s, c>> \notin applied
  <2>1. PICK d \in Dispatchers : Merges(d)
    BY <1>2, BranchWriters
  <2>2. PICK T \in SUBSET Pending(d) : applied' = applied \cup Picks(T)
    BY <1>0, <2>1, MergeBranch
  <2>3. c = child[s].commit /\ c # None
    BY <1>0, <1>2, <2>2, PicksKnown
  <2>4. child'[s].commit = child[s].commit
    BY <1>0, <2>1, MergeSameRun DEF Merges, SameRun
  <2>5. canvas'[c].stage # "free"
    BY <1>0, <2>3, StagesStay DEF CommitIsKnown
  <2> QED
    BY <2>3, <2>4, <2>5
<1> QED
  BY <1>1, <1>2

\* Of an execution that goes on, the branch has only what is folded in.
LEMMA BranchFoldedNext ==
    ASSUME ProgressInv, TypeOK', BranchIsKnown, BranchIsFolded, [Next]_vars
    PROVE  BranchIsFolded'
<1>0. TypeOK /\ CanvasLifecycle /\ ClaimHeld /\ CommitIsSuccess
  BY DEF ProgressInv, ExecutionInv
<1> SUFFICES ASSUME ~IsTerminal', NEW s \in Steps
             PROVE  child'[s].merge # "conflict" /\ (Applied(s)' => Folded(s)')
  BY DEF BranchIsFolded
<1>a. child[s].commit = None => ~Applied(s)
  BY <1>0, ActorAssumption DEF Applied, TypeOK, Commits
<1>b. child'[s].commit = None => ~Applied(s)'
  BY ActorAssumption DEF Applied, TypeOK, Commits
<1>1. ASSUME NEW d \in Dispatchers, RetryCommits(d)
      PROVE  child'[s].merge # "conflict" /\ (Applied(s)' => Folded(s)')
  BY <1>0, <1>1, <1>b, RetryRow DEF Complete, Folded
<1>2. ASSUME NEW c \in Dispatchers, PrepareCommits(c)
      PROVE  child'[s].merge # "conflict" /\ (Applied(s)' => Folded(s)')
  <2>1. ~IsTerminal /\ ~parent.integ
    BY <1>2 DEF ProgressInv, Progress, CanvasFits, PreparedFirst, PrepareCommits, Barred, Live
  <2>2. child[s].commit = None
    BY <1>0, <2>1 DEF ProgressInv, Progress, RowFits, Unprepared, CommitIsSuccess
  <2> QED
    BY <1>0, <1>2, <1>b, <2>2, PrepareWrites
<1>3. CASE \A d \in Dispatchers : ~RetryCommits(d)
  <2>1. ~IsTerminal
    <3>1. ParentMoves
      BY <1>0, NextParent
    <3> QED
      BY <1>3, <3>1
      DEF ParentMoves, SameParent, FailedParent, PreparedParent, FinishedParent,
          OpenedParent, CancelledParent, RetriedParent, IsTerminal, Terminal
  <2>2. child[s].merge # "conflict" /\ (Applied(s) => Folded(s))
    BY <2>1 DEF BranchIsFolded
  <2>3. CASE UNCHANGED applied /\ child'[s].commit = child[s].commit
             /\ child'[s].merge = child[s].merge
    BY <2>2, <2>3 DEF Applied, Folded
  <2>4. ASSUME NEW c \in Dispatchers, Merges(c)
        PROVE  child'[s].merge # "conflict" /\ (Applied(s)' => Folded(s)')
    <3>1. MergeSucceeds(c)
      BY <1>0, <2>4, FailsKept
      DEF Merges, MergeConflicts, MergeFails, IsTerminal, Terminal
    <3>2. PICK T \in SUBSET Pending(c) :
            /\ applied' = applied \cup Picks(T)
            /\ s \in Pending(c) => child'[s].merge \in {"merged", "skipped"}
            /\ child'[s].merge = "conflict" => child[s].merge = "conflict" \/ s \in Pending(c)
      BY <1>0, <2>4, <3>1, MergeBranch
    <3>3. child'[s].commit = child[s].commit /\ (s \notin Pending(c) => MergeLeaves(s))
      BY <1>0, <2>4, MergeRow DEF Merges, SameRun
    <3>4. s \notin Pending(c) /\ Applied(s)' => Applied(s)
      BY <1>0, <3>2, <3>3, PicksKnown DEF Applied
    <3> QED
      BY <2>2, <3>2, <3>3, <3>4 DEF Folded, MergeLeaves
  <2>5. ASSUME NEW c \in Dispatchers, StepSucceeds(c, s)
        PROVE  child'[s].merge # "conflict" /\ (Applied(s)' => Folded(s)')
    <3>1. Working(c, s) /\ Current(c) /\ UNCHANGED applied
      BY <2>5 DEF StepSucceeds, StepFenced, Working
    <3>2. <<s, c>> \notin applied
      BY <1>0, <3>1, ActorAssumption DEF BranchIsKnown, ClaimHeld
    <3> QED
      BY <1>0, <1>b, <2>5, <3>1, <3>2, SucceedsRow DEF Applied, Folded
  <2>6. ASSUME NEW c \in Dispatchers,
               WaveCommits(c) \/ StepRefused(c, s) \/ StepClaims(c, s) \/ StepFails(c, s)
        PROVE  /\ UNCHANGED applied
               /\ child'[s].commit = child[s].commit /\ child'[s].merge = child[s].merge
    BY <1>0, <2>6, WaveSameRun, StepWrites
    DEF SameRun, WaveCommits, StepRefused, StepClaims, StepFails
  <2>7. \A k \in Cancellers : ~CancelCommits(k)
    <3>1. ASSUME NEW k \in Cancellers, CancelCommits(k) PROVE parent'.status = "CANCELLED"
      BY <1>0, <3>1 DEF CancelCommits, TypeOK, Parent
    <3> QED
      BY <3>1 DEF IsTerminal, Terminal
  <2> QED
    BY <1>0, <1>2, <1>3, <2>3, <2>4, <2>5, <2>6, <2>7, RowWriters, BranchWriters
    DEF WritesRow
<1> QED
  BY <1>1, <1>2, <1>3

\* A conflict is recorded for a commit the branch does not have, and stays so.
LEMMA ConflictNext ==
    ASSUME ProgressInv, BranchIsFolded, ConflictIsReal, [Next]_vars
    PROVE  ConflictIsReal'
<1>0. TypeOK
  BY DEF ProgressInv, ExecutionInv
<1> SUFFICES ASSUME NEW s \in Steps, child'[s].merge = "conflict"
             PROVE  ~Applied(s)'
  BY DEF ConflictIsReal
<1>1. CASE UNCHANGED applied /\ child'[s].commit = child[s].commit
           /\ child'[s].merge = child[s].merge
  BY <1>1 DEF ConflictIsReal, Applied
<1>2. ASSUME NEW c \in Dispatchers, Merges(c) PROVE ~Applied(s)'
  <2>1. child[s].merge # "conflict" /\ (Applied(s) => Folded(s))
    BY <1>2 DEF Merges, MergeSucceeds, MergeConflicts, MergeFails, Merging, Barred,
       BranchIsFolded
  <2>2. PICK T \in SUBSET Pending(c) :
          applied' = applied \cup Picks(T) /\ s \in Pending(c) \ T
    BY <1>0, <1>2, <2>1, MergeBranch
  <2>3. child'[s].commit = child[s].commit /\ ~Applied(s)
    BY <1>0, <1>2, <2>1, <2>2, MergeSameRun DEF Merges, SameRun, Pending
  <2> QED
    BY <1>0, <2>2, <2>3, PicksKnown DEF Applied
<1>3. ASSUME NEW c \in Dispatchers,
             WaveCommits(c) \/ StepRefused(c, s) \/ StepClaims(c, s) \/ StepFails(c, s)
      PROVE  /\ UNCHANGED applied
             /\ child'[s].commit = child[s].commit /\ child'[s].merge = child[s].merge
  BY <1>0, <1>3, WaveSameRun, StepWrites
  DEF SameRun, WaveCommits, StepRefused, StepClaims, StepFails
<1>4. ASSUME NEW c \in Dispatchers, PrepareCommits(c) \/ StepSucceeds(c, s) PROVE FALSE
  BY <1>0, <1>4, PrepareWrites, SucceedsRow
<1>5. ASSUME NEW d \in Dispatchers, RetryCommits(d) PROVE FALSE
  BY <1>0, <1>5, RetryRow DEF Complete, Folded
<1>6. ASSUME NEW k \in Cancellers, CancelCommits(k)
      PROVE  /\ UNCHANGED applied
             /\ child'[s].commit = child[s].commit /\ child'[s].merge = child[s].merge
  BY <1>0, <1>6, CancelRow DEF CancelCommits
<1> QED
  BY <1>0, <1>1, <1>2, <1>3, <1>4, <1>5, <1>6, RowWriters, BranchWriters DEF WritesRow


-----------------------------------------------------------------------------
(* Git: what the steps of a wave find                                      *)

\* Next to a canvas in charge, nobody writes rows or the branch, and only the cleanup
\* of a cancellation removes directories.
LEMMA OneActor ==
    ASSUME TypeOK, TypeOK', CanvasLifecycle, Alone, TargetsAreStale, [Next]_vars, NEW c \in Dispatchers,
           canvas[c].stage # "free", Current(c)'
    PROVE  \/ Callback(c)
           \/ /\ UNCHANGED <<child, applied>>
              /\ trees' = trees \/ parent.status = "CANCELLED"
              /\ canvas'[c] = canvas[c] \/ DispatchPublishes(c)
<1>1. /\ InCharge(c) /\ Current(c)
      /\ \A d \in Dispatchers : InCharge(d) => d = c
      /\ \A d \in Dispatchers : ~RetryCommits(d)
      /\ \A k \in Cancellers : ~CancelCommits(k)
  BY CurrentPersists DEF Alone
<1>2. ASSUME NEW d \in Dispatchers, Callback(d), d # c
      PROVE  UNCHANGED <<child, applied, trees>> /\ canvas'[c] = canvas[c]
  <2>1. OthersStay(d) /\ canvas[d].stage # "free"
    BY <1>2, CallbackKeeps
  <2>2. ~Current(d)
    BY <1>1, <1>2, <2>1 DEF InCharge, Live
  <2> QED
    BY <1>2, <2>1, <2>2, StaleIsInert DEF OthersStay
<1>3. ASSUME NEW d \in Dispatchers, Dispatch(d)
      PROVE  /\ UNCHANGED <<child, applied, trees>>
             /\ canvas'[c] = canvas[c] \/ DispatchPublishes(c)
  <2>1. ~DispatchBuilds(d)
    BY <1>1 DEF DispatchBuilds, InCharge, CanvasLifecycle
  <2>2. DispatchPublishes(d) => canvas'[c] = canvas[c] \/ DispatchPublishes(c)
    BY PublishPlace DEF OthersStay
  <2> QED
    BY <1>3, <2>1, <2>2
    DEF Dispatch, DispatchFindsQueued, DispatchMismatches, DispatchPublishes,
        DispatchPublishFails, DispatchConfirms, RetryPersists
<1>4. ASSUME NEW k \in Cancellers, Cancel(k)
      PROVE  /\ UNCHANGED <<child, applied>> /\ canvas'[c] = canvas[c]
             /\ trees' = trees \/ parent.status = "CANCELLED"
  <2>1. CASE CancelRevokes(k)
    <3>1. canvas[c].gen \in Nat /\ ~(canvas[c].gen < parent.gen)
      BY <1>1 DEF Current, TypeOK, Canvas
    <3>2. canvas'[c] = canvas[c]
      BY <2>1, <3>1, RevokePlace DEF TargetsAreStale
    <3> QED
      BY <2>1, <3>2 DEF CancelRevokes
  <2>2. CASE CancelCleans(k) \/ CancelCleanupFails(k) \/ CancelReports(k)
    BY <2>2 DEF CancelCleans, CancelCleanupFails, CancelReports, StillCancelled
  <2> QED
    BY <1>4, <2>1, <2>2 DEF Cancel
<1> QED
  BY <1>1, <1>2, <1>3, <1>4 DEF Next, vars

\* Which callbacks bring a canvas to prepare_wave's lock, and to the chord.
LEMMA ReachesWave ==
    ASSUME TypeOK, CanvasLifecycle, NEW c \in Dispatchers, Callback(c),
           canvas[c].stage = "wave" =>
               \A s \in Steps : canvas[c].step[s] \notin {"queued", "working"},
           \/ canvas'[c].stage = "wave" /\ canvas'[c].busy
           \/ canvas'[c].stage = "steps"
    PROVE  \/ WaveReads(c) /\ canvas'[c].stage = "wave"
           \/ /\ canvas'[c].stage = "steps"
              /\ \/ WaveCommits(c) \/ WaveFails(c) \/ \E s \in Steps : Step(c, s)
                 \/ CallbackSkipped(c) /\ canvas[c].stage = "wave"
<1>1. CASE Advance(c) /\ canvas[c].stage = "wave"
  <2>1. canvas'[c].stage = "steps"
    BY <1>1, AdvanceFields
  <2>2. /\ ~PrepareReuses(c) /\ ~PrepareReads(c) /\ ~PrepareCommits(c) /\ ~PrepareFails(c)
        /\ ~MergeRepeated(c) /\ ~MergeFindsFailure(c) /\ ~MergeSucceeds(c)
        /\ ~MergeConflicts(c) /\ ~MergeFails(c) /\ ~FinalizeReturns(c)
        /\ ~FinalizeReads(c) /\ ~FinalizeCommits(c) /\ ~FinalizeFails(c)
        /\ ~FinalizeCleans(c) /\ ~FinalizeCleanupFails(c)
    BY <1>1
    DEF PrepareReuses, PrepareReads, PrepareCommits, PrepareFails, MergeRepeated,
        MergeFindsFailure, MergeSucceeds, MergeConflicts, MergeFails, Merging,
        FinalizeReturns, FinalizeReads, FinalizeCommits, FinalizeFails, FinalizeCleans,
        FinalizeCleanupFails
  <2>3. ~WaveReads(c)
    BY <1>1, <2>1, ReadsFields DEF SamePlace
  <2> QED
    BY <1>1, <2>1, <2>2, <2>3 DEF Callback
<1>2. CASE Advance(c) /\ canvas[c].stage \in {"prepare", "merge", "finalize", "cleanup"}
  <2>1. canvas'[c].stage # "steps" /\ (canvas'[c].stage = "wave" => ~canvas'[c].busy)
    BY <1>2, AdvanceFields DEF CanvasLifecycle
  <2> QED
    BY <2>1
<1>3. CASE PrepareReads(c) \/ FinalizeReads(c)
  BY <1>3, ReadsFields DEF PrepareReads, FinalizeReads, SamePlace
<1>4. CASE WaveReads(c)
  BY <1>4, ReadsFields DEF WaveReads, SamePlace
<1>5. CASE FinalizeCommits(c)
  BY <1>5, FinishFields
<1>6. ASSUME NEW s \in Steps, Step(c, s) PROVE canvas'[c].stage # "wave"
  <2>1. canvas[c].step[s] \in {"queued", "working"}
    BY <1>6 DEF Step, StepSkips, StepRefused, StepClaims, StepDiscarded,
       StepSucceeds, StepFails
  <2>2. canvas[c].stage # "wave"
    BY <2>1
  <2> QED
    BY <1>6, <2>2, StepStage, ClaimFields, ReturnFields
<1> QED
  BY <1>1, <1>2, <1>3, <1>4, <1>5, <1>6
  DEF Callback, CallbackSkipped, PrepareReuses, PrepareCommits, PrepareFails,
      WaveCommits, WaveFails, MergeRepeated, MergeFindsFailure,
      MergeSucceeds, MergeConflicts, MergeFails, Merging, FinalizeReturns,
      FinalizeFails, FinalizeCleans, FinalizeCleanupFails

LEMMA WaveIsIdle ==
    ASSUME ProgressInv, NEW c \in Dispatchers, canvas[c].stage = "wave"
    PROVE  \A s \in Steps : canvas[c].step[s] \notin {"queued", "working"}
BY DEF ProgressInv, Progress, CanvasFits, Chord

LEMMA WaveReadsFields ==
    ASSUME TypeOK, NEW c \in Dispatchers, WaveReads(c)
    PROVE  /\ canvas'[c].base = applied /\ canvas'[c].wave = canvas[c].wave
           /\ canvas'[c].gen = canvas[c].gen
           /\ \A s \in Steps : WaveOf[s] = canvas[c].wave /\ child[s].status # "SUCCESS" =>
                s \in canvas'[c].todo
<1>1. canvas[c] \in Canvas
  BY DEF TypeOK
<1> QED
  BY <1>1 DEF WaveReads, WaveSteps, TypeOK, Canvas

\* prepare_wave takes its lock: what it read before is still so.
LEMMA WaveReadNext ==
    ASSUME ProgressInv, TypeOK', WaveIsRead, [Next]_vars
    PROVE  WaveIsRead'
<1>0. TypeOK /\ CanvasLifecycle /\ MergedIsApplied /\ Alone /\ TargetsAreStale
  BY DEF ProgressInv, ExecutionInv, WhoIsInCharge, RevokedAreStale
<1> SUFFICES ASSUME NEW c \in Dispatchers, Live(c)', canvas'[c].stage = "wave",
                    canvas'[c].busy, NEW s \in Steps
             PROVE  /\ WaveOf[s] = canvas'[c].wave /\ InGeneration(s)' => s \in canvas'[c].todo
                    /\ ~IsTerminal' /\ WaveOf[s] < canvas'[c].wave /\ child'[s].commit # None
                         => <<s, child'[s].commit>> \in canvas'[c].base
  BY DEF WaveIsRead
<1>1. ~DispatchBuilds(c)
  BY <1>0, BuildsPlace
<1>2. Live(c) /\ canvas[c].stage # "free" /\ Current(c)'
  BY <1>0, <1>1, LivePersists DEF Live
<1>3. parent'.gen = parent.gen /\ (IsTerminal => IsTerminal')
  BY <1>0, <1>2, CurrentPersists
<1>4. CASE Callback(c)
  <2>1. WaveReads(c)
    <3>1. canvas[c].stage = "wave" =>
            \A t \in Steps : canvas[c].step[t] \notin {"queued", "working"}
      BY WaveIsIdle
    <3> QED
      BY <1>0, <1>4, <3>1, ReachesWave
  <2>2. /\ UNCHANGED child /\ canvas[c].stage = "wave" /\ CanvasFits(c, s) /\ RowFits(s)
        /\ ~IsTerminal /\ WaveOf[s] \in Nat /\ canvas[c].wave \in Nat
    BY <1>0, <2>1, PlaceTypes DEF WaveReads, Barred, ProgressInv, Progress
  <2>3. ASSUME WaveOf[s] = canvas'[c].wave, InGeneration(s)' PROVE s \in canvas'[c].todo
    <3>1. InGeneration(s) /\ Ahead(c, s)
      BY <1>0, <1>3, <2>1, <2>2, <2>3, WaveReadsFields DEF InGeneration, Ahead
    <3>2. child[s].status = "PENDING"
      BY <1>2, <2>2, <3>1 DEF CanvasFits, Follows, NotBegun
    <3> QED
      BY <1>0, <2>1, <2>3, <3>2, WaveReadsFields
  <2>4. ASSUME WaveOf[s] < canvas'[c].wave, child'[s].commit # None
        PROVE  <<s, child'[s].commit>> \in canvas'[c].base
    <3>1. Behind(c, s)
      BY <1>0, <2>1, <2>2, <2>4, WaveReadsFields DEF Behind
    <3>2. Finished(s)
      BY <1>2, <2>2, <3>1 DEF CanvasFits, Follows, BehindIsFinished
    <3>3. child[s].merge = "merged"
      BY <2>2, <2>4, <3>2 DEF Finished, RowFits, FoldedIsSuccess
    <3> QED
      BY <1>0, <2>1, <2>2, <3>3, WaveReadsFields DEF MergedIsApplied, Applied
  <2> QED
    BY <2>3, <2>4
<1>5. CASE ~Callback(c)
  <2>1. UNCHANGED child /\ (canvas'[c] = canvas[c] \/ DispatchPublishes(c))
    BY <1>0, <1>2, <1>5, OneActor
  <2>2. canvas'[c] = canvas[c]
    BY <1>0, <2>1, PublishPlace DEF DispatchPublishes, Publish
  <2> QED
    BY <1>2, <1>3, <2>1, <2>2 DEF WaveIsRead, InGeneration
<1> QED
  BY <1>4, <1>5


LEMMA WaveRow ==
    ASSUME TypeOK, NEW c \in Dispatchers, WaveCommits(c), NEW s \in Steps
    PROVE  /\ SameRow(s)
           /\ s \in canvas[c].todo => child'[s].path /\ child'[s].base = canvas[c].base
           /\ child[s].path => child'[s].path
<1>1. child[s] \in Child
  BY DEF TypeOK
<1>2. SameRow(s)
  BY WaveSameRun DEF SameRow
<1> QED
  BY <1>1, <1>2 DEF WaveCommits, Child

LEMMA ClaimRow ==
    ASSUME TypeOK, NEW c \in Dispatchers, NEW s \in Steps, StepClaims(c, s)
    PROVE  child'[s].path = child[s].path /\ child'[s].base = child[s].base
<1>1. child[s] \in Child
  BY DEF TypeOK
<1> QED
  BY <1>1 DEF StepClaims, TypeOK, Child

\* What made a step ready stays as it is.
LEMMA ReadyStays ==
    ASSUME NEW s \in Steps, Ready(s), s \in trees',
           child'[s].path = child[s].path, child'[s].base = child[s].base,
           \A t \in Steps : WaveOf[t] < WaveOf[s] => SameRow(t)
    PROVE  Ready(s)'
BY DEF Ready, Finished, SameRow, SameRun

\* prepare_wave gives every step of its wave a directory at a base that has the
\* waves before.
LEMMA WaveIsReady ==
    ASSUME ProgressInv, WaveIsRead, NEW c \in Dispatchers, WaveCommits(c),
           NEW s \in Steps, WaveOf[s] = canvas[c].wave, InGeneration(s)
    PROVE  Ready(s)'
<1>0. TypeOK
  BY DEF ProgressInv, ExecutionInv
<1>1. /\ Live(c) /\ ~IsTerminal /\ canvas[c].stage = "wave" /\ canvas[c].busy
      /\ trees' = trees \cup canvas[c].todo
  BY DEF WaveCommits, Barred, Live
<1>2. s \in canvas[c].todo
  BY <1>1 DEF WaveIsRead
<1>3. ASSUME NEW t \in Steps, WaveOf[t] < WaveOf[s]
      PROVE  /\ Finished(t)'
             /\ child'[t].commit # None => <<t, child'[t].commit>> \in canvas[c].base
  <2>1. CanvasFits(c, t) /\ SameRow(t)
    BY <1>0, WaveRow DEF ProgressInv, Progress
  <2>2. Behind(c, t)
    BY <1>1, <1>3 DEF Behind
  <2>3. Finished(t)
    BY <1>1, <2>1, <2>2 DEF CanvasFits, Follows, BehindIsFinished
  <2> QED
    BY <1>1, <1>3, <2>1, <2>3 DEF WaveIsRead, SameRow, SameRun, Finished
<1> QED
  BY <1>0, <1>1, <1>2, <1>3, WaveRow DEF Ready

LEMMA ReadyNext ==
    ASSUME ProgressInv, ProgressInv', WaveIsRead, StepsAreReady, [Next]_vars
    PROVE  StepsAreReady'
<1>0. TypeOK /\ TypeOK' /\ CanvasLifecycle /\ Alone /\ TargetsAreStale
  BY DEF ProgressInv, ExecutionInv, WhoIsInCharge, RevokedAreStale
<1> SUFFICES ASSUME NEW c \in Dispatchers, NEW s \in Steps, Current(c)', InGeneration(s)',
                    \/ canvas'[c].step[s] = "queued" /\ ~IsTerminal'
                    \/ Working(c, s)'
             PROVE  Ready(s)'
  BY DEF StepsAreReady
<1>1. canvas'[c].stage = "steps"
  <2>1. canvas'[c].stage \in {"steps", "revoked"}
    BY DEF ProgressInv, Progress, CanvasFits, Chord, Working
  <2>2. canvas'[c].gen \in Nat /\ canvas'[c].gen = parent'.gen
    BY <1>0 DEF TypeOK, Canvas, Current
  <2> QED
    BY <2>1, <2>2 DEF ProgressInv, WhoIsInCharge, RevokedAreStale, TargetsAreStale
<1>2. ~DispatchBuilds(c)
  BY <1>0, <1>1, BuildsPlace
<1>3. Live(c) /\ canvas[c].stage # "free" /\ Current(c)
  BY <1>0, <1>1, <1>2, LivePersists DEF Live
<1>4. parent'.gen = parent.gen /\ (IsTerminal => IsTerminal')
      /\ \A d \in Dispatchers : ~RetryCommits(d)
  BY <1>0, <1>3, CurrentPersists
<1>5. CASE ~Callback(c)
  <2>1. /\ UNCHANGED child /\ (trees' = trees \/ parent.status = "CANCELLED")
        /\ canvas'[c] = canvas[c] \/ DispatchPublishes(c)
    BY <1>0, <1>3, <1>5, OneActor
  <2>2. canvas'[c].step = canvas[c].step
    BY <1>0, <2>1, PublishPlace
  <2>3. InGeneration(s)
    BY <1>4, <2>1 DEF InGeneration
  <2>4. Ready(s)
    BY <1>3, <1>4, <2>2, <2>3 DEF StepsAreReady, Working
  <2>5. child[s].gen \in Nat /\ parent.status # "CANCELLED"
    BY <1>0, <2>3, PlaceTypes DEF InGeneration, ProgressInv, WhoIsInCharge, RevokedAreStale, TargetsAreStale
  <2>6. s \in trees'
    BY <2>1, <2>4, <2>5 DEF Ready
  <2> QED
    BY <2>1, <2>4, <2>6, ReadyStays DEF SameRow, SameRun
<1>6. ASSUME Advance(c), canvas[c].stage = "wave", UNCHANGED parent \/ IsTerminal',
             \A t \in Steps : SameRow(t)
      PROVE  InGeneration(s) /\ WaveOf[s] = canvas[c].wave /\ ~IsTerminal'
  <2>1. /\ canvas'[c].step[s] = IF WaveOf[s] = canvas[c].wave THEN "queued"
                                                              ELSE canvas[c].step[s]
        /\ canvas[c].step[s] \notin {"queued", "working"}
    BY <1>0, <1>6, AdvanceFields DEF ProgressInv, Progress, CanvasFits, Chord
  <2> QED
    BY <1>4, <1>6, <2>1 DEF Working, InGeneration, SameRow, SameRun
<1>7. CASE (CallbackSkipped(c) /\ canvas[c].stage = "wave") \/ WaveFails(c)
  <2>1. /\ Advance(c) /\ canvas[c].stage = "wave" /\ IsTerminal'
        /\ UNCHANGED child
    BY <1>0, <1>3, <1>7, FailsKept
    DEF CallbackSkipped, WaveFails, Barred, IsTerminal, Terminal
  <2> QED
    BY <1>6, <2>1 DEF SameRow, SameRun
<1>8. CASE WaveCommits(c)
  <2>1. Advance(c) /\ canvas[c].stage = "wave" /\ UNCHANGED parent
    BY <1>8 DEF WaveCommits
  <2> QED
    BY <1>0, <1>6, <1>8, <2>1, WaveRow, WaveIsReady
<1>9. ASSUME NEW t \in Steps, Step(c, t) PROVE Ready(s)'
  <2>1. /\ UNCHANGED <<parent, trees>> /\ canvas[c].step[t] \in {"queued", "working"}
        /\ \A u \in Steps \ {t} : child'[u] = child[u]
        /\ child'[t].gen = child[t].gen
    BY <1>0, <1>9, StepWrites
    DEF Step, StepSkips, StepRefused, StepClaims, StepDiscarded, StepSucceeds, StepFails
  <2>2. WaveOf[t] = canvas[c].wave /\ canvas[c].stage = "steps"
    <3>1. canvas[c].stage # "revoked"
      BY <1>0, <1>3, PlaceTypes DEF Current, ProgressInv, WhoIsInCharge, RevokedAreStale, TargetsAreStale
    <3> QED
      BY <2>1, <3>1 DEF ProgressInv, Progress, CanvasFits, Chord
  <2>3. InGeneration(s)
    BY <2>1 DEF InGeneration
  <2>4. CASE t = s
    <3>1. StepClaims(c, s)
      <4>1. StepReturns(c, s) => canvas'[c].step[s] = "done"
        BY <1>0, ReturnFields
      <4> QED
        BY <1>0, <1>9, <2>4, <4>1, StepStage DEF Working
    <3>2. ~IsTerminal /\ canvas[c].step[s] = "queued"
      <4>1. /\ ~StepFenced(c, s) /\ canvas[c].step[s] = "queued"
            /\ parent.status \notin {"FAILED", "CANCELLED"}
        BY <3>1 DEF StepClaims
      <4> QED
        BY <4>1, Unfenced DEF IsTerminal, Terminal
    <3>3. Ready(s)
      BY <1>3, <2>3, <3>2 DEF StepsAreReady
    <3>4. \A u \in Steps : WaveOf[u] < WaveOf[s] => u # s
      BY <1>0, PlaceTypes
    <3> QED
      BY <1>0, <2>1, <2>4, <3>1, <3>3, <3>4, ClaimRow, ReadyStays
      DEF Ready, SameRow, SameRun
  <2>5. CASE t # s
    <3>1. canvas'[c].step[s] = canvas[c].step[s]
      BY <1>0, <1>9, <2>5, StepStage, ClaimFields, ReturnFields
    <3>2. Ready(s) /\ WaveOf[s] = canvas[c].wave
      BY <1>3, <1>4, <2>2, <2>3, <3>1
      DEF StepsAreReady, Working, ProgressInv, Progress, CanvasFits, Chord
    <3>3. \A u \in Steps : WaveOf[u] < WaveOf[s] => u # t
      BY <1>0, <2>2, <3>2, PlaceTypes
    <3> QED
      BY <2>1, <2>5, <3>2, <3>3, ReadyStays DEF Ready, SameRow, SameRun
  <2> QED
    BY <2>4, <2>5
<1>10. canvas[c].stage = "wave" =>
         \A t \in Steps : canvas[c].step[t] \notin {"queued", "working"}
  BY WaveIsIdle
<1>11. CASE Callback(c)
  BY <1>0, <1>1, <1>7, <1>8, <1>9, <1>10, <1>11, ReachesWave
<1> QED
  BY <1>5, <1>11

\* A step succeeds in the directory it was given, and the row keeps it.
LEMMA PathNext ==
    ASSUME ProgressInv, StepsAreReady, SuccessHasPath, [Next]_vars
    PROVE  SuccessHasPath'
<1>0. TypeOK
  BY DEF ProgressInv, ExecutionInv
<1> SUFFICES ASSUME NEW s \in Steps, child'[s].status = "SUCCESS" PROVE child'[s].path
  BY DEF SuccessHasPath
<1>1. CASE child[s].status = "SUCCESS" /\ child'[s].path = child[s].path
  BY <1>1 DEF SuccessHasPath
<1>2. ASSUME NEW c \in Dispatchers, PrepareCommits(c)
      PROVE  child[s].status = "SUCCESS" /\ child'[s].path = child[s].path
  <2>1. child'[s] = [child[s] EXCEPT !.merge = "pending", !.base = {}, !.gen = canvas[c].gen]
        /\ child[s] \in Child
    BY <1>0, <1>2 DEF PrepareCommits, TypeOK
  <2> QED
    BY <2>1 DEF Child
<1>3. ASSUME NEW c \in Dispatchers, WaveCommits(c) PROVE child'[s].path
  BY <1>0, <1>3, WaveRow DEF SuccessHasPath, SameRow, SameRun
<1>4. ASSUME NEW c \in Dispatchers, Merges(c)
      PROVE  child[s].status = "SUCCESS" /\ child'[s].path = child[s].path
  BY <1>0, <1>4, MergeRow DEF Merges, SameRun
<1>5. ASSUME NEW c \in Dispatchers, StepSucceeds(c, s) PROVE child'[s].path
  <2>1. Current(c) /\ InGeneration(s) /\ Working(c, s)
    BY <1>5 DEF StepSucceeds, StepFenced, Current, InGeneration, Working
  <2> QED
    BY <1>0, <1>5, <2>1, SucceedsRow DEF StepsAreReady, Ready
<1>6. ASSUME NEW c \in Dispatchers, StepRefused(c, s) \/ StepClaims(c, s) \/ StepFails(c, s)
      PROVE  FALSE
  BY <1>0, <1>6, StepWrites
<1>7. ASSUME NEW d \in Dispatchers, RetryCommits(d)
      PROVE  child[s].status = "SUCCESS" /\ child'[s].path = child[s].path
  BY <1>0, <1>7, RetryRow
<1>8. ASSUME NEW k \in Cancellers, CancelCommits(k)
      PROVE  child[s].status = "SUCCESS" /\ child'[s].path = child[s].path
  BY <1>0, <1>8, CancelRow
<1> QED
  BY <1>0, <1>1, <1>2, <1>3, <1>4, <1>5, <1>6, <1>7, <1>8, RowWriters DEF WritesRow


-----------------------------------------------------------------------------
(* Git: the invariant, and what follows from it                            *)

LEMMA GitInit == Init => GitInv /\ CleanedUp
<1> SUFFICES ASSUME Init PROVE GitInv /\ CleanedUp
  OBVIOUS
<1>1. ProgressInv
  BY ProgressInit
<1>2. /\ parent.status = "RUNNING" /\ applied = {}
      /\ \A c \in Dispatchers : canvas[c].stage = "free" /\ \A s \in Steps : canvas[c].step[s] = "idle"
      /\ \A s \in Steps : child[s].status = "PENDING" /\ child[s].merge = "none" /\ child[s].commit = None
  BY DEF Init, NoCanvas, NewChild
<1> QED
  BY <1>1, <1>2
  DEF GitInv, CleanedUp, WaveIsRead, Live, StepsAreReady, Working, SuccessHasPath,
      CommitIsKnown, BranchIsKnown, BranchIsFolded, ConflictIsReal, Applied

LEMMA GitNext == GitInv /\ [Next]_vars /\ ProgressInv' => GitInv'
<1> SUFFICES ASSUME GitInv, [Next]_vars, ProgressInv' PROVE GitInv'
  OBVIOUS
<1>1. ProgressInv /\ TypeOK'
  BY DEF GitInv, ProgressInv, ExecutionInv
<1> QED
  BY <1>1, WaveReadNext, ReadyNext, PathNext, CommitKnownNext, BranchKnownNext,
     BranchFoldedNext, ConflictNext DEF GitInv

\* The invariant of the branch and the directories.
THEOREM GitCorrect == TimelySpec => []GitInv
<1>1. Init => GitInv
  BY GitInit
<1> QED
  BY <1>1, GitNext, ProgressCorrect, PTL DEF Spec, TimelySpec

\* A step runs only when every step of the waves before its own is folded in, and
\* its worktree starts from a commit that contains their commits: what prepare_wave
\* read before it took the lock is not stale when it writes.
THEOREM BaseContainsPredecessorsAlways == TimelySpec => []BaseContainsPredecessors
<1>1. GitInv => BaseContainsPredecessors
  BY DEF GitInv, StepsAreReady, Ready, BaseContainsPredecessors, WorkingNow, StepFenced,
     Current, InGeneration
<1> QED
  BY <1>1, GitCorrect, PTL

\* No cleanup of a cancellation, a merge or a finalizer removes the worktree a
\* current run is working in.
THEOREM WorktreeKeptAlways == TimelySpec => []WorktreeKept
<1>1. GitInv => WorktreeKept
  BY DEF GitInv, StepsAreReady, Ready, WorktreeKept, WorkingNow, StepFenced,
     Current, InGeneration
<1> QED
  BY <1>1, GitCorrect, PTL

\* merge_wave never takes a commit that the branch already has for a conflict,
\* whatever interrupted it and however often the step was retried.
THEOREM ConflictIsRealAlways == TimelySpec => []ConflictIsReal
<1>1. GitInv => ConflictIsReal
  BY DEF GitInv
<1> QED
  BY <1>1, GitCorrect, PTL

\* No callback registers a worktree once the execution is over.
LEMMA TerminalAddsNoTree ==
    ASSUME [Next]_vars, IsTerminal
    PROVE  trees' \subseteq trees
<1>1. ASSUME NEW c \in Dispatchers, Callback(c) PROVE trees' \subseteq trees
  <2>1. Barred(c) /\ ~Merging(c)
    BY DEF Barred, Merging
  <2> QED
    BY <1>1, <2>1
    DEF Callback, CallbackSkipped, PrepareReuses, PrepareReads,
      PrepareCommits, PrepareFails, WaveReads, WaveCommits, WaveFails, Step,
      StepSkips, StepRefused, StepClaims, StepDiscarded, StepSucceeds, StepFails,
      MergeRepeated, MergeFindsFailure, MergeSucceeds, MergeConflicts,
      MergeFails, FinalizeReturns, FinalizeReads, FinalizeCommits, FinalizeFails,
      FinalizeCleans, FinalizeCleanupFails
<1>2. ASSUME NEW d \in Dispatchers, Dispatch(d) \/ RetryCommits(d)
      PROVE  trees' = trees
  BY <1>2 DEF Dispatch, DispatchFindsQueued, DispatchBuilds, DispatchMismatches,
      DispatchPublishes, DispatchPublishFails, DispatchConfirms, RetryPersists,
      RetryCommits
<1>3. ASSUME NEW k \in Cancellers, CancelCommits(k) \/ Cancel(k)
      PROVE  trees' \subseteq trees
  BY <1>3 DEF CancelCommits, Cancel, CancelRevokes, CancelCleans,
      CancelCleanupFails, CancelReports
<1> QED
  BY <1>1, <1>2, <1>3 DEF Next, vars

LEMMA CleanedNext ==
    ASSUME GitInv, TypeOK', CleanedUp, "cleanup" \notin Faults, [Next]_vars
    PROVE  CleanedUp'
<1>0. /\ TypeOK /\ CanvasLifecycle /\ ProgressInv /\ SuccessHasPath
      /\ Alone /\ TargetsAreStale
  BY DEF GitInv, ProgressInv, ExecutionInv, WhoIsInCharge, RevokedAreStale
<1> SUFFICES ASSUME parent'.status = "SUCCESS"
             PROVE  \/ trees' \cap Steps = {}
                    \/ \E c \in Dispatchers : Live(c)' /\ canvas'[c].stage = "cleanup"
  BY DEF CleanedUp
<1>1. ASSUME NEW c \in Dispatchers, FinalizeCommits(c)
      PROVE  Live(c)' /\ canvas'[c].stage = "cleanup"
  <2>1. parent'.gen = parent.gen /\ Current(c)
    BY <1>0, <1>1 DEF FinalizeCommits, Barred, TypeOK, Parent
  <2> QED
    BY <1>0, <1>1, <2>1, FinishFields DEF Live, Current
<1>2. CASE \A c \in Dispatchers : ~FinalizeCommits(c)
  <2>1. /\ parent.status = "SUCCESS" /\ IsTerminal /\ parent'.gen = parent.gen
    <3>1. SameParent \/ OpenedParent
      BY <1>0, <1>2, NextParent
      DEF ParentMoves, FailedParent, PreparedParent, FinishedParent, CancelledParent,
          RetriedParent
    <3>2. ~OpenedParent
      <4>1. PICK s \in Steps : TRUE
        BY PlanAssumption DEF Steps
      <4> QED
        BY <1>0, <4>1 DEF OpenedParent, ProgressInv, Progress, RowFits, Unprepared
    <3> QED
      BY <3>1, <3>2 DEF SameParent, IsTerminal, Terminal
  <2>2. trees' \subseteq trees
    BY <2>1, TerminalAddsNoTree
  <2>3. ASSUME NEW c \in Dispatchers, Live(c), canvas[c].stage = "cleanup"
        PROVE  trees' \cap Steps = {} \/ (Live(c)' /\ canvas'[c].stage = "cleanup")
    <3>1. Live(c)'
      BY <1>0, <2>1, <2>3, StagesStay, NextKeeps DEF Live, Current, Keeps
    <3>2. CASE Callback(c)
      <4>1. ~\E s \in Steps : Step(c, s)
        <5>1. ASSUME NEW s \in Steps, Step(c, s) PROVE FALSE
          BY <2>3, <5>1
          DEF ProgressInv, Progress, CanvasFits, Chord, Step, StepSkips, StepRefused,
              StepClaims, StepDiscarded, StepSucceeds, StepFails, GitInv
        <5> QED
          BY <5>1
      <4>2. FinalizeCleans(c)
        BY <2>3, <3>2, <4>1
        DEF Callback, CallbackSkipped, PrepareReuses, PrepareReads,
            PrepareCommits, PrepareFails, WaveReads, WaveCommits, WaveFails,
            MergeRepeated, MergeFindsFailure, MergeSucceeds, MergeConflicts,
            MergeFails, Merging, FinalizeReturns, FinalizeReads, FinalizeCommits,
            FinalizeFails, FinalizeCleanupFails
      <4>3. trees' = trees \ Leftovers
        BY <2>1, <2>3, <4>2 DEF FinalizeCleans, Cleanable, Live
      <4>4. \A s \in Steps : child[s].path
        BY <1>0, <2>1 DEF ProgressInv, Progress, RowFits, Finished, SuccessHasPath
      <4> QED
        BY <4>3, <4>4 DEF Leftovers
    <3>3. CASE ~Callback(c)
      <4>1. canvas'[c] = canvas[c]
        <5>1. canvas'[c] = canvas[c] \/ DispatchPublishes(c)
          BY <1>0, <2>3, <3>1, <3>3, OneActor DEF Live
        <5> QED
          BY <2>3, <5>1 DEF DispatchPublishes, Publish
      <4> QED
        BY <2>3, <3>1, <4>1
    <3> QED
      BY <3>2, <3>3
  <2> QED
    BY <2>1, <2>2, <2>3 DEF CleanedUp
<1> QED
  BY <1>1, <1>2

\* When a successful execution is over, no step worktree is left behind, unless the
\* finalizer's cleanup itself failed.
THEOREM NoWorktreeLeftAlways ==
    ASSUME "cleanup" \notin Faults
    PROVE  TimelySpec => []NoWorktreeLeft
<1>1. GitInv /\ GitInv' /\ CleanedUp /\ [Next]_vars => CleanedUp'
  BY CleanedNext DEF GitInv, ProgressInv, ExecutionInv
<1>2. Init => CleanedUp
  BY GitInit
<1>3. CleanedUp => NoWorktreeLeft
  BY DEF CleanedUp, NoWorktreeLeft
<1> QED
  BY <1>1, <1>2, <1>3, GitCorrect, PTL DEF Spec, TimelySpec
=============================================================================

---------------------- MODULE OrchestratorRecovery_proofs ----------------------
(***************************************************************************)
(* Theorems about an execution whose workers are lost and killed, whose    *)
(* messages are delivered again, and which is reconciled and cleaned up    *)
(* while it runs: what survives every such interference, what needs that   *)
(* no reconcile writes what is out of date and no cleanup removes a branch *)
(* in use, and what a run's directory depends on.                          *)
(***************************************************************************)
EXTENDS RecoveryInvariants, ExecutionProgress_proofs

-----------------------------------------------------------------------------
(* What an interference does                                               *)

\* Everything but the execution's own steps and the reads of a reconcile or of a
\* cleanup.
Interferes ==
    \/ \E d \in Dispatchers :
          \/ PrepareLost(d) \/ MergeLost(d) \/ FinalizeLost(d) \/ RetryLost(d)
          \/ \E s \in Steps : StepLost(d, s)
    \/ \E r \in Reconcilers : ReconcileRepairs(r)
    \/ \E x \in Cleaners : CleanupRemoves(x)

LEMMA RecoverySteps ==
    ASSUME [RecoveryNext]_allVars
    PROVE  [Next]_vars \/ Interferes
BY DEF RecoveryNext, Loss, Repair, ReconcileReads, CleanupReads, Interferes, allVars, vars

\* A loss takes canvas c back, or ends it.
Ebbs(c) ==
    /\ canvas'[c].gen = canvas[c].gen /\ canvas'[c].ids = canvas[c].ids
    /\ canvas'[c].wave = canvas[c].wave
    /\ \/ canvas'[c].stage = canvas[c].stage
       \/ /\ canvas[c].stage \in {"prepare", "wave", "merge", "finalize", "cleanup"}
          /\ canvas'[c].stage = "revoked"
       \/ canvas[c].stage = "cleanup" /\ canvas'[c].stage = "finalize" /\ ~canvas'[c].busy
    /\ canvas'[c].busy => canvas[c].busy
    /\ canvas'[c].busy /\ canvas'[c].stage = "wave" => canvas'[c].todo = canvas[c].todo
    /\ \A s \in Steps :
          \/ canvas'[c].step[s] = canvas[c].step[s]
          \/ /\ canvas[c].stage = "steps" /\ canvas[c].step[s] = "working"
             /\ canvas'[c].step[s] \in {"queued", "idle"}

LEMMA StaysEbbs ==
    ASSUME NEW c, canvas'[c] = canvas[c]
    PROVE  Ebbs(c)
BY DEF Ebbs

LEMMA RedeliveredFields ==
    ASSUME NEW r \in Canvas
    PROVE  /\ Redelivered(r) \in Canvas /\ Dropped(r) \in Canvas
           /\ Redelivered(r).gen = r.gen /\ Redelivered(r).ids = r.ids
           /\ Redelivered(r).wave = r.wave /\ Redelivered(r).stage = r.stage
           /\ Redelivered(r).step = r.step /\ ~Redelivered(r).busy
           /\ Dropped(r).gen = r.gen /\ Dropped(r).ids = r.ids
           /\ Dropped(r).wave = r.wave /\ Dropped(r).stage = "revoked"
           /\ Dropped(r).step = r.step /\ ~Dropped(r).busy
BY DEF Redelivered, Dropped, Canvas

LEMMA InterruptEbbs ==
    ASSUME TypeOK, NEW c \in Dispatchers, Interrupt(c),
           canvas[c].stage \in {"prepare", "wave", "merge"}
    PROVE  /\ canvas' \in [Dispatchers -> Canvas]
           /\ \A d \in Dispatchers : Ebbs(d)
<1>1. canvas[c] \in Canvas
  BY DEF TypeOK
<1>2. /\ canvas' \in [Dispatchers -> Canvas]
      /\ canvas'[c] \in {Redelivered(canvas[c]), Dropped(canvas[c])}
      /\ \A d \in Dispatchers \ {c} : canvas'[d] = canvas[d]
  BY <1>1, RedeliveredFields DEF Interrupt, TypeOK
<1>3. Ebbs(c)
  BY <1>1, <1>2, RedeliveredFields DEF Ebbs
<1> QED
  BY <1>2, <1>3, StaysEbbs

LEMMA FinalizeLostEbbs ==
    ASSUME TypeOK, NEW c \in Dispatchers, FinalizeLost(c)
    PROVE  /\ canvas' \in [Dispatchers -> Canvas]
           /\ \A d \in Dispatchers : Ebbs(d)
<1>1. canvas[c] \in Canvas /\ canvas \in [Dispatchers -> Canvas]
  BY DEF TypeOK
<1> DEFINE again == [canvas[c] EXCEPT !.stage = "finalize", !.busy = FALSE]
<1>2. /\ again \in Canvas /\ again.gen = canvas[c].gen /\ again.ids = canvas[c].ids
      /\ again.wave = canvas[c].wave /\ again.stage = "finalize" /\ ~again.busy
      /\ again.step = canvas[c].step
  BY <1>1 DEF Canvas
<1>3. /\ canvas[c].stage \in {"finalize", "cleanup"}
      /\ \/ canvas' = [canvas EXCEPT ![c] = again]
         \/ canvas' = [canvas EXCEPT ![c] = Dropped(@)]
  BY DEF FinalizeLost
<1> HIDE DEF again
<1>4. /\ canvas' \in [Dispatchers -> Canvas] /\ canvas'[c] \in {again, Dropped(canvas[c])}
      /\ \A d \in Dispatchers \ {c} : canvas'[d] = canvas[d]
  BY <1>1, <1>2, <1>3, RedeliveredFields
<1>5. Ebbs(c)
  BY <1>1, <1>2, <1>3, <1>4, RedeliveredFields DEF Ebbs
<1> QED
  BY <1>4, <1>5, StaysEbbs

\* A lost run: its message is delivered again or gone, its row is as it was or
\* tells of a success.
LEMMA StepLostEbbs ==
    ASSUME TypeOK, NEW c \in Dispatchers, NEW s \in Steps, StepLost(c, s)
    PROVE  /\ canvas' \in [Dispatchers -> Canvas]
           /\ \A d \in Dispatchers : Ebbs(d)
           /\ ~Working(c, s)'
<1>1. canvas[c] \in Canvas /\ canvas \in [Dispatchers -> Canvas]
  BY DEF TypeOK
<1>2. PICK next \in {"queued", "idle"} : canvas' = [canvas EXCEPT ![c].step[s] = next]
  BY DEF StepLost
<1>3. [canvas[c].step EXCEPT ![s] = next] \in [Steps -> {"idle", "queued", "working", "done"}]
  BY <1>1 DEF Canvas
<1> DEFINE r == [canvas[c] EXCEPT !.step[s] = next]
<1>4. /\ r \in Canvas /\ r.gen = canvas[c].gen /\ r.ids = canvas[c].ids
      /\ r.wave = canvas[c].wave /\ r.stage = canvas[c].stage /\ r.busy = canvas[c].busy
      /\ r.todo = canvas[c].todo /\ r.step = [canvas[c].step EXCEPT ![s] = next]
  BY <1>1, <1>3 DEF Canvas
<1>5. /\ r.step[s] = next
      /\ \A t \in Steps \ {s} : r.step[t] = canvas[c].step[t]
  BY <1>1, <1>4 DEF Canvas
<1>6. canvas' = [canvas EXCEPT ![c] = r]
  BY <1>2
<1> HIDE DEF r
<1>7. /\ canvas' \in [Dispatchers -> Canvas] /\ canvas'[c] = r
      /\ \A d \in Dispatchers \ {c} : canvas'[d] = canvas[d]
  BY <1>1, <1>4, <1>6
<1>8. Ebbs(c)
  BY <1>4, <1>5, <1>7 DEF Ebbs, StepLost
<1> QED
  BY <1>5, <1>7, <1>8, StaysEbbs DEF Working

\* A success that Celery did not hear of.
Orphans(c, s) ==
    /\ StepLost(c, s) /\ ~StepFenced(c, s) /\ parent.status # "CANCELLED"
    /\ s \in trees
    /\ child'[s].status = "SUCCESS" /\ child'[s].gen = child[s].gen
    /\ child'[s].claim = child[s].claim /\ child'[s].path = child[s].path
    /\ child'[s].commit \in {c, None} /\ child'[s].merge \in {"ready", "skipped"}

\* What a reconcile may write to the row of step s: a merge status, and that it
\* has a path.
Repaired(s) ==
    /\ SameRun(s) /\ (child[s].path => child'[s].path)
    /\ child'[s].merge \in {child[s].merge, "merged", "ready"}

LEMMA StepLostRow ==
    ASSUME TypeOK, NEW c \in Dispatchers, NEW s \in Steps, StepLost(c, s)
    PROVE  /\ child' \in [Steps -> Child]
           /\ \A t \in Steps \ {s} : child'[t] = child[t]
           /\ child'[s] = child[s] \/ Orphans(c, s)
<1>1. child[s] \in Child /\ child \in [Steps -> Child]
  BY DEF TypeOK
<1>2. CASE UNCHANGED child
  BY <1>1, <1>2
<1>3. CASE ~UNCHANGED child
  <2>1. PICK changed \in BOOLEAN :
          child' = [child EXCEPT ![s].status = "SUCCESS",
                                 ![s].commit = IF changed THEN c ELSE None,
                                 ![s].merge = IF changed THEN "ready" ELSE "skipped"]
    BY <1>3 DEF StepLost
  <2>2. ~StepFenced(c, s) /\ parent.status # "CANCELLED" /\ s \in trees
    BY <1>3 DEF StepLost
  <2> DEFINE commit == IF changed THEN c ELSE None
             merge == IF changed THEN "ready" ELSE "skipped"
             row == [child[s] EXCEPT !.status = "SUCCESS", !.commit = commit,
                                     !.merge = merge]
  <2>3. child' = [child EXCEPT ![s] = row]
    BY <2>1
  <2>4. commit \in {c, None} /\ merge \in {"ready", "skipped"}
    OBVIOUS
  <2> HIDE DEF commit, merge
  <2>5. /\ row \in Child /\ row.status = "SUCCESS" /\ row.gen = child[s].gen
        /\ row.claim = child[s].claim /\ row.path = child[s].path
        /\ row.commit = commit /\ row.merge = merge
    BY <1>1, <2>4 DEF Child, Status, MergeStatus, Maybe
  <2> HIDE DEF row
  <2>6. /\ child' \in [Steps -> Child] /\ child'[s] = row
        /\ \A t \in Steps \ {s} : child'[t] = child[t]
    BY <1>1, <2>3, <2>5
  <2> QED
    BY <2>2, <2>4, <2>5, <2>6 DEF Orphans
<1> QED
  BY <1>2, <1>3

LEMMA ReconcileRow ==
    ASSUME TypeOK, NEW r \in Reconcilers, ReconcileRepairs(r)
    PROVE  /\ child' \in [Steps -> Child] /\ trees' \subseteq Trees
           /\ trees \subseteq trees'
           /\ \A s \in Steps :
                /\ Repaired(s)
                /\ child'[s].merge = "merged" =>
                     \/ child[s].merge = "merged"
                     \/ <<s, reconciler[r].child[s].commit>> \in applied
           /\ UNCHANGED <<parent, canvas, disp, canceller, applied, codeChanges, losses,
                          cleaner>>
<1> DEFINE old == reconciler[r].parent
           rows == reconciler[r].child
<1>1. PICK k \in 1..(NumSteps + 1),
           ancestors \in SUBSET {s \in Steps : <<s, rows[s].commit>> \in applied} :
        LET done == {s \in Steps : s < k}
            recreated == Missing(old, rows) \cap done
        IN  /\ trees' = trees \cup recreated \cup
                        (IF old.integ THEN {Integration} ELSE {})
            /\ child' = [s \in Steps |->
                  IF s \notin done THEN child[s]
                  ELSE [Reconciled(s, rows[s], s \in ancestors) EXCEPT
                          !.path = IF s \in recreated THEN TRUE ELSE @]]
  BY DEF ReconcileRepairs
<1> DEFINE done == {s \in Steps : s < k}
           recreated == Missing(old, rows) \cap done
           base(s) == Reconciled(s, rows[s], s \in ancestors)
           row(s) == [base(s) EXCEPT !.path = IF s \in recreated THEN TRUE ELSE @]
<1>2. ASSUME NEW s \in Steps
      PROVE  /\ base(s) \in Child
             /\ base(s).status = child[s].status /\ base(s).gen = child[s].gen
             /\ base(s).claim = child[s].claim /\ base(s).commit = child[s].commit
             /\ base(s).path = child[s].path
             /\ base(s).merge \in {child[s].merge, "merged", "ready"}
             /\ base(s).merge = "merged" => child[s].merge = "merged" \/ s \in ancestors
  <2>1. child[s] \in Child
    BY DEF TypeOK
  <2>2. \/ base(s) = child[s]
        \/ base(s) = [child[s] EXCEPT !.merge = "merged"] /\ s \in ancestors
        \/ base(s) = [child[s] EXCEPT !.merge = "ready"]
    BY DEF Reconciled
  <2> HIDE DEF base
  <2> QED
    BY <2>1, <2>2 DEF Child, MergeStatus
<1> HIDE DEF base
<1>3. ASSUME NEW s \in Steps
      PROVE  /\ row(s) \in Child
             /\ row(s).status = child[s].status /\ row(s).gen = child[s].gen
             /\ row(s).claim = child[s].claim /\ row(s).commit = child[s].commit
             /\ child[s].path => row(s).path
             /\ row(s).merge = base(s).merge
  <2> DEFINE path == IF s \in recreated THEN TRUE ELSE base(s).path
  <2>1. row(s) = [base(s) EXCEPT !.path = path]
    BY <1>2 DEF Child
  <2>2. path \in BOOLEAN /\ (child[s].path => path)
    BY <1>2 DEF Child
  <2> HIDE DEF path, row
  <2> QED
    BY <1>2, <2>1, <2>2 DEF Child
<1>4. /\ child' = [s \in Steps |-> IF s \notin done THEN child[s] ELSE row(s)]
      /\ trees' = trees \cup recreated \cup (IF old.integ THEN {Integration} ELSE {})
  BY <1>1 DEF base
<1>5. recreated \subseteq Steps
  BY DEF Missing
<1> HIDE DEF row, recreated, done
<1>6. /\ child' \in [Steps -> Child] /\ trees' \subseteq Trees /\ trees \subseteq trees'
  BY <1>3, <1>4, <1>5 DEF TypeOK, Trees
<1>7. ASSUME NEW s \in Steps
      PROVE  /\ Repaired(s)
             /\ child'[s].merge = "merged" =>
                  child[s].merge = "merged" \/ <<s, rows[s].commit>> \in applied
  BY <1>2, <1>3, <1>4 DEF Repaired, SameRun
<1> QED
  BY <1>6, <1>7 DEF ReconcileRepairs

\* What any interference leaves alone.
LEMMA InterferesFields ==
    ASSUME TypeOK, Interferes
    PROVE  /\ UNCHANGED <<parent, canceller, codeChanges>>
           /\ canvas' \in [Dispatchers -> Canvas] /\ \A c \in Dispatchers : Ebbs(c)
           /\ disp' \in [Dispatchers -> Dispatcher]
           /\ \A d \in Dispatchers :
                /\ disp'[d].gen = disp[d].gen /\ disp'[d].start = disp[d].start
                /\ disp'[d].pc \in {disp[d].pc, "done"}
           /\ child' \in [Steps -> Child]
           /\ \A s \in Steps :
                \/ child'[s] = child[s]
                \/ \E c \in Dispatchers : Orphans(c, s)
                \/ Repaired(s)
<1>0. /\ canvas \in [Dispatchers -> Canvas] /\ disp \in [Dispatchers -> Dispatcher]
      /\ child \in [Steps -> Child]
  BY DEF TypeOK
<1>1. ASSUME NEW c \in Dispatchers, PrepareLost(c) \/ MergeLost(c)
      PROVE  /\ UNCHANGED <<parent, canceller, codeChanges, child, disp>>
             /\ canvas' \in [Dispatchers -> Canvas]
             /\ \A d \in Dispatchers : Ebbs(d)
  <2>1. Interrupt(c) /\ canvas[c].stage \in {"prepare", "wave", "merge"}
    BY <1>1 DEF PrepareLost, MergeLost, Merging
  <2> QED
    BY <1>1, <2>1, InterruptEbbs DEF PrepareLost, MergeLost
<1>2. ASSUME NEW c \in Dispatchers, FinalizeLost(c)
      PROVE  /\ UNCHANGED <<parent, canceller, codeChanges, child, disp>>
             /\ canvas' \in [Dispatchers -> Canvas]
             /\ \A d \in Dispatchers : Ebbs(d)
  BY <1>2, FinalizeLostEbbs DEF FinalizeLost
<1>3. ASSUME NEW c \in Dispatchers, RetryLost(c)
      PROVE  /\ UNCHANGED <<parent, canceller, codeChanges, child, canvas>>
             /\ disp' \in [Dispatchers -> Dispatcher]
             /\ \A d \in Dispatchers :
                  /\ disp'[d].gen = disp[d].gen /\ disp'[d].start = disp[d].start
                  /\ disp'[d].pc \in {disp[d].pc, "done"}
  BY <1>0, <1>3 DEF RetryLost, Dispatcher
<1>4. ASSUME NEW c \in Dispatchers, NEW s \in Steps, StepLost(c, s)
      PROVE  /\ UNCHANGED <<parent, canceller, codeChanges, disp>>
             /\ canvas' \in [Dispatchers -> Canvas]
             /\ \A d \in Dispatchers : Ebbs(d)
             /\ child' \in [Steps -> Child]
             /\ \A t \in Steps :
                  child'[t] = child[t] \/ \E d \in Dispatchers : Orphans(d, t)
  <2>1. UNCHANGED <<parent, canceller, codeChanges, disp>>
    BY <1>4 DEF StepLost
  <2>2. canvas' \in [Dispatchers -> Canvas] /\ \A d \in Dispatchers : Ebbs(d)
    BY <1>4, StepLostEbbs
  <2>3. /\ child' \in [Steps -> Child]
        /\ \A t \in Steps \ {s} : child'[t] = child[t]
        /\ child'[s] = child[s] \/ Orphans(c, s)
    BY <1>4, StepLostRow
  <2> QED
    BY <2>1, <2>2, <2>3
<1>5. ASSUME NEW r \in Reconcilers, ReconcileRepairs(r)
      PROVE  /\ UNCHANGED <<parent, canceller, codeChanges, disp, canvas>>
             /\ child' \in [Steps -> Child] /\ \A s \in Steps : Repaired(s)
  BY <1>5, ReconcileRow
<1>6. ASSUME NEW x \in Cleaners, CleanupRemoves(x)
      PROVE  UNCHANGED <<parent, canceller, codeChanges, disp, canvas, child>>
  BY <1>6 DEF CleanupRemoves
<1>7. UNCHANGED canvas => \A d \in Dispatchers : Ebbs(d)
  BY StaysEbbs
<1> QED
  BY <1>0, <1>1, <1>2, <1>3, <1>4, <1>5, <1>6, <1>7 DEF Interferes

-----------------------------------------------------------------------------
(* Types                                                                   *)

LEMMA PicksOf ==
    ASSUME TypeOK, NEW c \in Dispatchers, MergeLost(c)
    PROVE  /\ applied \subseteq applied' /\ applied' \subseteq Commits
           /\ trees' \subseteq trees
           /\ \A s \in Steps : s \in trees /\ s \notin trees' => WaveOf[s] = canvas[c].wave
<1>1. PICK k \in Pending(c), removed \in BOOLEAN :
        LET before == {s \in Pending(c) : s < k}
            picked == before \cup {k}
        IN  /\ applied' = applied \cup Picks(picked)
            /\ trees' = IF removed THEN trees \ picked ELSE trees \ before
  BY DEF MergeLost
<1>2. Pending(c) \subseteq WaveSteps(canvas[c].wave) /\ WaveSteps(canvas[c].wave) \subseteq Steps
  BY DEF Pending, WaveSteps
<1>3. PICK picked \in SUBSET Pending(c), gone \in SUBSET Pending(c) :
        applied' = applied \cup Picks(picked) /\ trees' = trees \ gone
  BY <1>1
<1>4. Picks(picked) \subseteq Commits
  BY <1>2, <1>3, PicksType
<1> QED
  BY <1>2, <1>3, <1>4 DEF TypeOK, WaveSteps

LEMMA InterferesTypes ==
    ASSUME RecoveryTypeOK, RecoveryNext, Interferes
    PROVE  TypeOK'
<1>0. TypeOK
  BY DEF RecoveryTypeOK
<1>1. applied' \subseteq Commits /\ trees' \subseteq Trees
  <2>0. applied \subseteq Commits /\ trees \subseteq Trees
    BY <1>0 DEF TypeOK
  <2>1. ASSUME NEW c \in Dispatchers, PrepareLost(c) PROVE trees' \subseteq Trees
    <3>1. canvas[c].todo \subseteq Steps
      BY <1>0 DEF TypeOK, Canvas
    <3> QED
      BY <2>0, <2>1, <3>1 DEF PrepareLost, Trees
  <2>2. ASSUME NEW c \in Dispatchers, FinalizeLost(c) PROVE trees' \subseteq Trees
    BY <2>0, <2>2 DEF FinalizeLost
  <2>3. ASSUME NEW c \in Dispatchers, MergeLost(c)
        PROVE  applied' \subseteq Commits /\ trees' \subseteq Trees
    BY <1>0, <2>0, <2>3, PicksOf
  <2>4. ASSUME NEW r \in Reconcilers, ReconcileRepairs(r)
        PROVE  applied' \subseteq Commits /\ trees' \subseteq Trees
    BY <1>0, <2>0, <2>4, ReconcileRow
  <2>5. ASSUME NEW x \in Cleaners, CleanupRemoves(x)
        PROVE  applied' \subseteq Commits /\ trees' \subseteq Trees
    BY <2>0, <2>5 DEF CleanupRemoves
  <2> QED
    BY <2>0, <2>1, <2>2, <2>3, <2>4, <2>5
    DEF Interferes, PrepareLost, FinalizeLost, RetryLost, StepLost
<1> QED
  BY <1>0, <1>1, InterferesFields DEF TypeOK

\* The extension's own variables.
LEMMA ExtrasTypes ==
    ASSUME RecoveryTypeOK, [RecoveryNext]_allVars
    PROVE  /\ losses' \in 0..MaxLosses
           /\ reconciler' \in [Reconcilers -> Snapshot]
           /\ cleaner' \in [Cleaners -> Cleanup]
<1>0. /\ losses \in 0..MaxLosses /\ reconciler \in [Reconcilers -> Snapshot]
      /\ cleaner \in [Cleaners -> Cleanup]
      /\ parent \in Parent /\ child \in [Steps -> Child]
  BY DEF RecoveryTypeOK, TypeOK
<1>1. CASE Lose /\ UNCHANGED <<reconciler, cleaner>>
  BY <1>0, <1>1, LossAssumption DEF Lose
<1>2. Loss => Lose
  BY DEF Loss, PrepareLost, MergeLost, FinalizeLost, RetryLost, StepLost
<1>3. ASSUME NEW r \in Reconcilers, ReconcileReads(r)
      PROVE  reconciler' \in [Reconcilers -> Snapshot] /\ UNCHANGED <<losses, cleaner>>
  <2>1. [pc |-> "repair", parent |-> parent, child |-> child] \in Snapshot
    BY <1>0 DEF Snapshot
  <2> QED
    BY <1>0, <1>3, <2>1 DEF ReconcileReads
<1>4. ASSUME NEW r \in Reconcilers, ReconcileRepairs(r)
      PROVE  reconciler' \in [Reconcilers -> Snapshot] /\ UNCHANGED <<losses, cleaner>>
  <2>1. PICK p \in {"done", "failed"} : reconciler' = [reconciler EXCEPT ![r].pc = p]
    BY <1>4 DEF ReconcileRepairs
  <2>2. [reconciler[r] EXCEPT !.pc = p] \in Snapshot
    BY <1>0 DEF Snapshot
  <2> QED
    BY <1>0, <1>4, <2>1, <2>2 DEF ReconcileRepairs
<1>5. ASSUME NEW x \in Cleaners, CleanupReads(x)
      PROVE  cleaner' \in [Cleaners -> Cleanup] /\ UNCHANGED <<losses, reconciler>>
  <2>1. PICK force \in BOOLEAN :
          cleaner' = [cleaner EXCEPT ![x] = [pc |-> "remove", force |-> force,
                                             integ |-> parent.integ,
                                             change |-> parent.change,
                                             gen |-> parent.gen, took |-> {}]]
    BY <1>5 DEF CleanupReads
  <2>2. [pc |-> "remove", force |-> force, integ |-> parent.integ,
         change |-> parent.change, gen |-> parent.gen, took |-> {}] \in Cleanup
    BY <1>0 DEF Cleanup, Parent
  <2> QED
    BY <1>0, <1>5, <2>1, <2>2 DEF CleanupReads
<1>6. ASSUME NEW x \in Cleaners, CleanupRemoves(x)
      PROVE  cleaner' \in [Cleaners -> Cleanup] /\ UNCHANGED <<losses, reconciler>>
  <2> DEFINE took == IF Overtaken(x) THEN Leftovers ELSE {}
  <2>1. took \subseteq Steps
    BY DEF Leftovers
  <2>2. cleaner' = [cleaner EXCEPT ![x].pc = "done", ![x].took = took]
    BY <1>6 DEF CleanupRemoves
  <2> HIDE DEF took
  <2>3. [cleaner[x] EXCEPT !.pc = "done", !.took = took] \in Cleanup
    BY <1>0, <2>1 DEF Cleanup
  <2> QED
    BY <1>0, <1>6, <2>2, <2>3 DEF CleanupRemoves
<1>7. CASE UNCHANGED extras
  BY <1>0, <1>7 DEF extras
<1> QED
  BY <1>0, <1>1, <1>2, <1>3, <1>4, <1>5, <1>6, <1>7 DEF RecoveryNext, Repair, allVars

LEMMA RecoveryTypeNext ==
    ASSUME RecoveryTypeOK, [RecoveryNext]_allVars
    PROVE  RecoveryTypeOK'
<1>1. TypeOK
  BY DEF RecoveryTypeOK
<1>2. TypeOK'
  <2>1. CASE [Next]_vars
    BY <1>1, <2>1, TypeNext
  <2>2. CASE Interferes /\ RecoveryNext
    BY <2>2, InterferesTypes
  <2>3. CASE UNCHANGED allVars
    BY <2>1, <2>3 DEF allVars
  <2> QED
    BY <2>1, <2>2, <2>3, RecoverySteps
<1> QED
  BY <1>2, ExtrasTypes DEF RecoveryTypeOK

-----------------------------------------------------------------------------
(* What every interference leaves right                                    *)

LEMMA LifecycleEbbs ==
    ASSUME TypeOK, CanvasLifecycle, Interferes
    PROVE  CanvasLifecycle'
<1> SUFFICES ASSUME NEW c \in Dispatchers
             PROVE  /\ canvas'[c].gen <= parent'.gen
                    /\ canvas'[c].stage # "free" => canvas'[c].gen > 0
                    /\ disp'[c].pc \in {"idle", "build"} => canvas'[c].stage = "free"
                    /\ canvas'[c].stage \in {"free", "built"} =>
                          /\ ~canvas'[c].busy
                          /\ \A s \in Steps : canvas'[c].step[s] # "working"
                    /\ canvas'[c].stage \in {"steps", "merge"} => ~canvas'[c].busy
  BY DEF CanvasLifecycle, Working
<1>1. /\ Ebbs(c) /\ UNCHANGED parent /\ disp'[c].pc \in {disp[c].pc, "done"}
  BY InterferesFields
<1>2. /\ canvas[c].gen <= parent.gen
      /\ canvas[c].stage # "free" => canvas[c].gen > 0
      /\ disp[c].pc \in {"idle", "build"} => canvas[c].stage = "free"
      /\ canvas[c].stage \in {"free", "built"} =>
            ~canvas[c].busy /\ \A s \in Steps : canvas[c].step[s] # "working"
      /\ canvas[c].stage \in {"steps", "merge"} => ~canvas[c].busy
  BY DEF CanvasLifecycle, Working
<1> QED
  BY <1>1, <1>2 DEF Ebbs

LEMMA ClaimEbbs ==
    ASSUME TypeOK, CanvasLifecycle, ClaimHeld, Interferes
    PROVE  ClaimHeld'
<1> SUFFICES ASSUME NEW c \in Dispatchers, NEW s \in Steps,
                    Working(c, s)', Current(c)'
             PROVE  /\ child'[s].gen = canvas'[c].gen
                    /\ child'[s].claim = c
                    /\ child'[s].commit = None
                    /\ parent'.status \notin {"FAILED", "CANCELLED"} =>
                          child'[s].status = "RUNNING"
  BY DEF ClaimHeld
<1>1. /\ UNCHANGED parent /\ Ebbs(c)
  BY InterferesFields
<1>2. Working(c, s) /\ Current(c) /\ canvas'[c].gen = canvas[c].gen
  BY <1>1 DEF Ebbs, Working, Current
<1>3. /\ child[s].gen = canvas[c].gen /\ child[s].claim = c /\ child[s].commit = None
      /\ parent.status \notin {"FAILED", "CANCELLED"} => child[s].status = "RUNNING"
  BY <1>2 DEF ClaimHeld
<1>4. CASE child'[s] = child[s] \/ Repaired(s)
  BY <1>1, <1>2, <1>3, <1>4 DEF Repaired, SameRun
<1>5. ASSUME NEW d \in Dispatchers, Orphans(d, s) PROVE FALSE
  <2>1. Working(d, s) /\ Current(d) /\ ~Working(d, s)'
    BY <1>5, StepLostEbbs DEF Orphans, StepLost, StepFenced, Working
  <2>2. child[s].claim = d
    BY <2>1 DEF ClaimHeld
  <2> QED
    BY <1>3, <2>1, <2>2
<1> QED
  BY <1>4, <1>5, InterferesFields

LEMMA RecoveryInvInit == RecoveryInit => RecoveryInv
<1> SUFFICES ASSUME RecoveryInit PROVE RecoveryInv
  OBVIOUS
<1>1. ExecutionInv
  BY InvInit DEF RecoveryInit
<1>2. /\ parent \in Parent /\ child \in [Steps -> Child]
  BY <1>1 DEF ExecutionInv, TypeOK
<1>3. RecoveryTypeOK
  BY <1>1, <1>2, LossAssumption
  DEF RecoveryInit, RecoveryTypeOK, ExecutionInv, Snapshot, Cleanup
<1> QED
  BY <1>1, <1>3 DEF RecoveryInv, ExecutionInv

LEMMA RecoveryInvNext ==
    ASSUME RecoveryInv, [RecoveryNext]_allVars
    PROVE  RecoveryInv'
<1>1. /\ RecoveryTypeOK /\ TypeOK /\ CanvasLifecycle
      /\ OneCodeChange /\ ChangesFit /\ FinalizerIsRight
      /\ ClaimHeld /\ CommitIsSuccess
  BY DEF RecoveryInv, RecoveryTypeOK
<1>2. RecoveryTypeOK' /\ TypeOK'
  BY <1>1, RecoveryTypeNext DEF RecoveryTypeOK
<1>3. CASE [Next]_vars
  <2>1. CanvasLifecycle' /\ OneCodeChange' /\ ChangesFit' /\ FinalizerIsRight'
    BY <1>1, <1>2, <1>3, LifecycleNext, CodeChangeNext, FinalizerNext
  <2>2. ClaimHeld' /\ CommitIsSuccess'
    BY <1>1, <1>2, <1>3, ClaimNext, CommitSuccessNext
  <2> QED
    BY <1>2, <2>1, <2>2 DEF RecoveryInv
<1>4. CASE Interferes
  <2>1. CanvasLifecycle' /\ ClaimHeld'
    BY <1>1, <1>4, LifecycleEbbs, ClaimEbbs
  <2>2. OneCodeChange' /\ ChangesFit'
    BY <1>1, <1>4, InterferesFields DEF OneCodeChange, ChangesFit, IsTerminal
  <2>3. FinalizerIsRight'
    <3> SUFFICES ASSUME NEW c \in Dispatchers, canvas'[c].stage = "finalize",
                        canvas'[c].busy, ~Barred(c)'
                 PROVE  ~parent'.change
      BY DEF FinalizerIsRight
    <3>1. Ebbs(c) /\ UNCHANGED parent
      BY <1>1, <1>4, InterferesFields
    <3> QED
      BY <1>1, <3>1 DEF Ebbs, FinalizerIsRight, Barred, Current, IsTerminal
  <2>4. CommitIsSuccess'
    BY <1>1, <1>4, InterferesFields DEF CommitIsSuccess, Orphans, Repaired, SameRun
  <2> QED
    BY <1>2, <2>1, <2>2, <2>3, <2>4 DEF RecoveryInv
<1> QED
  BY <1>3, <1>4, RecoverySteps

\* Rows, canvases, requests and what a reconcile and a cleanup remember keep their
\* types, and what is left of the invariant of the execution holds, however many
\* workers are lost and whenever a reconcile and a cleanup come.
THEOREM RecoveryInvCorrect == RecoverySpec => []RecoveryInv
BY RecoveryInvInit, RecoveryInvNext, PTL DEF RecoverySpec

\* However often a finalizer is delivered again after its worker was lost, an
\* orchestrator comes to one CodeChange at most, SUCCESS always comes with it, and
\* only failed finalizers leave others.
THEOREM RecoveryOneCodeChange == RecoverySpec => []OneCodeChange
<1>1. RecoveryInv => OneCodeChange
  BY DEF RecoveryInv
<1> QED
  BY <1>1, RecoveryInvCorrect, PTL

\* A step that is delivered again is not executed twice in a generation: as long
\* as a run is at work its claim keeps the others out.
THEOREM RecoveryOneRun == RecoverySpec => []OneRunPerGeneration
<1>1. RecoveryInv => OneRunPerGeneration
  BY DEF RecoveryInv, OneRunPerGeneration, WorkingNow, StepFenced, ClaimHeld
<1> QED
  BY <1>1, RecoveryInvCorrect, PTL

\* No loss, reconcile or cleanup brings a finished orchestrator back to life.
THEOREM RecoveryRevival == RecoverySpec => RevivalNeedsRetry
<1>1. ASSUME RecoveryInv, [RecoveryNext]_allVars
      PROVE  [IsTerminal /\ parent'.status \notin Terminal =>
                parent'.gen = parent.gen + 1 /\ parent.status # "SUCCESS"]_vars
  <2>1. TypeOK
    BY <1>1 DEF RecoveryInv, RecoveryTypeOK
  <2>2. CASE [Next]_vars
    BY <2>1, <2>2, NextParent
    DEF ParentMoves, SameParent, FailedParent, PreparedParent, FinishedParent,
        OpenedParent, CancelledParent, RetriedParent, IsTerminal, Terminal
  <2>3. CASE Interferes
    BY <2>1, <2>3, InterferesFields DEF IsTerminal
  <2> QED
    BY <1>1, <2>2, <2>3, RecoverySteps
<1> QED
  BY <1>1, RecoveryInvCorrect, PTL DEF RecoverySpec, RevivalNeedsRetry

\* A message of an older generation that is delivered again writes nothing.
THEOREM RecoveryInert == RecoverySpec => OldGenerationIsInert
<1>1. [\A c \in Dispatchers : Callback(c) /\ ~Current(c) =>
          UNCHANGED <<parent, child, applied, trees, codeChanges>>]_vars
  BY StaleIsInert
<1> QED
  BY <1>1, PTL DEF OldGenerationIsInert

\* A reconcile that nothing interferes with leaves only rows that are called merged
\* with their commit on the branch, and gives its directory to every step that was
\* not merged before (reconcile_orchestrator).
THEOREM QuietReconcileAgreesAlways == RecoverySpec => QuietReconcileAgrees
<1>1. ASSUME RecoveryInv, NEW r \in Reconcilers, ReconcileRepairs(r),
             parent = reconciler[r].parent, child = reconciler[r].child,
             reconciler'[r].pc = "done", parent.integ
      PROVE  /\ Integration \in trees'
             /\ \A s \in Steps :
                   IF child'[s].merge = "merged" THEN Applied(s)
                   ELSE \/ s \in trees' /\ child'[s].path
                        \/ child[s].merge = "merged"
  <2>0. /\ reconciler \in [Reconcilers -> Snapshot] /\ child \in [Steps -> Child]
    BY <1>1 DEF RecoveryInv, RecoveryTypeOK, TypeOK
  <2>1. PICK k \in 1..(NumSteps + 1),
             ancestors \in SUBSET {s \in Steps : <<s, child[s].commit>> \in applied} :
          LET done == {s \in Steps : s < k}
              recreated == Missing(parent, child) \cap done
          IN  /\ trees' = trees \cup recreated \cup {Integration}
              /\ child' = [s \in Steps |->
                    IF s \notin done THEN child[s]
                    ELSE [Reconciled(s, child[s], s \in ancestors) EXCEPT
                            !.path = IF s \in recreated THEN TRUE ELSE @]]
              /\ reconciler' = [reconciler EXCEPT
                    ![r].pc = IF done = Steps THEN "done" ELSE "failed"]
    <3>1. PICK k \in 1..(NumSteps + 1),
               ancestors \in SUBSET {s \in Steps :
                                      <<s, reconciler[r].child[s].commit>> \in applied} :
            LET done == {s \in Steps : s < k}
                recreated == Missing(reconciler[r].parent, reconciler[r].child) \cap done
            IN  /\ trees' = trees \cup recreated \cup
                            (IF reconciler[r].parent.integ THEN {Integration} ELSE {})
                /\ child' = [s \in Steps |->
                      IF s \notin done THEN child[s]
                      ELSE [Reconciled(s, reconciler[r].child[s], s \in ancestors) EXCEPT
                              !.path = IF s \in recreated THEN TRUE ELSE @]]
                /\ reconciler' = [reconciler EXCEPT
                      ![r].pc = IF done = Steps THEN "done" ELSE "failed"]
      BY <1>1, Zenon DEF ReconcileRepairs
    <3>2. reconciler[r].parent = parent /\ reconciler[r].child = child
      BY <1>1
    <3> QED
      BY <1>1, <3>1, <3>2, Zenon
  <2>2. {s \in Steps : s < k} = Steps
    BY <1>1, <2>0, <2>1 DEF Snapshot
  <2> DEFINE missing == Missing(parent, child)
             base(s) == Reconciled(s, child[s], s \in ancestors)
  <2>3. /\ trees' = trees \cup (missing \cap Steps) \cup {Integration}
        /\ \A s \in Steps : child'[s] =
             [base(s) EXCEPT !.path = IF s \in missing THEN TRUE ELSE @]
    BY <2>1, <2>2
  <2>4. ASSUME NEW s \in Steps
        PROVE  /\ base(s) \in Child /\ base(s).path = child[s].path
               /\ base(s).merge = "merged" => s \in ancestors
    <3>1. child[s] \in Child
      BY <2>0
    <3>2. \/ base(s) = child[s] /\ ~(child[s].merge = "merged" /\ s \notin ancestors)
          \/ base(s) = [child[s] EXCEPT !.merge = "merged"] /\ s \in ancestors
          \/ base(s) = [child[s] EXCEPT !.merge = "ready"]
      BY DEF Reconciled
    <3> HIDE DEF base
    <3> QED
      BY <3>1, <3>2 DEF Child, MergeStatus
  <2>5. \A s \in Steps :
          s \in missing <=> child[s].merge # "merged" /\ (~child[s].path \/ s \notin trees)
    BY <1>1 DEF Missing
  <2> HIDE DEF missing, base
  <2>6. ASSUME NEW s \in Steps
        PROVE  /\ child'[s].merge = base(s).merge
               /\ child'[s].path = (s \in missing \/ child[s].path)
    <3> DEFINE path == IF s \in missing THEN TRUE ELSE base(s).path
    <3>1. child'[s] = [base(s) EXCEPT !.path = path]
      BY <2>3, <2>4 DEF Child
    <3>2. path = (s \in missing \/ child[s].path)
      BY <2>0, <2>4 DEF Child
    <3> HIDE DEF path
    <3> QED
      BY <2>4, <3>1, <3>2 DEF Child
  <2>7. ASSUME NEW s \in Steps, child'[s].merge = "merged"
        PROVE  Applied(s)
    BY <2>1, <2>4, <2>6, <2>7 DEF Applied
  <2>8. ASSUME NEW s \in Steps, child[s].merge # "merged"
        PROVE  s \in trees' /\ child'[s].path
    BY <2>3, <2>5, <2>6, <2>8
  <2> QED
    BY <2>3, <2>7, <2>8
<1>2. RecoveryInv =>
        [\A r \in Reconcilers :
          /\ ReconcileRepairs(r)
          /\ parent = reconciler[r].parent /\ child = reconciler[r].child
          /\ reconciler'[r].pc = "done" /\ parent.integ
          => /\ Integration \in trees'
             /\ \A s \in Steps :
                   IF child'[s].merge = "merged" THEN Applied(s)
                   ELSE \/ s \in trees' /\ child'[s].path
                        \/ child[s].merge = "merged"]_allVars
  BY <1>1
<1> QED
  BY <1>2, RecoveryInvCorrect, PTL DEF RecoverySpec, QuietReconcileAgrees

-----------------------------------------------------------------------------
(* The integration branch                                                  *)

\* merge_wave's lost picks only add to the branch, and the other interferences
\* leave it alone, but for a cleanup that takes it away.
LEMMA BranchEbbs ==
    ASSUME TypeOK, Interferes, GentleCleanup
    PROVE  /\ applied \subseteq applied'
           /\ UNCHANGED applied \/ \E c \in Dispatchers : MergeLost(c)
<1>1. ASSUME NEW c \in Dispatchers, MergeLost(c) PROVE applied \subseteq applied'
  BY <1>1, PicksOf
<1>2. ASSUME NEW x \in Cleaners, CleanupRemoves(x) PROVE UNCHANGED applied
  BY <1>2 DEF CleanupRemoves, GentleCleanup
<1> QED
  BY <1>1, <1>2
  DEF Interferes, PrepareLost, FinalizeLost, RetryLost, StepLost, ReconcileRepairs

LEMMA MergedEbbs ==
    ASSUME TypeOK, CommitIsSuccess, MergedIsApplied, Interferes, FreshRepair, GentleCleanup
    PROVE  MergedIsApplied'
<1> SUFFICES ASSUME NEW s \in Steps, child'[s].merge = "merged"
             PROVE  child'[s].status = "SUCCESS" /\ <<s, child'[s].commit>> \in applied'
  BY DEF MergedIsApplied, Applied
<1>1. applied \subseteq applied'
  BY BranchEbbs
<1>2. ASSUME child[s].merge = "merged", SameRun(s)
      PROVE  child'[s].status = "SUCCESS" /\ <<s, child'[s].commit>> \in applied'
  BY <1>1, <1>2 DEF MergedIsApplied, Applied, SameRun
<1>3. CASE child'[s] = child[s]
  BY <1>2, <1>3 DEF SameRun
<1>4. ASSUME NEW r \in Reconcilers, ReconcileRepairs(r), child[s].merge # "merged"
      PROVE  child'[s].status = "SUCCESS" /\ <<s, child'[s].commit>> \in applied'
  <2>1. SameRun(s) /\ <<s, reconciler[r].child[s].commit>> \in applied
    BY <1>4, ReconcileRow DEF Repaired
  <2>2. <<s, child[s].commit>> \in applied
    BY <1>4, <2>1 DEF FreshRepair
  <2>3. child[s].commit # None
    BY <2>2, ActorAssumption DEF TypeOK, Commits
  <2> QED
    BY <1>1, <2>1, <2>2, <2>3 DEF CommitIsSuccess, SameRun
<1>5. CASE \A r \in Reconcilers : ~ReconcileRepairs(r)
  <2>1. ASSUME NEW c \in Dispatchers, NEW t \in Steps, StepLost(c, t)
        PROVE  child'[s] = child[s]
    BY <2>1, StepLostRow DEF Orphans
  <2>2. child'[s] = child[s]
    BY <1>5, <2>1 DEF Interferes, PrepareLost, MergeLost, FinalizeLost, RetryLost,
       CleanupRemoves
  <2> QED
    BY <1>3, <2>2
<1>6. CASE child[s].merge = "merged" /\ \E r \in Reconcilers : ReconcileRepairs(r)
  BY <1>2, <1>6, ReconcileRow DEF Repaired
<1> QED
  BY <1>4, <1>5, <1>6

\* A row that is marked merged has its commit on the integration branch, whatever
\* a lost merge_wave left there, unless a reconcile writes what it read of a commit
\* that a retry has replaced since, or a forced cleanup takes the branch away under
\* a retry.
THEOREM RecoveryMergedIsApplied ==
    RecoverySpec /\ [][FreshRepair /\ GentleCleanup]_allVars => []MergedIsApplied
<1>1. RecoveryInit => MergedIsApplied
  BY InvInit DEF RecoveryInit, ExecutionInv
<1>2. ASSUME RecoveryInv, MergedIsApplied, [RecoveryNext]_allVars,
             [FreshRepair /\ GentleCleanup]_allVars
      PROVE  MergedIsApplied'
  <2>1. TypeOK /\ ClaimHeld /\ CommitIsSuccess
    BY <1>2 DEF RecoveryInv, RecoveryTypeOK
  <2>2. CASE [Next]_vars
    BY <1>2, <2>1, <2>2, MergedNext
  <2>3. CASE Interferes /\ FreshRepair /\ GentleCleanup
    BY <1>2, <2>1, <2>3, MergedEbbs
  <2>4. CASE UNCHANGED allVars
    BY <1>2, <2>4, <2>2 DEF allVars
  <2> QED
    BY <1>2, <2>2, <2>3, <2>4, RecoverySteps
<1> QED
  BY <1>1, <1>2, RecoveryInvCorrect, PTL DEF RecoverySpec

\* The execution keeps its contract when workers are lost, its messages delivered
\* again and its rows reconciled, as long as no cleanup takes its branch away.
THEOREM RecoveryImplementsContract ==
    RecoverySpec /\ [][GentleCleanup]_allVars => ImplementsContract
<1>1. RecoveryInit => Contract!ContractInit
  BY DEF RecoveryInit, Init, Contract!ContractInit
<1>2. ASSUME RecoveryInv, RecoveryInv', [RecoveryNext]_allVars, [GentleCleanup]_allVars
      PROVE  [Contract!ContractNext]_(Contract!cvars)
  <2>1. /\ TypeOK /\ TypeOK' /\ CanvasLifecycle
        /\ OneCodeChange /\ ChangesFit /\ FinalizerIsRight
    BY <1>2 DEF RecoveryInv, RecoveryTypeOK
  <2>2. CASE [Next]_vars
    BY <2>1, <2>2, ContractStep
  <2>3. CASE Interferes /\ GentleCleanup
    <3>1. UNCHANGED <<parent, codeChanges>>
      BY <2>1, <2>3, InterferesFields
    <3>2. CASE UNCHANGED applied
      BY <3>1, <3>2 DEF Contract!cvars
    <3>3. ASSUME NEW c \in Dispatchers, MergeLost(c)
          PROVE  Contract!Integrate
      <4>1. parent.status = "RUNNING"
        BY <2>1, <3>3 DEF MergeLost, Merging, Barred, IsTerminal, TypeOK, Parent
      <4> QED
        BY <2>1, <3>1, <3>3, <4>1, PicksOf DEF Contract!Integrate
    <3> QED
      BY <2>1, <2>3, <3>2, <3>3, BranchEbbs DEF Contract!ContractNext
  <2>4. CASE UNCHANGED allVars
    BY <2>2, <2>4 DEF allVars
  <2> QED
    BY <1>2, <2>2, <2>3, <2>4, RecoverySteps
<1> QED
  BY <1>1, <1>2, RecoveryInvCorrect, PTL
  DEF RecoverySpec, ImplementsContract, Contract!ContractSpec
-----------------------------------------------------------------------------
(* Directories: what the invariant says                                    *)

LEMMA TreeFacts ==
    ASSUME TreeInv
    PROVE  /\ RecoveryInv /\ TypeOK /\ CanvasLifecycle /\ Alone /\ TargetsAreStale
           /\ \A s \in Steps : Unprepared(s)
           /\ \A x \in Cleaners : CleanupFits(x)
           /\ \A c \in Dispatchers : SuccessIsPast(c) /\ DispatchFits(c)
BY DEF TreeInv, RecoveryInv, RecoveryTypeOK

LEMMA TreeCanvas ==
    ASSUME TreeInv, NEW c \in Dispatchers, NEW s \in Steps
    PROVE  /\ AtWorkInWave(c, s) /\ Prepared(c, s) /\ ComingIsPending(c, s)
           /\ WaveHasAll(c, s) /\ TerminalIsQuiet(c, s) /\ HasTree(c, s)
BY DEF TreeInv

\* A step that is not fenced off belongs to the canvas in charge and to its wave.
LEMMA RecoveryUnfenced ==
    ASSUME TreeInv, NEW c \in Dispatchers, NEW s \in Steps, ~StepFenced(c, s),
           canvas[c].step[s] \in {"queued", "working"}
    PROVE  /\ Live(c) /\ InCharge(c) /\ Current(c) /\ InGeneration(s)
           /\ canvas[c].stage = "steps" /\ WaveOf[s] = canvas[c].wave
           /\ parent.status # "SUCCESS"
           /\ parent.integ \/ parent.status \in {"FAILED", "CANCELLED"}
<1>1. Current(c) /\ InGeneration(s)
  BY DEF StepFenced, Current, InGeneration
<1>2. canvas[c].stage = "steps" /\ WaveOf[s] = canvas[c].wave
  BY <1>1, TreeCanvas DEF AtWorkInWave
<1>3. Live(c) /\ InCharge(c)
  BY <1>1, <1>2 DEF Live, InCharge
<1>4. parent.status # "SUCCESS"
  BY <1>2, <1>3, TreeFacts DEF SuccessIsPast
<1>5. parent.integ \/ parent.status \in {"FAILED", "CANCELLED"}
  BY <1>2, <1>3, TreeCanvas DEF Prepared
<1> QED
  BY <1>1, <1>2, <1>3, <1>4, <1>5

\* What a callback does to its canvas.
LEMMA CallbackPlaces ==
    ASSUME NEW c \in Dispatchers, Callback(c)
    PROVE  \/ /\ Advance(c)
              /\ canvas[c].stage \in {"prepare", "wave", "merge", "finalize", "cleanup"}
           \/ PrepareReads(c) \/ WaveReads(c) \/ FinalizeReads(c)
           \/ FinalizeCommits(c)
           \/ \E s \in Steps : StepClaims(c, s)
           \/ \E s \in Steps :
                /\ StepReturns(c, s) /\ canvas[c].step[s] \in {"queued", "working"}
                /\ Step(c, s)
BY DEF Callback, Step, CallbackSkipped, PrepareReuses, PrepareReads, PrepareCommits,
   PrepareFails, WaveReads, WaveCommits, WaveFails, StepSkips, StepRefused, StepClaims,
   StepDiscarded, StepSucceeds, StepFails, MergeRepeated, MergeFindsFailure,
   MergeSucceeds, MergeConflicts, MergeFails, Merging, FinalizeReturns, FinalizeReads,
   FinalizeCommits, FinalizeFails, FinalizeCleans, FinalizeCleanupFails

\* Who writes a canvas.
LEMMA CanvasWriters ==
    ASSUME TypeOK, CanvasLifecycle, [Next]_vars, NEW c \in Dispatchers
    PROVE  \/ canvas'[c] = canvas[c]
           \/ Callback(c) \/ DispatchBuilds(c) \/ DispatchPublishes(c)
           \/ \E k \in Cancellers : CancelRevokes(k)
<1>1. ASSUME NEW d \in Dispatchers \ {c}, Callback(d) PROVE canvas'[c] = canvas[c]
  BY <1>1, CallbackKeeps DEF OthersStay
<1>2. ASSUME NEW d \in Dispatchers, Dispatch(d) \/ RetryCommits(d)
      PROVE  \/ canvas'[c] = canvas[c] \/ DispatchBuilds(c) \/ DispatchPublishes(c)
  BY <1>2, BuildsPlace, PublishPlace
  DEF OthersStay, Dispatch, DispatchFindsQueued, DispatchMismatches, DispatchPublishFails,
      DispatchConfirms, RetryPersists, RetryCommits
<1>3. ASSUME NEW k \in Cancellers, CancelCommits(k) \/ Cancel(k)
      PROVE  canvas'[c] = canvas[c] \/ CancelRevokes(k)
  BY <1>3 DEF Cancel, CancelCommits, CancelCleans, CancelCleanupFails, CancelReports
<1> QED
  BY <1>1, <1>2, <1>3 DEF Next, vars

\* A chain moves along its stages, and only its first read makes a handler busy.
LEMMA StageMoves ==
    ASSUME TreeInv, [Next]_vars, NEW c \in Dispatchers
    PROVE  \/ canvas'[c].stage = canvas[c].stage /\ canvas'[c].wave = canvas[c].wave
           \/ DispatchBuilds(c) /\ canvas[c].stage = "free"
           \/ canvas[c].stage = "built" /\ DispatchPublishes(c)
           \/ canvas'[c].stage = "revoked" /\ canvas[c].stage # "free"
           \/ /\ Callback(c) /\ canvas'[c].wave = canvas[c].wave
              /\ \/ canvas[c].stage = "prepare" /\ canvas'[c].stage = "wave"
                 \/ canvas[c].stage = "wave" /\ canvas'[c].stage = "steps"
                 \/ canvas[c].stage = "steps" /\ canvas'[c].stage = "merge"
                 \/ canvas[c].stage = "merge" /\ canvas'[c].stage = "finalize"
                 \/ canvas[c].stage = "finalize" /\ canvas'[c].stage = "cleanup"
                 \/ canvas[c].stage \in {"finalize", "cleanup"} /\ canvas'[c].stage = "done"
           \/ /\ Callback(c) /\ canvas[c].stage = "merge" /\ canvas'[c].stage = "wave"
              /\ canvas'[c].wave = canvas[c].wave + 1
<1>0. TypeOK /\ CanvasLifecycle
  BY TreeFacts
<1>1. CASE DispatchBuilds(c)
  BY <1>0, <1>1 DEF DispatchBuilds, CanvasLifecycle
<1>2. CASE DispatchPublishes(c)
  BY <1>0, <1>2, PublishPlace
<1>3. CASE \E k \in Cancellers : CancelRevokes(k)
  BY <1>0, <1>3, RevokePlace
<1>4. CASE Callback(c)
  <2>1. CASE /\ Advance(c)
             /\ canvas[c].stage \in {"prepare", "wave", "merge", "finalize", "cleanup"}
    BY <1>0, <1>4, <2>1, AdvanceFields
  <2>2. CASE PrepareReads(c) \/ WaveReads(c) \/ FinalizeReads(c)
    BY <1>0, <2>2, ReadsFields DEF SamePlace
  <2>3. CASE FinalizeCommits(c)
    BY <1>0, <1>4, <2>3, FinishFields
  <2>4. CASE \E s \in Steps : StepClaims(c, s)
    BY <1>0, <2>4, ClaimFields
  <2>5. CASE \E s \in Steps : StepReturns(c, s)
    BY <1>0, <1>4, <2>5, ReturnFields
  <2> QED
    BY <1>4, <2>1, <2>2, <2>3, <2>4, <2>5, CallbackPlaces
<1> QED
  BY <1>0, <1>1, <1>2, <1>3, <1>4, CanvasWriters

\* A run begins with a claim, and a step is queued with its wave.
LEMMA StepMovesOn ==
    ASSUME TypeOK, CanvasLifecycle, [Next]_vars, NEW c \in Dispatchers, NEW s \in Steps
    PROVE  \/ canvas'[c].step[s] = canvas[c].step[s]
           \/ canvas'[c].step[s] = "done"
           \/ StepClaims(c, s) /\ canvas[c].step[s] = "queued" /\ canvas'[c].step[s] = "working"
           \/ /\ Callback(c) /\ canvas[c].stage = "wave" /\ canvas'[c].stage = "steps"
              /\ WaveOf[s] = canvas[c].wave /\ canvas'[c].wave = canvas[c].wave
              /\ canvas'[c].step[s] = "queued"
<1>1. CASE DispatchBuilds(c)
  BY <1>1, BuildsPlace
<1>2. CASE DispatchPublishes(c)
  BY <1>2, PublishPlace
<1>3. CASE \E k \in Cancellers : CancelRevokes(k)
  BY <1>3, RevokePlace
<1>4. CASE Callback(c)
  <2>1. CASE /\ Advance(c)
             /\ canvas[c].stage \in {"prepare", "wave", "merge", "finalize", "cleanup"}
    BY <1>4, <2>1, AdvanceFields
  <2>2. CASE PrepareReads(c) \/ WaveReads(c) \/ FinalizeReads(c)
    BY <2>2, ReadsFields DEF SamePlace
  <2>3. CASE FinalizeCommits(c)
    BY <2>3, FinishFields
  <2>4. ASSUME NEW t \in Steps, StepClaims(c, t)
        PROVE  \/ canvas'[c].step[s] = canvas[c].step[s]
               \/ t = s /\ canvas'[c].step[s] = "working"
    BY <2>4, ClaimFields
  <2>5. ASSUME NEW t \in Steps, StepReturns(c, t)
        PROVE  canvas'[c].step[s] = canvas[c].step[s] \/ canvas'[c].step[s] = "done"
    BY <2>5, ReturnFields
  <2>6. StepClaims(c, s) => canvas[c].step[s] = "queued"
    BY DEF StepClaims
  <2> QED
    BY <1>4, <2>1, <2>2, <2>3, <2>4, <2>5, <2>6, CallbackPlaces
<1> QED
  BY <1>1, <1>2, <1>3, <1>4, CanvasWriters

-----------------------------------------------------------------------------
(* Directories: what the execution's own steps preserve                    *)

LEMMA AtWorkNext ==
    ASSUME TreeInv, TypeOK', [Next]_vars, NEW c \in Dispatchers, NEW s \in Steps
    PROVE  AtWorkInWave(c, s)'
<1>0. TypeOK /\ CanvasLifecycle /\ TargetsAreStale /\ AtWorkInWave(c, s)
  BY TreeFacts, TreeCanvas
<1> SUFFICES ASSUME canvas'[c].step[s] \in {"queued", "working"}
             PROVE  \/ canvas'[c].stage = "steps" /\ WaveOf[s] = canvas'[c].wave
                    \/ canvas'[c].stage = "revoked" /\ ~Current(c)'
  BY DEF AtWorkInWave
<1>1. CASE /\ Callback(c) /\ canvas'[c].stage = "steps"
           /\ WaveOf[s] = canvas[c].wave /\ canvas'[c].wave = canvas[c].wave
  BY <1>1
<1>2. CASE canvas[c].step[s] \in {"queued", "working"}
  <2>1. CASE canvas[c].stage = "revoked" /\ ~Current(c)
    <3>1. ~Current(c)'
      BY <1>0, <2>1, CurrentPersists
    <3> QED
      BY <2>1, <3>1, StageMoves DEF DispatchPublishes
  <2>2. CASE canvas[c].stage = "steps" /\ WaveOf[s] = canvas[c].wave
    <3>1. CASE Callback(c)
      <4>1. CASE \E t \in Steps : StepClaims(c, t)
        BY <1>0, <2>2, <4>1, ClaimFields
      <4>2. ASSUME NEW t \in Steps, StepReturns(c, t)
            PROVE  canvas'[c].stage = "steps" /\ WaveOf[s] = canvas'[c].wave
        BY <1>0, <2>2, <4>2, ReturnFields
      <4>3. CASE PrepareReads(c) \/ WaveReads(c) \/ FinalizeReads(c) \/ FinalizeCommits(c)
        BY <2>2, <4>3 DEF PrepareReads, WaveReads, FinalizeReads, FinalizeCommits
      <4> QED
        BY <2>2, <3>1, <4>1, <4>2, <4>3, CallbackPlaces
    <3>2. ASSUME NEW k \in Cancellers, CancelRevokes(k), canvas'[c].stage = "revoked"
          PROVE  ~Current(c)'
      <4>1. c \in canceller[k].targets /\ canvas'[c].gen = canvas[c].gen
        BY <1>0, <2>2, <3>2, RevokePlace
      <4>2. canvas[c].gen < parent.gen /\ UNCHANGED parent
        BY <1>0, <3>2, <4>1 DEF TargetsAreStale, CancelRevokes
      <4>3. canvas[c].gen \in Nat /\ parent.gen \in Nat
        BY <1>0, PlaceTypes
      <4> QED
        BY <4>1, <4>2, <4>3 DEF Current
    <3>3. CASE ~Callback(c)
      <4>1. \/ canvas'[c].stage = "steps" /\ canvas'[c].wave = canvas[c].wave
            \/ canvas'[c].stage = "revoked"
        BY <2>2, <3>3, StageMoves
      <4>2. canvas'[c].stage = "revoked" => \E k \in Cancellers : CancelRevokes(k)
        BY <1>0, <2>2, <3>3, CanvasWriters, PublishPlace DEF DispatchBuilds, CanvasLifecycle
      <4> QED
        BY <2>2, <3>2, <4>1, <4>2
    <3> QED
      BY <3>1, <3>3
  <2> QED
    BY <1>0, <1>2, <2>1, <2>2 DEF AtWorkInWave
<1> QED
  BY <1>0, <1>1, <1>2, StepMovesOn

\* A terminal parent stays so in its generation.
LEMMA TerminalStays ==
    ASSUME TypeOK, [Next]_vars, IsTerminal
    PROVE  IsTerminal' \/ \E d \in Dispatchers : RetryCommits(d)
BY NextParent
DEF ParentMoves, SameParent, FailedParent, PreparedParent, FinishedParent, OpenedParent,
    CancelledParent, RetriedParent, IsTerminal, Terminal

LEMMA DispatchFitsNext ==
    ASSUME TreeInv, TypeOK', [Next]_vars, NEW d \in Dispatchers
    PROVE  DispatchFits(d)'
<1>0. /\ TypeOK /\ CanvasLifecycle /\ DispatchFits(d) /\ ParentMoves
      /\ parent.gen \in Nat /\ parent'.gen \in Nat /\ disp[d].gen \in Nat
      /\ canvas[d].gen \in Nat /\ canvas[d].gen <= parent.gen
      /\ disp[d] \in Dispatcher /\ disp \in [Dispatchers -> Dispatcher]
  BY TreeFacts, NextParent DEF TypeOK, Parent, Dispatcher, Canvas, CanvasLifecycle
<1>1. parent.gen <= parent'.gen
  BY <1>0, GenerationGrows
<1>a. ASSUME NEW p, disp' = [disp EXCEPT ![d].pc = p]
      PROVE  disp'[d].pc = p /\ disp'[d].gen = disp[d].gen
  BY <1>0, <1>a DEF Dispatcher
<1>2. CASE disp'[d] = disp[d]
  <2>1. disp[d].pc \in {"publish", "confirm"} =>
          canvas'[d].stage # "free" /\ canvas'[d].gen = canvas[d].gen
    BY <1>0, StagesStay, NextKeeps DEF Keeps, DispatchFits
  <2>2. disp[d].pc = "persist" /\ disp[d].gen = parent'.gen => IsTerminal'
    BY <1>0, <1>1, RetryFields, TerminalStays DEF DispatchFits
  <2> QED
    BY <1>0, <1>1, <1>2, <2>1, <2>2 DEF DispatchFits
<1>3. CASE RetryCommits(d)
  <2>1. PICK w \in Waves : disp' = [disp EXCEPT ![d] = [pc |-> "build", start |-> w,
                                                         gen |-> parent.gen + 1]]
    BY <1>3, Zenon DEF RetryCommits
  <2>2. parent'.gen = parent.gen + 1
    BY <1>0, <1>3, RetryFields
  <2> QED
    BY <1>0, <2>1, <2>2 DEF DispatchFits
<1>4. CASE DispatchBuilds(d)
  <2>1. disp'[d].pc = "publish" /\ disp'[d].gen = disp[d].gen
    BY <1>0, <1>4 DEF DispatchBuilds
  <2>2. canvas'[d].gen = parent'.gen /\ canvas'[d].stage = "built"
    BY <1>0, <1>4, BuildsPlace
  <2>3. disp[d].gen <= parent'.gen
    BY <1>0, <1>1 DEF DispatchFits
  <2> QED
    BY <2>1, <2>2, <2>3 DEF DispatchFits
<1>5. ASSUME DispatchMismatches(d) \/ DispatchPublishFails(d) \/ DispatchConfirms(d),
             disp'[d].pc = "persist", disp'[d].gen = parent'.gen
      PROVE  IsTerminal'
  <2>1. CASE parent'.status = "FAILED"
    BY <2>1 DEF IsTerminal, Terminal
  <2>2. CASE UNCHANGED parent /\ disp[d].pc \in {"publish", "confirm"}
                 /\ (Barred(d) \/ ~(Current(d) /\ parent.status # "CANCELLED"))
    <3>1. disp[d].gen = parent.gen
      <4>1. \E p : disp' = [disp EXCEPT ![d].pc = p]
        BY <1>5, <2>2 DEF DispatchMismatches, DispatchPublishFails, DispatchConfirms
      <4> QED
        BY <1>5, <1>a, <2>2, <4>1
    <3>2. Current(d)
      BY <1>0, <2>2, <3>1 DEF DispatchFits, Current
    <3> QED
      BY <2>2, <3>2 DEF Barred, IsTerminal, Terminal
  <2>3. DispatchMismatches(d) => parent'.status = "FAILED"
    BY <1>0, FailsKept DEF DispatchMismatches
  <2>4. DispatchPublishFails(d) =>
          \/ parent'.status = "FAILED"
          \/ /\ UNCHANGED parent /\ disp[d].pc \in {"publish", "confirm"}
             /\ ~(Current(d) /\ parent.status # "CANCELLED")
    BY <1>0, FailsKept DEF DispatchPublishFails
  <2>5. DispatchConfirms(d) => UNCHANGED parent /\ Barred(d) /\ disp[d].pc = "confirm"
    <3>1. disp' # [disp EXCEPT ![d].pc = "done"]
      BY <1>5, <1>a
    <3> QED
      BY <3>1 DEF DispatchConfirms
  <2> QED
    BY <1>5, <2>1, <2>2, <2>3, <2>4, <2>5
<1>6. CASE Dispatch(d) /\ ~DispatchBuilds(d)
  <2>0. PICK p \in {"done", "confirm", "persist"} :
          /\ disp' = [disp EXCEPT ![d].pc = p]
          /\ p = "confirm" => disp[d].pc = "publish"
          /\ p = "persist" =>
               DispatchMismatches(d) \/ DispatchPublishFails(d) \/ DispatchConfirms(d)
    <3>1. DispatchConfirms(d) => \E p \in {"done", "persist"} :
                                   disp' = [disp EXCEPT ![d].pc = p]
      BY DEF DispatchConfirms
    <3> QED
      BY <1>6, <3>1 DEF Dispatch, DispatchFindsQueued, DispatchMismatches,
         DispatchPublishes, DispatchPublishFails, RetryPersists
  <2>1. disp'[d].gen = disp[d].gen /\ disp'[d].pc = p
    BY <1>a, <2>0
  <2>2. \/ disp'[d].pc = "done"
        \/ disp[d].pc = "publish" /\ disp'[d].pc = "confirm"
        \/ /\ disp'[d].pc = "persist"
           /\ DispatchMismatches(d) \/ DispatchPublishFails(d) \/ DispatchConfirms(d)
    BY <2>0, <2>1
  <2>3. disp[d].pc = "publish" =>
          canvas'[d].stage # "free" /\ disp[d].gen <= canvas'[d].gen
    BY <1>0, <1>6, StagesStay, NextKeeps DEF Keeps, DispatchFits
  <2>4. disp'[d].gen <= parent'.gen
    BY <1>0, <1>1, <2>1 DEF DispatchFits
  <2> QED
    BY <1>5, <2>1, <2>2, <2>3, <2>4 DEF DispatchFits
<1>7. disp'[d] = disp[d] \/ RetryCommits(d) \/ Dispatch(d)
  <2>1. ASSUME NEW c \in Dispatchers, Callback(c) PROVE UNCHANGED disp
    BY <2>1 DEF Callback, Step, CallbackSkipped, PrepareReuses, PrepareReads,
       PrepareCommits, PrepareFails, WaveReads, WaveCommits, WaveFails, StepSkips,
       StepRefused, StepClaims, StepDiscarded, StepSucceeds, StepFails, MergeRepeated,
       MergeFindsFailure, MergeSucceeds, MergeConflicts, MergeFails, FinalizeReturns,
       FinalizeReads, FinalizeCommits, FinalizeFails, FinalizeCleans, FinalizeCleanupFails
  <2>2. ASSUME NEW c \in Dispatchers \ {d}, Dispatch(c) \/ RetryCommits(c)
        PROVE  disp'[d] = disp[d]
    BY <1>0, <2>2, RetryFields DEF Dispatch, DispatchFindsQueued, DispatchBuilds,
       DispatchMismatches, DispatchPublishes, DispatchPublishFails, DispatchConfirms,
       RetryPersists
  <2>3. ASSUME NEW k \in Cancellers, CancelCommits(k) \/ Cancel(k) PROVE UNCHANGED disp
    BY <2>3 DEF Cancel, CancelCommits, CancelRevokes, CancelCleans, CancelCleanupFails,
       CancelReports
  <2> QED
    BY <2>1, <2>2, <2>3 DEF Next, vars
<1> QED
  BY <1>2, <1>3, <1>4, <1>6, <1>7

\* Only prepare records the integration worktree, and nothing takes it out of the row.
LEMMA IntegMoves ==
    ASSUME TypeOK, [Next]_vars
    PROVE  \/ parent'.integ = parent.integ
           \/ \E c \in Dispatchers : PrepareCommits(c) /\ parent'.integ
<1>1. ASSUME NEW plan, FailParent(plan) PROVE parent'.integ = parent.integ
  BY <1>1, FailsKept DEF KeptOrFailed
<1>2. ASSUME NEW c \in Dispatchers, Callback(c), ~PrepareCommits(c)
      PROVE  parent'.integ = parent.integ
  <2>1. CASE UNCHANGED parent
    BY <2>1
  <2>2. CASE FinalizeCommits(c)
    BY <2>2 DEF FinalizeCommits, TypeOK, Parent
  <2> QED
    BY <1>1, <1>2, <2>1, <2>2 DEF Callback, Step, CallbackSkipped, PrepareReuses, PrepareReads,
       PrepareFails, WaveReads, WaveCommits, WaveFails, StepSkips,
       StepRefused, StepClaims, StepDiscarded, StepSucceeds, StepFails, MergeRepeated,
       MergeFindsFailure, MergeSucceeds, MergeConflicts, MergeFails, FinalizeReturns,
       FinalizeReads, FinalizeFails, FinalizeCleans, FinalizeCleanupFails
<1>3. ASSUME NEW c \in Dispatchers, PrepareCommits(c) PROVE parent'.integ
  BY <1>3 DEF PrepareCommits, TypeOK, Parent
<1>4. ASSUME NEW d \in Dispatchers, Dispatch(d) \/ RetryCommits(d)
      PROVE  parent'.integ = parent.integ
  <2>1. CASE UNCHANGED parent
    BY <2>1
  <2>2. CASE DispatchBuilds(d)
    BY <2>2, BuildsParent
  <2>3. CASE RetryCommits(d)
    BY <2>3, RetryFields
  <2>4. CASE DispatchConfirms(d)
    BY <2>4 DEF DispatchConfirms, TypeOK, Parent
  <2> QED
    BY <1>1, <1>4, <2>1, <2>2, <2>3, <2>4
    DEF Dispatch, DispatchFindsQueued, DispatchMismatches, DispatchPublishes,
        DispatchPublishFails, RetryPersists
<1>5. ASSUME NEW k \in Cancellers, CancelCommits(k) \/ Cancel(k)
      PROVE  parent'.integ = parent.integ
  BY <1>5 DEF Cancel, CancelCommits, CancelRevokes, CancelCleans, CancelCleanupFails,
     CancelReports, TypeOK, Parent
<1> QED
  BY <1>2, <1>3, <1>4, <1>5 DEF Next, vars

\* What writes a row under the parent's lock is of the canvas in charge.
LEMMA WritersAreLive ==
    ASSUME TreeInv, NEW d \in Dispatchers, NEW s \in Steps
    PROVE  /\ PrepareCommits(d) \/ WaveCommits(d) \/ Merges(d) \/ FinalizeCommits(d) =>
                Live(d) /\ InCharge(d) /\ ~IsTerminal
           /\ StepRefused(d, s) \/ StepClaims(d, s) \/ StepSucceeds(d, s) \/ StepFails(d, s) =>
                /\ Live(d) /\ InCharge(d) /\ ~StepFenced(d, s) /\ InGeneration(s)
                /\ canvas[d].step[s] \in {"queued", "working"}
                /\ canvas[d].stage = "steps" /\ WaveOf[s] = canvas[d].wave
                /\ parent.status # "SUCCESS"
                /\ StepClaims(d, s) => parent.integ /\ ~IsTerminal
<1>1. PrepareCommits(d) \/ WaveCommits(d) \/ Merges(d) \/ FinalizeCommits(d) =>
        canvas[d].stage # "free" /\ ~Barred(d)
  BY DEF PrepareCommits, WaveCommits, Merges, MergeSucceeds, MergeConflicts, MergeFails,
     Merging, FinalizeCommits
<1>2. StepRefused(d, s) \/ StepClaims(d, s) \/ StepSucceeds(d, s) \/ StepFails(d, s) =>
        ~StepFenced(d, s) /\ canvas[d].step[s] \in {"queued", "working"}
  BY DEF StepRefused, StepClaims, StepSucceeds, StepFails
<1>3. StepClaims(d, s) => parent.status \notin {"FAILED", "CANCELLED"}
  BY DEF StepClaims
<1> QED
  BY <1>1, <1>2, <1>3, RecoveryUnfenced DEF Barred, Live, InCharge, IsTerminal, Terminal

LEMMA UnpreparedNext ==
    ASSUME TreeInv, TypeOK', [Next]_vars, NEW s \in Steps
    PROVE  Unprepared(s)'
<1>0. /\ TypeOK /\ CanvasLifecycle /\ Unprepared(s) /\ ParentMoves
      /\ parent.gen \in Nat /\ parent'.gen \in Nat
  BY TreeFacts, NextParent DEF TypeOK, Parent
<1>1. parent'.gen = 0 => ~parent'.integ
  <2>1. parent'.gen = 0 => parent.gen = 0
    BY <1>0, GenerationGrows
  <2>2. ASSUME NEW c \in Dispatchers, PrepareCommits(c) PROVE parent.gen > 0
    BY <1>0, <2>2, PlaceTypes DEF PrepareCommits, Barred, Current, CanvasLifecycle
  <2> QED
    BY <1>0, <2>1, <2>2, IntegMoves DEF Unprepared
<1> SUFFICES ASSUME ~parent'.integ
             PROVE  /\ child'[s].status \in {"PENDING", "CANCELLED"}
                    /\ ~IsTerminal' => child'[s].status = "PENDING"
                    /\ parent'.status # "SUCCESS"
  BY <1>1 DEF Unprepared
<1>2. ~parent.integ
  BY <1>0, IntegMoves
<1>3. /\ child[s].status \in {"PENDING", "CANCELLED"}
      /\ ~IsTerminal => child[s].status = "PENDING"
      /\ parent.status # "SUCCESS"
  BY <1>0, <1>2 DEF Unprepared
<1>4. parent'.status # "SUCCESS"
  <2>1. ASSUME NEW c \in Dispatchers, FinalizeCommits(c) PROVE FALSE
    <3>1. Live(c) /\ ~IsTerminal /\ canvas[c].stage = "finalize"
      BY <2>1, WritersAreLive DEF FinalizeCommits
    <3> QED
      BY <1>2, <3>1, TreeCanvas DEF Prepared, IsTerminal, Terminal
  <2> QED
    BY <1>0, <1>3, <2>1
    DEF ParentMoves, SameParent, FailedParent, PreparedParent, FinishedParent, OpenedParent,
        CancelledParent, RetriedParent
<1>5. CASE \E d \in Dispatchers : RetryCommits(d)
  BY <1>0, <1>3, <1>4, <1>5, RetryRow DEF Complete
<1>6. CASE \E k \in Cancellers : CancelCommits(k)
  <2>1. IsTerminal'
    BY <1>0, <1>6 DEF CancelCommits, IsTerminal, Terminal, TypeOK, Parent
  <2> QED
    BY <1>0, <1>3, <1>4, <1>6, <2>1, CancelRow
<1>7. CASE ~(\E d \in Dispatchers : RetryCommits(d)) /\ ~(\E k \in Cancellers : CancelCommits(k))
  <2>1. ~IsTerminal' => ~IsTerminal
    BY <1>0, <1>7, TerminalStays
  <2>2. CASE child'[s] = child[s]
    BY <1>3, <1>4, <2>1, <2>2
  <2>3. ASSUME NEW c \in Dispatchers, WaveCommits(c) \/ Merges(c)
        PROVE  child'[s].status = child[s].status
    BY <1>0, <2>3, WaveSameRun, MergeSameRun DEF Merges, SameRun
  <2>4. ASSUME NEW c \in Dispatchers, StepSucceeds(c, s) \/ StepFails(c, s) PROVE FALSE
    BY <1>2, <2>4, TreeCanvas DEF StepSucceeds, StepFails, Prepared, Working
  <2>5. ASSUME NEW c \in Dispatchers, StepRefused(c, s)
        PROVE  child'[s].status = "CANCELLED" /\ IsTerminal'
    BY <1>0, <2>5, StepWrites DEF StepRefused, IsTerminal, Terminal
  <2>6. ASSUME NEW c \in Dispatchers, StepClaims(c, s) PROVE FALSE
    BY <1>2, <2>6, WritersAreLive
  <2>7. ASSUME NEW c \in Dispatchers, PrepareCommits(c) PROVE FALSE
    BY <1>0, <2>7 DEF PrepareCommits, TypeOK, Parent
  <2> QED
    BY <1>0, <1>3, <1>4, <1>7, <2>1, <2>2, <2>3, <2>4, <2>5, <2>6, <2>7, RowWriters DEF WritesRow
<1> QED
  BY <1>5, <1>6, <1>7

LEMMA PreparedNext ==
    ASSUME TreeInv, TypeOK', [Next]_vars, NEW c \in Dispatchers, NEW s \in Steps
    PROVE  Prepared(c, s)'
<1>0. TypeOK /\ CanvasLifecycle /\ Alone /\ Prepared(c, s)
  BY TreeFacts, TreeCanvas
<1>1. parent.integ => parent'.integ
  BY <1>0, IntegMoves
<1>2. Working(c, s)' => parent'.integ
  BY <1>0, <1>1, StepMovesOn, WritersAreLive DEF Working, Prepared
<1> SUFFICES ASSUME Live(c)'
             PROVE  /\ canvas'[c].stage = "prepare" /\ canvas'[c].busy => ~parent'.integ
                    /\ canvas'[c].stage \notin {"built", "prepare", "revoked"} =>
                         parent'.integ \/ parent'.status \in {"FAILED", "CANCELLED"}
  BY <1>2 DEF Prepared
<1>3. CASE canvas[c].stage = "free"
  <2>1. canvas'[c].stage = "built"
    BY <1>0, <1>3, NextKeeps, BuildsPlace DEF Live, Keeps
  <2> QED
    BY <2>1
<1>4. CASE canvas[c].stage # "free"
  <2>0. Live(c) /\ SameGeneration /\ InCharge(c)
    BY <1>0, <1>4, CurrentPersists DEF Live
  <2>1. ASSUME canvas'[c].stage = "prepare", canvas'[c].busy PROVE ~parent'.integ
    <3>1. ASSUME NEW d \in Dispatchers, PrepareCommits(d) PROVE FALSE
      <4>1. d = c
        BY <1>0, <2>0, <3>1, WritersAreLive DEF Alone
      <4>2. canvas'[c].stage = "wave"
        BY <1>0, <3>1, <4>1, AdvanceFields DEF PrepareCommits
      <4> QED
        BY <2>1, <4>2
    <3>2. parent'.integ = parent.integ
      BY <1>0, <3>1, IntegMoves
    <3>3. CASE canvas[c].stage = "prepare" /\ canvas[c].busy
      BY <1>0, <2>0, <3>2, <3>3 DEF Prepared
    <3>4. CASE canvas[c].stage = "prepare" /\ ~canvas[c].busy
      <4>1. PrepareReads(c) => ~parent.integ
        BY DEF PrepareReads
      <4>2. PrepareReads(c)
        <5>1. ~Advance(c)
          BY <1>0, <2>1, <3>4, AdvanceFields
        <5>2. ~WaveReads(c) /\ ~FinalizeReads(c) /\ ~FinalizeCommits(c)
          BY <3>4 DEF WaveReads, FinalizeReads, FinalizeCommits
        <5>3. \A t \in Steps : ~StepClaims(c, t)
          BY <3>4 DEF StepClaims
        <5>4. \A t \in Steps : ~StepReturns(c, t)
          BY <1>0, <2>1, <3>4, ReturnFields
        <5>5. ~DispatchPublishes(c) /\ ~DispatchBuilds(c)
          BY <1>0, <2>1, <3>4, PublishPlace DEF DispatchBuilds, CanvasLifecycle
        <5>6. \A k \in Cancellers : ~CancelRevokes(k)
          BY <1>0, <2>1, <3>4, RevokePlace
        <5> QED
          BY <1>0, <2>1, <3>4, <5>1, <5>2, <5>3, <5>4, <5>5, <5>6, CanvasWriters, CallbackPlaces
      <4> QED
        BY <3>2, <4>1, <4>2
    <3>5. CASE canvas[c].stage = "built"
      BY <1>0, <2>1, <3>5, StageMoves, PublishPlace DEF CanvasLifecycle
    <3>6. canvas[c].stage \in {"built", "prepare"}
      BY <1>4, <2>1, StageMoves
    <3> QED
      BY <3>3, <3>4, <3>5, <3>6
  <2>2. ASSUME canvas'[c].stage \notin {"built", "prepare", "revoked"}
        PROVE  parent'.integ \/ parent'.status \in {"FAILED", "CANCELLED"}
    <3>1. ASSUME parent.status \in {"FAILED", "CANCELLED"}
          PROVE  parent'.status \in {"FAILED", "CANCELLED"}
      <4>1. \A d \in Dispatchers : ~FinalizeCommits(d)
        BY <3>1 DEF FinalizeCommits, Barred, IsTerminal, Terminal
      <4> QED
        BY <2>0, <3>1, <4>1 DEF SameGeneration, SameParent, FailedParent, PreparedParent,
           FinishedParent, IsTerminal, Terminal
    <3>2. CASE canvas[c].stage \notin {"built", "prepare", "revoked"}
      BY <1>0, <1>1, <2>0, <3>1, <3>2 DEF Prepared
    <3>3. canvas[c].stage # "built" /\ canvas[c].stage # "revoked"
      BY <1>0, <2>2, StageMoves, PublishPlace DEF DispatchPublishes
    <3>4. CASE canvas[c].stage = "prepare"
      <4>1. Callback(c)
        BY <1>0, <2>2, <3>4, StageMoves DEF DispatchBuilds, CanvasLifecycle
      <4>2. ~PrepareReads(c)
        BY <1>0, <2>2, <3>4, ReadsFields DEF SamePlace
      <4>3. \A t \in Steps : ~Step(c, t)
        BY <1>0, <3>4, TreeCanvas DEF AtWorkInWave, Step, StepSkips, StepRefused, StepClaims,
           StepDiscarded, StepSucceeds, StepFails
      <4>4. CallbackSkipped(c) \/ PrepareReuses(c) \/ PrepareCommits(c) \/ PrepareFails(c)
        BY <3>4, <4>1, <4>2, <4>3 DEF Callback, WaveReads, WaveCommits, WaveFails,
           MergeRepeated, MergeFindsFailure, MergeSucceeds, MergeConflicts, MergeFails,
           Merging, FinalizeReturns, FinalizeReads, FinalizeCommits, FinalizeFails,
           FinalizeCleans, FinalizeCleanupFails
      <4>5. CASE CallbackSkipped(c)
        <5>1. IsTerminal /\ parent.status # "SUCCESS" /\ UNCHANGED parent
          BY <2>0, <3>4, <4>5, TreeFacts DEF CallbackSkipped, Barred, Live, SuccessIsPast
        <5> QED
          BY <5>1 DEF IsTerminal, Terminal
      <4>6. CASE PrepareReuses(c)
        BY <1>1, <4>6 DEF PrepareReuses
      <4>7. CASE PrepareCommits(c)
        BY <1>0, <4>7 DEF PrepareCommits, TypeOK, Parent
      <4>8. CASE PrepareFails(c)
        BY <1>0, <4>8, FailsKept DEF PrepareFails
      <4> QED
        BY <4>4, <4>5, <4>6, <4>7, <4>8
    <3> QED
      BY <3>2, <3>3, <3>4
  <2> QED
    BY <2>1, <2>2
<1> QED
  BY <1>3, <1>4

LEMMA FinalizerIsLive ==
    ASSUME NEW d \in Dispatchers, FinalizeCommits(d)
    PROVE  Live(d) /\ InCharge(d) /\ ~IsTerminal
BY DEF FinalizeCommits, Barred, Live, InCharge

LEMMA SuccessPastNext ==
    ASSUME TreeInv, TypeOK', [Next]_vars, NEW c \in Dispatchers
    PROVE  SuccessIsPast(c)'
<1>0. TypeOK /\ CanvasLifecycle /\ Alone /\ SuccessIsPast(c) /\ ParentMoves
  BY TreeFacts, NextParent
<1> SUFFICES ASSUME parent'.status = "SUCCESS"
             PROVE  /\ disp'[c].pc # "build"
                    /\ Live(c)' => canvas'[c].stage \in {"finalize", "cleanup", "done", "revoked"}
  BY DEF SuccessIsPast
<1>1. CASE parent.status = "SUCCESS"
  <2>1. disp[c].pc # "build"
    BY <1>0, <1>1 DEF SuccessIsPast
  <2>2. disp'[c].pc # "build"
    BY <1>0, <1>1, <2>1, BuilderPersists, RetryFields
  <2>3. ASSUME Live(c)'
        PROVE  canvas'[c].stage \in {"finalize", "cleanup", "done", "revoked"}
    <3>1. canvas[c].stage # "free"
      BY <1>0, <2>1, <2>3, NextKeeps DEF Live, Keeps, DispatchBuilds
    <3>2. Live(c)
      BY <1>0, <2>3, <3>1, CurrentPersists DEF Live
    <3>3. canvas[c].stage \in {"finalize", "cleanup", "done", "revoked"}
      BY <1>0, <1>1, <3>2 DEF SuccessIsPast
    <3> QED
      BY <3>3, StageMoves
  <2> QED
    BY <2>2, <2>3
<1>2. CASE \E d \in Dispatchers : FinalizeCommits(d)
  <2>1. PICK d \in Dispatchers : FinalizeCommits(d)
    BY <1>2
  <2>2. /\ Live(d) /\ InCharge(d) /\ canvas[d].stage = "finalize" /\ UNCHANGED disp
        /\ disp[d].pc # "build" /\ OthersStay(d) /\ canvas'[d].stage = "cleanup"
        /\ parent'.gen = parent.gen
    <3>1. parent'.gen = parent.gen
      BY <1>0, <2>1 DEF FinalizeCommits, TypeOK, Parent
    <3>2. Live(d) /\ InCharge(d)
      BY <2>1, FinalizerIsLive
    <3>3. OthersStay(d) /\ canvas'[d].stage = "cleanup" /\ canvas[d].stage = "finalize"
      BY <1>0, <2>1, FinishFields
    <3> QED
      BY <1>0, <2>1, <3>1, <3>2, <3>3 DEF FinalizeCommits, CanvasLifecycle
  <2>3. c # d => ~InCharge(c)
    BY <1>0, <2>2 DEF Alone
  <2> QED
    BY <2>2, <2>3 DEF InCharge, Live, Current, OthersStay
<1>3. CASE OpenedParent /\ parent.status # "SUCCESS"
  BY <1>3 DEF OpenedParent
<1> QED
  BY <1>0, <1>1, <1>2, <1>3
  DEF ParentMoves, SameParent, FailedParent, PreparedParent, FinishedParent, OpenedParent,
      CancelledParent, RetriedParent

\* A step that the chain has not come to stays as it is, but for the retry that
\* opens its generation.
LEMMA ComingRow ==
    ASSUME TreeInv, TypeOK', [Next]_vars, NEW c \in Dispatchers, NEW s \in Steps,
           disp[c].pc = "build" \/ (Live(c) /\ Coming(c, s)),
           \A d \in Dispatchers : ~RetryCommits(d), \A k \in Cancellers : ~CancelCommits(k)
    PROVE  \/ child'[s].status = child[s].status /\ child'[s].gen = child[s].gen
           \/ child'[s].status = "PENDING"
<1>0. TypeOK /\ CanvasLifecycle /\ Alone /\ Unprepared(s) /\ InCharge(c)
  BY TreeFacts DEF InCharge
<1>1. ASSUME NEW d \in Dispatchers, PrepareCommits(d) PROVE child'[s].status = "PENDING"
  <2>1. Live(d) /\ ~IsTerminal /\ canvas[d].stage = "prepare" /\ canvas[d].busy
    BY <1>1, WritersAreLive DEF PrepareCommits
  <2>2. ~parent.integ
    BY <2>1, TreeCanvas DEF Prepared
  <2>3. child[s].status = "PENDING"
    BY <1>0, <2>1, <2>2 DEF Unprepared
  <2> QED
    BY <1>0, <1>1, <2>3, PrepareWrites
<1>2. ASSUME NEW d \in Dispatchers, WaveCommits(d) \/ Merges(d)
      PROVE  child'[s].status = child[s].status /\ child'[s].gen = child[s].gen
  BY <1>0, <1>2, WaveSameRun, MergeSameRun DEF Merges, SameRun
<1>3. ASSUME NEW d \in Dispatchers,
             StepRefused(d, s) \/ StepClaims(d, s) \/ StepSucceeds(d, s) \/ StepFails(d, s)
      PROVE  FALSE
  <2>1. Live(d) /\ InCharge(d) /\ canvas[d].stage = "steps" /\ WaveOf[s] = canvas[d].wave
    BY <1>3, WritersAreLive
  <2>2. d = c
    BY <1>0, <2>1 DEF Alone
  <2>3. WaveOf[s] \in Nat /\ canvas[c].wave \in Nat
    BY <1>0, PlaceTypes
  <2> QED
    BY <1>0, <2>1, <2>2, <2>3 DEF Coming, CanvasLifecycle
<1> QED
  BY <1>0, <1>1, <1>2, <1>3, RowWriters DEF WritesRow

LEMMA ComingNext ==
    ASSUME TreeInv, TypeOK', TargetsAreStale', TimelyRetry, [Next]_vars,
           NEW c \in Dispatchers, NEW s \in Steps
    PROVE  ComingIsPending(c, s)'
<1>0. /\ TypeOK /\ CanvasLifecycle /\ Alone /\ ComingIsPending(c, s) /\ ParentMoves
      /\ TargetsAreStale
  BY TreeFacts, TreeCanvas, NextParent
<1>n. /\ parent.gen \in Nat /\ parent'.gen \in Nat /\ child[s].gen \in Nat
      /\ child[s].gen <= parent.gen
  BY <1>0, PlaceTypes DEF TargetsAreStale, TypeOK, Parent
<1> SUFFICES ASSUME InGeneration(s)', disp'[c].pc = "build" \/ (Live(c)' /\ Coming(c, s)')
             PROVE  child'[s].status = "PENDING"
  BY DEF ComingIsPending
<1>1. CASE RetryCommits(c)
  <2>1. child'[s] = child[s] => ~InGeneration(s)'
    BY <1>0, <1>n, <1>1, RetryFields DEF InGeneration
  <2> QED
    BY <1>0, <1>1, <2>1, RetryRow
<1>2. CASE disp'[c].pc = "build" /\ ~RetryCommits(c)
  <2>1. disp[c].pc = "build" /\ disp'[c] = disp[c] /\ InCharge(c)
    BY <1>0, <1>2, BuilderPersists DEF InCharge
  <2>2. \A d \in Dispatchers : ~RetryCommits(d)
    BY <2>1 DEF TimelyRetry
  <2>3. ~DispatchBuilds(c)
    BY <1>0, <1>2, BuildsParent
  <2>4. \A d \in Dispatchers : ~DispatchBuilds(d)
    BY <1>0, <2>1, <2>3 DEF DispatchBuilds, InCharge, Alone
  <2>5. ASSUME NEW k \in Cancellers, CancelCommits(k) PROVE FALSE
    <3>1. child'[s].gen = child[s].gen
      BY <1>0, <2>5, CancelRow
    <3>2. parent'.gen = parent.gen + 1
      BY <1>0, <2>5 DEF CancelCommits, TypeOK, Parent
    <3>3. child'[s].gen = parent'.gen
      BY DEF InGeneration
    <3>4. parent.gen + 1 # child[s].gen
      BY <1>n
    <3> QED
      BY <3>1, <3>2, <3>3, <3>4
  <2>6. parent'.gen = parent.gen
    BY <1>0, <2>2, <2>4, <2>5 DEF ParentMoves, SameParent, FailedParent, PreparedParent,
       FinishedParent, OpenedParent, CancelledParent, RetriedParent
  <2>7. CASE child'[s].status = "PENDING"
    BY <2>7
  <2>8. CASE child'[s].status = child[s].status /\ child'[s].gen = child[s].gen
    <3>1. InGeneration(s)
      BY <2>6, <2>8 DEF InGeneration
    <3> QED
      BY <1>0, <2>1, <2>8, <3>1 DEF ComingIsPending
  <2> QED
    BY <2>1, <2>2, <2>5, <2>7, <2>8, ComingRow
<1>3. CASE Live(c)' /\ Coming(c, s)' /\ canvas[c].stage = "free"
  <2>1. DispatchBuilds(c)
    BY <1>0, <1>3, NextKeeps DEF Live, Keeps
  <2>2. disp[c].pc = "build" /\ UNCHANGED child
        /\ parent'.gen = (IF parent.gen = 0 THEN 1 ELSE parent.gen)
    BY <1>0, <2>1, BuildsParent
  <2>3. InGeneration(s)
    BY <1>n, <2>2 DEF InGeneration
  <2> QED
    BY <1>0, <2>2, <2>3 DEF ComingIsPending
<1>4. CASE Live(c)' /\ Coming(c, s)' /\ canvas[c].stage # "free"
  <2>1. /\ Live(c) /\ parent'.gen = parent.gen
        /\ \A d \in Dispatchers : ~RetryCommits(d)
        /\ \A k \in Cancellers : ~CancelCommits(k)
    BY <1>0, <1>4, CurrentPersists DEF Live
  <2>2. Coming(c, s)
    <3>1. WaveOf[s] \in Nat /\ canvas[c].wave \in Nat
      BY <1>0, PlaceTypes
    <3>2. canvas[c].stage = "built" /\ DispatchPublishes(c) =>
            canvas'[c].wave = canvas[c].wave /\ canvas'[c].stage = "prepare"
      BY <1>0, PublishPlace
    <3> QED
      BY <1>4, <3>1, <3>2, StageMoves DEF Coming
  <2>3. CASE child'[s].status = child[s].status /\ child'[s].gen = child[s].gen
    <3>1. InGeneration(s)
      BY <2>1, <2>3 DEF InGeneration
    <3> QED
      BY <1>0, <2>1, <2>2, <2>3, <3>1 DEF ComingIsPending
  <2> QED
    BY <2>1, <2>2, <2>3, ComingRow
<1> QED
  BY <1>1, <1>2, <1>3, <1>4

LEMMA WaveHasAllNext ==
    ASSUME TreeInv, TypeOK', [Next]_vars, NEW c \in Dispatchers, NEW s \in Steps
    PROVE  WaveHasAll(c, s)'
<1>0. /\ TypeOK /\ CanvasLifecycle /\ Alone /\ TargetsAreStale
      /\ ComingIsPending(c, s) /\ WaveHasAll(c, s)
  BY TreeFacts, TreeCanvas
<1> SUFFICES ASSUME Live(c)', canvas'[c].stage = "wave", canvas'[c].busy,
                    WaveOf[s] = canvas'[c].wave, InGeneration(s)'
             PROVE  s \in canvas'[c].todo
  BY DEF WaveHasAll
<1>1. canvas[c].stage # "free"
  BY <1>0, NextKeeps, BuildsPlace DEF Live, Keeps
<1>2. Live(c) /\ parent'.gen = parent.gen
  BY <1>0, <1>1, CurrentPersists DEF Live
<1>3. CASE Callback(c)
  <2>1. canvas[c].stage = "wave" =>
          \A t \in Steps : canvas[c].step[t] \notin {"queued", "working"}
    BY TreeCanvas DEF AtWorkInWave
  <2>2. WaveReads(c)
    BY <1>0, <1>3, <2>1, ReachesWave
  <2>3. InGeneration(s) /\ canvas[c].stage = "wave" /\ WaveOf[s] = canvas[c].wave
    BY <1>0, <1>2, <2>2, WaveReadsFields DEF WaveReads, InGeneration
  <2>4. child[s].status = "PENDING"
    <3>1. Coming(c, s)
      BY <1>0, <2>3, PlaceTypes DEF Coming
    <3> QED
      BY <1>0, <1>2, <2>3, <3>1 DEF ComingIsPending
  <2> QED
    BY <1>0, <2>2, <2>3, <2>4, WaveReadsFields
<1>4. CASE UNCHANGED child /\ canvas'[c] = canvas[c]
  BY <1>0, <1>2, <1>4 DEF WaveHasAll, InGeneration
<1>5. CASE UNCHANGED child /\ DispatchPublishes(c)
  <2>1. canvas[c].stage # "built"
    BY <1>0, <1>5, PublishPlace
  <2>2. UNCHANGED canvas
    BY <1>5, <2>1 DEF DispatchPublishes, Publish
  <2> QED
    BY <1>4, <1>5, <2>2
<1> QED
  BY <1>0, <1>1, <1>3, <1>4, <1>5, OneActor DEF Live

\* Who ends an execution that nobody cancels.
LEMMA WhoEnds ==
    ASSUME TreeInv, [Next]_vars, ~IsTerminal, IsTerminal'
    PROVE  \/ \E d \in Dispatchers :
                /\ canvas[d].stage \in {"prepare", "wave", "merge", "finalize"} /\ ~Barred(d)
           \/ \E d \in Dispatchers : DispatchMismatches(d)
           \/ \E d \in Dispatchers : DispatchPublishFails(d) /\ Current(d)
           \/ \E d \in Dispatchers : RetryPersists(d) /\ parent.gen = disp[d].gen
           \/ \E k \in Cancellers : CancelCommits(k)
<1>0. TypeOK
  BY TreeFacts
<1>1. ~UNCHANGED parent
  BY DEF IsTerminal
<1>2. ASSUME NEW d \in Dispatchers, Callback(d)
      PROVE  canvas[d].stage \in {"prepare", "wave", "merge", "finalize"} /\ ~Barred(d)
  BY <1>1, <1>2 DEF Callback, Step, CallbackSkipped, PrepareReuses, PrepareReads,
     PrepareCommits, PrepareFails, WaveReads, WaveCommits, WaveFails, StepSkips,
     StepRefused, StepClaims, StepDiscarded, StepSucceeds, StepFails, MergeRepeated,
     MergeFindsFailure, MergeSucceeds, MergeConflicts, MergeFails, Merging,
     FinalizeReturns, FinalizeReads, FinalizeCommits, FinalizeFails, FinalizeCleans,
     FinalizeCleanupFails
<1>3. ASSUME NEW d \in Dispatchers, DispatchBuilds(d) \/ DispatchConfirms(d) \/ RetryCommits(d)
      PROVE  FALSE
  <2>1. DispatchBuilds(d) => parent'.status = parent.status
    BY <1>0, BuildsParent
  <2>2. DispatchConfirms(d) => parent'.status = parent.status
    BY <1>0 DEF DispatchConfirms, TypeOK, Parent
  <2>3. RetryCommits(d) => FALSE
    BY <1>0, RetryFields DEF IsTerminal, Terminal
  <2> QED
    BY <1>3, <2>1, <2>2, <2>3 DEF IsTerminal
<1>4. ASSUME NEW d \in Dispatchers, Dispatch(d)
      PROVE  \/ DispatchMismatches(d)
             \/ DispatchPublishFails(d) /\ Current(d)
             \/ RetryPersists(d) /\ parent.gen = disp[d].gen
  <2>1. ~DispatchBuilds(d) /\ ~DispatchConfirms(d)
    BY <1>3
  <2>2. ~DispatchFindsQueued(d) /\ ~DispatchPublishes(d)
    BY <1>1 DEF DispatchFindsQueued, DispatchPublishes
  <2>3. DispatchPublishFails(d) => Current(d)
    BY <1>1 DEF DispatchPublishFails
  <2>4. RetryPersists(d) => parent.gen = disp[d].gen
    BY <1>1 DEF RetryPersists
  <2> QED
    BY <1>4, <2>1, <2>2, <2>3, <2>4 DEF Dispatch
<1>5. ASSUME NEW k \in Cancellers, Cancel(k) PROVE FALSE
  <2>1. CancelReports(k) => parent'.status = parent.status
    BY <1>0 DEF CancelReports, TypeOK, Parent
  <2> QED
    BY <1>1, <1>5, <2>1
    DEF Cancel, CancelRevokes, CancelCleans, CancelCleanupFails, IsTerminal
<1> QED
  BY <1>1, <1>2, <1>3, <1>4, <1>5 DEF Next, vars

LEMMA QuietNext ==
    ASSUME TreeInv, TypeOK', CanvasLifecycle', EarlyFailure, [Next]_vars,
           NEW c \in Dispatchers, NEW s \in Steps
    PROVE  TerminalIsQuiet(c, s)'
<1>0. /\ TypeOK /\ CanvasLifecycle /\ Alone /\ TerminalIsQuiet(c, s)
  BY TreeFacts, TreeCanvas
<1> SUFFICES ASSUME IsTerminal', Current(c)', Working(c, s)'
             PROVE  FALSE
  BY DEF TerminalIsQuiet
<1>1. canvas[c].stage # "free"
  <2>1. canvas'[c].stage \notin {"free", "built"}
    BY DEF CanvasLifecycle, Working
  <2> QED
    BY <1>0, <2>1, NextKeeps, BuildsPlace DEF Keeps
<1>2. /\ Live(c) /\ InCharge(c) /\ Current(c) /\ parent'.gen = parent.gen
      /\ \A k \in Cancellers : ~CancelCommits(k)
  BY <1>0, <1>1, CurrentPersists
<1>3. CASE StepClaims(c, s)
  <2>1. ~IsTerminal /\ UNCHANGED parent
    BY <1>3, WritersAreLive DEF StepClaims
  <2> QED
    BY <2>1 DEF IsTerminal
<1>4. CASE Working(c, s)
  <2>1. canvas[c].stage = "steps" /\ ~IsTerminal
    BY <1>0, <1>2, <1>4, TreeCanvas DEF AtWorkInWave, Working, TerminalIsQuiet
  <2>2. ASSUME NEW d \in Dispatchers, ~Barred(d),
               canvas[d].stage \in {"prepare", "wave", "merge", "finalize"}
        PROVE  FALSE
    BY <1>0, <1>2, <2>1, <2>2 DEF Barred, InCharge, Live, Alone
  <2>3. ASSUME NEW d \in Dispatchers, DispatchMismatches(d) PROVE FALSE
    BY <1>0, <1>2, <2>1, <2>3 DEF DispatchMismatches, InCharge, Alone, CanvasLifecycle
  <2>4. ASSUME NEW d \in Dispatchers, DispatchPublishFails(d), Current(d) PROVE FALSE
    <3>1. canvas[d].stage # "free"
      BY <2>4, TreeFacts DEF DispatchPublishFails, DispatchFits
    <3>2. d = c
      BY <1>0, <1>2, <2>4, <3>1 DEF InCharge, Live, Alone
    <3> QED
      BY <1>4, <2>4, <3>2 DEF EarlyFailure
  <2>5. ASSUME NEW d \in Dispatchers, RetryPersists(d), parent.gen = disp[d].gen PROVE FALSE
    BY <2>1, <2>5, TreeFacts DEF RetryPersists, DispatchFits
  <2> QED
    BY <1>2, <2>1, <2>2, <2>3, <2>4, <2>5, WhoEnds
<1> QED
  BY <1>0, <1>3, <1>4, StepMovesOn DEF Working

LEMMA HasTreeNext ==
    ASSUME TreeInv, TypeOK', [Next]_vars, \A t \in Steps : Taken(t) => Taken(t)',
           NEW c \in Dispatchers, NEW s \in Steps
    PROVE  HasTree(c, s)'
<1>0. /\ TypeOK /\ CanvasLifecycle /\ Alone /\ TargetsAreStale
      /\ AtWorkInWave(c, s) /\ AtWorkInWave(c, s)' /\ WaveHasAll(c, s) /\ HasTree(c, s)
  BY TreeFacts, TreeCanvas, AtWorkNext
<1> SUFFICES ASSUME Current(c)', InGeneration(s)',
                    \/ canvas'[c].step[s] = "queued" /\ ~IsTerminal'
                    \/ Working(c, s)'
             PROVE  s \in trees' \/ Taken(s)'
  BY DEF HasTree
<1>1. canvas'[c].stage = "steps" /\ WaveOf[s] = canvas'[c].wave
  BY <1>0 DEF AtWorkInWave, Working
<1>2. canvas[c].stage # "free"
  BY <1>0, <1>1, NextKeeps, BuildsPlace DEF Keeps
<1>3. /\ Live(c) /\ Current(c) /\ parent'.gen = parent.gen /\ (IsTerminal => IsTerminal')
  BY <1>0, <1>2, CurrentPersists
<1>4. ASSUME UNCHANGED child,
             \/ Working(c, s)
             \/ canvas[c].step[s] = "queued" /\ ~IsTerminal
      PROVE  s \in trees \/ Taken(s)
  BY <1>0, <1>3, <1>4 DEF HasTree, InGeneration
<1>5. CASE Callback(c)
  <2>1. canvas[c].stage = "wave" =>
          \A t \in Steps : canvas[c].step[t] \notin {"queued", "working"}
    BY TreeCanvas DEF AtWorkInWave
  <2>2. CASE canvas[c].stage = "wave"
    <3>1. ~Working(c, s)'
      BY <1>0, <2>1, <2>2, StepMovesOn DEF Working
    <3>2. ~IsTerminal' /\ WaveOf[s] = canvas[c].wave
      BY <1>0, <1>1, <2>1, <2>2, <3>1, StepMovesOn
    <3>3. CASE WaveCommits(c)
      <4>1. InGeneration(s) /\ canvas[c].busy
        BY <1>0, <1>3, <3>3, WaveSameRun DEF WaveCommits, SameRun, InGeneration
      <4>2. s \in canvas[c].todo
        BY <1>0, <1>3, <2>2, <3>2, <4>1 DEF WaveHasAll
      <4> QED
        BY <3>3, <4>2 DEF WaveCommits
    <3>4. CASE WaveFails(c)
      BY <1>0, <3>2, <3>4, FailsKept DEF WaveFails, IsTerminal, Terminal
    <3>5. CASE CallbackSkipped(c)
      BY <1>3, <3>2, <3>5 DEF CallbackSkipped, Barred, IsTerminal
    <3>6. ASSUME NEW t \in Steps, Step(c, t) PROVE FALSE
      BY <2>1, <2>2, <3>6 DEF Step, StepSkips, StepRefused, StepClaims, StepDiscarded,
         StepSucceeds, StepFails
    <3> QED
      BY <1>0, <1>1, <1>5, <2>1, <3>3, <3>4, <3>5, <3>6, ReachesWave
  <2>3. CASE canvas[c].stage # "wave"
    <3>1. PICK t \in Steps : Step(c, t)
      <4>1. ~WaveReads(c) /\ ~WaveCommits(c) /\ ~WaveFails(c)
        BY <2>3 DEF WaveReads, WaveCommits, WaveFails
      <4> QED
        BY <1>0, <1>1, <1>5, <2>1, <2>3, <4>1, ReachesWave
    <3>2. UNCHANGED <<trees, parent>>
      BY <3>1 DEF Step, StepSkips, StepRefused, StepClaims, StepDiscarded, StepSucceeds,
         StepFails
    <3>3. child'[s].gen = child[s].gen
      BY <1>0, <3>1, StepWrites
      DEF Step, StepSkips, StepDiscarded
    <3>4. InGeneration(s)
      BY <1>3, <3>3 DEF InGeneration
    <3>5. StepClaims(c, s) => ~IsTerminal
      BY WritersAreLive
    <3>6. Working(c, s) \/ (canvas[c].step[s] = "queued" /\ ~IsTerminal)
      BY <1>0, <1>3, <2>3, <3>5, StepMovesOn DEF Working
    <3> QED
      BY <1>0, <1>3, <3>2, <3>4, <3>6 DEF HasTree
  <2> QED
    BY <2>2, <2>3
<1>6. CASE ~Callback(c)
  <2>1. /\ UNCHANGED child
        /\ trees' = trees \/ parent.status = "CANCELLED"
        /\ canvas'[c].step = canvas[c].step
    BY <1>0, <1>2, <1>6, OneActor, PublishPlace
  <2>2. InGeneration(s)
    BY <1>3, <2>1 DEF InGeneration
  <2>3. parent.status # "CANCELLED"
    BY <1>0, <2>2, PlaceTypes DEF TargetsAreStale, InGeneration
  <2>4. Working(c, s) \/ (canvas[c].step[s] = "queued" /\ ~IsTerminal)
    BY <1>3, <2>1 DEF Working
  <2> QED
    BY <1>4, <2>1, <2>3, <2>4
<1> QED
  BY <1>5, <1>6

-----------------------------------------------------------------------------
(* Directories: what losses, reconciles and cleanups preserve              *)

\* A cleanup remembers the generation that it found terminal; what an overtaken one
\* took stays taken.
LEMMA CleanersNext ==
    ASSUME RecoveryInv, \A x \in Cleaners : CleanupFits(x), [RecoveryNext]_allVars
    PROVE  /\ \A x \in Cleaners : CleanupFits(x)'
           /\ \A s \in Steps : Taken(s) => Taken(s)'
<1>0. /\ TypeOK /\ cleaner \in [Cleaners -> Cleanup] /\ parent.gen \in Nat
      /\ \A x \in Cleaners : cleaner[x].gen \in Nat
  BY DEF RecoveryInv, RecoveryTypeOK, TypeOK, Parent, Cleanup
<1>1. /\ parent'.gen \in Nat /\ parent.gen <= parent'.gen
      /\ IsTerminal => IsTerminal' \/ parent.gen < parent'.gen
  <2>1. CASE [Next]_vars
    BY <1>0, <2>1, NextParent
    DEF ParentMoves, SameParent, FailedParent, PreparedParent, FinishedParent,
        OpenedParent, CancelledParent, RetriedParent, IsTerminal, Terminal
  <2>2. CASE Interferes
    BY <1>0, <2>2, InterferesFields DEF IsTerminal
  <2> QED
    BY <2>1, <2>2, RecoverySteps
<1>2. ASSUME NEW x \in Cleaners, cleaner'[x] = cleaner[x]
      PROVE  CleanupFits(x)'
  BY <1>0, <1>1, <1>2 DEF CleanupFits
<1>3. ASSUME NEW y \in Cleaners, CleanupReads(y)
      PROVE  /\ \A x \in Cleaners : CleanupFits(x)'
             /\ \A s \in Steps : Taken(s) => Taken(s)'
  <2>1. /\ cleaner'[y].gen = parent.gen /\ cleaner'[y].took = {} /\ cleaner[y].took = {}
        /\ UNCHANGED parent /\ IsTerminal
        /\ \A x \in Cleaners \ {y} : cleaner'[x] = cleaner[x]
    <3>1. PICK force \in BOOLEAN :
            /\ CleanupAllowed(force)
            /\ cleaner' = [cleaner EXCEPT ![y] =
                             [pc |-> "remove", force |-> force, integ |-> parent.integ,
                              change |-> parent.change, gen |-> parent.gen, took |-> {}]]
      BY <1>3 DEF CleanupReads
    <3>2. cleaner[y].pc = "idle" /\ UNCHANGED parent
      BY <1>3 DEF CleanupReads, vars
    <3> QED
      BY <1>0, <3>1, <3>2 DEF CleanupFits, CleanupAllowed, IsTerminal, Terminal
  <2>2. CleanupFits(y)'
    BY <1>0, <2>1 DEF CleanupFits, IsTerminal
  <2> QED
    BY <1>2, <2>1, <2>2 DEF Taken
<1>4. ASSUME NEW y \in Cleaners, CleanupRemoves(y)
      PROVE  /\ \A x \in Cleaners : CleanupFits(x)'
             /\ \A s \in Steps : Taken(s) => Taken(s)'
  <2> DEFINE took == IF Overtaken(y) THEN Leftovers ELSE {}
  <2>1. cleaner' = [cleaner EXCEPT ![y].pc = "done", ![y].took = took]
    BY <1>4 DEF CleanupRemoves
  <2> HIDE DEF took
  <2>2. /\ cleaner'[y].pc = "done" /\ cleaner'[y].gen = cleaner[y].gen
        /\ \A x \in Cleaners \ {y} : cleaner'[x] = cleaner[x]
    BY <1>0, <2>1 DEF Cleanup
  <2>3. cleaner[y].took = {}
    BY <1>4 DEF CleanupRemoves, CleanupFits
  <2>4. CleanupFits(y)'
    BY <1>0, <1>1, <2>2 DEF CleanupFits
  <2> QED
    BY <1>2, <2>2, <2>3, <2>4 DEF Taken
<1>5. CASE UNCHANGED cleaner
  BY <1>2, <1>5 DEF Taken
<1> QED
  BY <1>3, <1>4, <1>5
  DEF RecoveryNext, Repair, ReconcileReads, ReconcileRepairs, allVars, extras

LEMMA TreesApart == Integration \notin Steps
BY PlanAssumption DEF Integration, Steps

LEMMA OrphansAreLive ==
    ASSUME TreeInv, NEW d \in Dispatchers, NEW s \in Steps, Orphans(d, s)
    PROVE  /\ Live(d) /\ InCharge(d) /\ canvas[d].stage = "steps"
           /\ WaveOf[s] = canvas[d].wave /\ parent.integ
<1>1. ~StepFenced(d, s) /\ canvas[d].step[s] = "working" /\ Working(d, s)
  BY DEF Orphans, StepLost, Working
<1> QED
  BY <1>1, RecoveryUnfenced, TreeCanvas DEF Prepared

\* The canvas of an interfered execution relates to its parent as before.
LEMMA EbbsPlace ==
    ASSUME TypeOK, Interferes, NEW c \in Dispatchers
    PROVE  /\ Ebbs(c) /\ UNCHANGED parent /\ (IsTerminal' <=> IsTerminal)
           /\ (Current(c)' <=> Current(c)) /\ (Live(c)' <=> Live(c))
           /\ InCharge(c)' => InCharge(c)
           /\ canvas'[c].step \in [Steps -> {"idle", "queued", "working", "done"}]
           /\ disp'[c].pc \in {disp[c].pc, "done"} /\ disp'[c].gen = disp[c].gen
<1>1. /\ Ebbs(c) /\ UNCHANGED parent /\ canvas' \in [Dispatchers -> Canvas]
      /\ disp'[c].pc \in {disp[c].pc, "done"} /\ disp'[c].gen = disp[c].gen
  BY InterferesFields
<1>2. canvas'[c] \in Canvas
  BY <1>1
<1>3. Live(c)' <=> Live(c)
  BY <1>1 DEF Ebbs, Live, Current
<1>4. InCharge(c)' => InCharge(c)
  BY <1>1, <1>3 DEF InCharge
<1> QED
  BY <1>1, <1>2, <1>3, <1>4 DEF Ebbs, Current, IsTerminal, Canvas

\* A row's generation stays, and its status, unless its run had succeeded.
LEMMA EbbsRow ==
    ASSUME TypeOK, Interferes, NEW s \in Steps
    PROVE  /\ child'[s].gen = child[s].gen /\ (InGeneration(s)' <=> InGeneration(s))
           /\ \/ child'[s].status = child[s].status
              \/ \E d \in Dispatchers : Orphans(d, s)
<1>1. UNCHANGED parent
  BY InterferesFields
<1>2. CASE child'[s] = child[s] \/ Repaired(s)
  BY <1>1, <1>2 DEF Repaired, SameRun, InGeneration
<1>3. ASSUME NEW d \in Dispatchers, Orphans(d, s)
      PROVE  child'[s].gen = child[s].gen /\ (InGeneration(s)' <=> InGeneration(s))
  BY <1>1, <1>3 DEF Orphans, InGeneration
<1> QED
  BY <1>2, <1>3, InterferesFields

LEMMA RowEbbs ==
    ASSUME TreeInv, Interferes
    PROVE  /\ Alone' /\ TargetsAreStale'
           /\ \A s \in Steps : Unprepared(s)'
<1>0. TypeOK /\ Alone /\ TargetsAreStale /\ \A s \in Steps : Unprepared(s)
  BY TreeFacts
<1>1. Alone'
  BY <1>0, EbbsPlace DEF Alone
<1>2. TargetsAreStale'
  <2>1. UNCHANGED <<parent, canceller>>
    BY <1>0, InterferesFields
  <2>2. ASSUME NEW c \in Dispatchers
        PROVE  /\ canvas'[c].stage = "free" <=> canvas[c].stage = "free"
               /\ canvas'[c].ids = canvas[c].ids /\ canvas'[c].gen = canvas[c].gen
    BY <1>0, EbbsPlace DEF Ebbs
  <2>3. \A k \in Cancellers : canceller[k].targets \subseteq Dispatchers
    BY <1>0 DEF TypeOK, Canceller
  <2>4. \A s \in Steps : child'[s].gen = child[s].gen
    BY <1>0, EbbsRow
  <2>5. \A c \in Dispatchers : canvas'[c].stage = "free" => canvas'[c].ids = None
    BY <1>0, <2>2 DEF TargetsAreStale
  <2>6. \A k \in Cancellers : \A d \in canceller'[k].targets :
          canvas'[d].stage # "free" /\ canvas'[d].gen < parent'.gen
    BY <1>0, <2>1, <2>2, <2>3 DEF TargetsAreStale
  <2>7. \A s \in Steps :
          /\ child'[s].gen <= parent'.gen
          /\ parent'.status = "CANCELLED" => child'[s].gen < parent'.gen
    BY <1>0, <2>1, <2>4 DEF TargetsAreStale
  <2> QED
    BY <2>5, <2>6, <2>7 DEF TargetsAreStale
<1>3. ASSUME NEW s \in Steps PROVE Unprepared(s)'
  <2>1. UNCHANGED parent
    BY <1>0, InterferesFields
  <2>2. ~parent.integ => child'[s].status = child[s].status
    BY <1>0, EbbsRow, OrphansAreLive
  <2> QED
    BY <1>0, <2>1, <2>2 DEF Unprepared, IsTerminal
<1> QED
  BY <1>1, <1>2, <1>3

LEMMA CanvasEbbs ==
    ASSUME TreeInv, Interferes, NEW c \in Dispatchers
    PROVE  SuccessIsPast(c)' /\ DispatchFits(c)'
<1>0. TypeOK /\ SuccessIsPast(c) /\ DispatchFits(c)
  BY TreeFacts
<1>1. /\ Ebbs(c) /\ UNCHANGED parent /\ (IsTerminal' <=> IsTerminal)
      /\ (Live(c)' <=> Live(c))
      /\ disp'[c].pc \in {disp[c].pc, "done"} /\ disp'[c].gen = disp[c].gen
  BY <1>0, EbbsPlace
<1>2. SuccessIsPast(c)'
  BY <1>0, <1>1 DEF SuccessIsPast, Ebbs
<1>3. DispatchFits(c)'
  <2>1. disp'[c].pc \in {"publish", "confirm"} =>
          canvas'[c].stage # "free" /\ disp'[c].gen <= canvas'[c].gen
    BY <1>0, <1>1 DEF DispatchFits, Ebbs
  <2>2. disp'[c].pc = "persist" /\ disp'[c].gen = parent'.gen => IsTerminal'
    BY <1>0, <1>1 DEF DispatchFits
  <2>3. disp'[c].gen <= parent'.gen
    BY <1>0, <1>1 DEF DispatchFits
  <2> QED
    BY <2>1, <2>2, <2>3 DEF DispatchFits
<1> QED
  BY <1>2, <1>3

LEMMA PlaceEbbs ==
    ASSUME TreeInv, Interferes, NEW c \in Dispatchers, NEW s \in Steps
    PROVE  /\ AtWorkInWave(c, s)' /\ Prepared(c, s)' /\ ComingIsPending(c, s)'
           /\ WaveHasAll(c, s)' /\ TerminalIsQuiet(c, s)'
<1>0. /\ TypeOK /\ CanvasLifecycle /\ Alone /\ AtWorkInWave(c, s) /\ Prepared(c, s)
      /\ ComingIsPending(c, s) /\ WaveHasAll(c, s) /\ TerminalIsQuiet(c, s)
  BY TreeFacts, TreeCanvas
<1>1. /\ Ebbs(c) /\ UNCHANGED parent /\ (IsTerminal' <=> IsTerminal)
      /\ (Current(c)' <=> Current(c)) /\ (Live(c)' <=> Live(c))
      /\ disp'[c].pc \in {disp[c].pc, "done"}
  BY <1>0, EbbsPlace
<1>2. Working(c, s)' => Working(c, s)
  BY <1>1 DEF Ebbs, Working
<1>3. AtWorkInWave(c, s)'
  BY <1>0, <1>1 DEF AtWorkInWave, Ebbs
<1>4. Prepared(c, s)'
  BY <1>0, <1>1, <1>2 DEF Prepared, Ebbs
<1>5. WaveHasAll(c, s)'
  BY <1>0, <1>1, EbbsRow DEF WaveHasAll, Ebbs
<1>6. TerminalIsQuiet(c, s)'
  BY <1>0, <1>1, <1>2 DEF TerminalIsQuiet
<1>7. ComingIsPending(c, s)'
  <2> SUFFICES ASSUME InGeneration(s)', disp'[c].pc = "build" \/ (Live(c)' /\ Coming(c, s)')
               PROVE  child'[s].status = "PENDING"
    BY DEF ComingIsPending
  <2>1. InGeneration(s)
    BY <1>0, EbbsRow
  <2>2. disp[c].pc = "build" \/ (Live(c) /\ Coming(c, s))
    BY <1>1 DEF Coming, Ebbs
  <2>3. child[s].status = "PENDING" /\ InCharge(c)
    BY <1>0, <2>1, <2>2 DEF ComingIsPending, InCharge
  <2>4. ASSUME NEW d \in Dispatchers, Orphans(d, s) PROVE FALSE
    <3>1. Live(d) /\ InCharge(d) /\ canvas[d].stage = "steps" /\ WaveOf[s] = canvas[d].wave
      BY <2>4, OrphansAreLive
    <3>2. d = c
      BY <1>0, <2>3, <3>1 DEF Alone
    <3>3. WaveOf[s] \in Nat /\ canvas[c].wave \in Nat
      BY <1>0, PlaceTypes
    <3> QED
      BY <1>0, <2>2, <3>1, <3>2, <3>3 DEF Coming, CanvasLifecycle
  <2> QED
    BY <1>0, <2>3, <2>4, EbbsRow
<1> QED
  BY <1>3, <1>4, <1>5, <1>6, <1>7

\* The directory of a step at work is not one that a lost merge_wave or a lost
\* finalizer removes; a cleanup that removes it was overtaken by a retry.
LEMMA TreeEbbs ==
    ASSUME TreeInv, Interferes, \A t \in Steps : Taken(t) => Taken(t)',
           NEW c \in Dispatchers, NEW s \in Steps
    PROVE  HasTree(c, s)'
<1>0. /\ TypeOK /\ CanvasLifecycle /\ Alone /\ AtWorkInWave(c, s) /\ HasTree(c, s)
      /\ TerminalIsQuiet(c, s)
  BY TreeFacts, TreeCanvas
<1>1. /\ Ebbs(c) /\ (IsTerminal' <=> IsTerminal) /\ (Current(c)' <=> Current(c))
      /\ canvas'[c].stage = "free" <=> canvas[c].stage = "free"
  BY <1>0, EbbsPlace DEF Ebbs
<1> SUFFICES ASSUME Current(c)', InGeneration(s)',
                    \/ canvas'[c].step[s] = "queued" /\ ~IsTerminal'
                    \/ Working(c, s)', ~Taken(s)
             PROVE  s \in trees' \/ Taken(s)'
  BY DEF HasTree
<1>2. Current(c) /\ InGeneration(s)
  BY <1>0, <1>1, EbbsRow
<1>3. Working(c, s) \/ canvas[c].step[s] = "queued"
  BY <1>1 DEF Ebbs, Working
<1>4. ~IsTerminal
  BY <1>0, <1>1, <1>2 DEF TerminalIsQuiet, Ebbs, Working
<1>5. s \in trees /\ canvas[c].stage = "steps" /\ InCharge(c)
  BY <1>0, <1>2, <1>3, <1>4 DEF HasTree, AtWorkInWave, Working, InCharge, Live
<1>6. ASSUME NEW d \in Dispatchers, MergeLost(d) PROVE s \in trees'
  <2>1. InCharge(d) /\ canvas[d].stage = "merge"
    BY <1>6 DEF MergeLost, Merging, Barred, InCharge, Live
  <2> QED
    BY <1>0, <1>5, <2>1 DEF Alone
<1>7. ASSUME NEW d \in Dispatchers, FinalizeLost(d) PROVE s \in trees'
  BY <1>4, <1>5, <1>7 DEF FinalizeLost, Cleanable, IsTerminal, Terminal
<1>8. ASSUME NEW r \in Reconcilers, ReconcileRepairs(r) PROVE s \in trees'
  BY <1>0, <1>5, <1>8, ReconcileRow
<1>9. ASSUME NEW x \in Cleaners, CleanupRemoves(x) PROVE s \in trees' \/ Taken(s)'
  <2>1. cleaner[x].pc = "remove" /\ cleaner[x].gen < parent.gen
    BY <1>4, <1>9, TreeFacts DEF CleanupFits, CleanupRemoves
  <2>2. cleaner \in [Cleaners -> Cleanup] /\ cleaner[x].gen \in Nat /\ parent.gen \in Nat
    BY <1>0, TreeFacts DEF RecoveryInv, RecoveryTypeOK, TypeOK, Parent, Cleanup
  <2>3. Overtaken(x)
    BY <1>4, <2>1, <2>2 DEF Overtaken
  <2>4. cleaner'[x].took = Leftovers
    BY <1>9, <2>2, <2>3 DEF CleanupRemoves, Cleanup
  <2>5. s \in trees' \/ s \in Leftovers
    BY <1>5, <1>9, TreesApart DEF CleanupRemoves
  <2> QED
    BY <2>4, <2>5 DEF Taken
<1>10. ASSUME NEW d \in Dispatchers, PrepareLost(d) PROVE s \in trees'
  BY <1>5, <1>10 DEF PrepareLost
<1> QED
  BY <1>5, <1>6, <1>7, <1>8, <1>9, <1>10 DEF Interferes, RetryLost, StepLost

-----------------------------------------------------------------------------
(* Directories: the theorems                                               *)

LEMMA TreeInit == RecoveryInit => TreeInv
<1> SUFFICES ASSUME RecoveryInit PROVE TreeInv
  OBVIOUS
<1>1. RecoveryInv /\ Init
  BY RecoveryInvInit DEF RecoveryInit
<1>2. /\ parent.status = "RUNNING" /\ parent.gen = 0 /\ ~parent.integ
      /\ \A s \in Steps : child[s] = NewChild
      /\ \A k \in Cancellers : canceller[k].targets = {}
      /\ \A c \in Dispatchers :
           /\ canvas[c].stage = "free" /\ canvas[c].ids = None /\ canvas[c].gen = 0
           /\ \A s \in Steps : canvas[c].step[s] = "idle"
           /\ disp[c].gen = 0 /\ disp[c].pc \in {"build", "idle"}
           /\ disp[c].pc = "build" => c = Resume
  BY <1>1 DEF Init, NoCanvas
<1>3. \A s \in Steps : child[s].status = "PENDING" /\ child[s].gen = 0
  BY <1>2 DEF NewChild
<1>4. Alone
  BY <1>2 DEF Alone, InCharge, Live
<1>5. TargetsAreStale
  BY <1>2, <1>3 DEF TargetsAreStale
<1>6. \A s \in Steps : Unprepared(s)
  BY <1>2, <1>3 DEF Unprepared, IsTerminal, Terminal
<1>7. /\ \A c \in Dispatchers : SuccessIsPast(c) /\ DispatchFits(c)
      /\ \A x \in Cleaners : CleanupFits(x)
  BY <1>2 DEF SuccessIsPast, DispatchFits, CleanupFits, RecoveryInit
<1>8. ASSUME NEW c \in Dispatchers, NEW s \in Steps
      PROVE  /\ AtWorkInWave(c, s) /\ Prepared(c, s) /\ ComingIsPending(c, s)
             /\ WaveHasAll(c, s) /\ TerminalIsQuiet(c, s) /\ HasTree(c, s)
  BY <1>2, <1>3
  DEF AtWorkInWave, Prepared, ComingIsPending, WaveHasAll, TerminalIsQuiet, HasTree,
      Working, Live
<1> QED
  BY <1>1, <1>4, <1>5, <1>6, <1>7, <1>8 DEF TreeInv

LEMMA TreeNext ==
    ASSUME TreeInv, [RecoveryNext]_allVars, [Timely]_allVars
    PROVE  TreeInv'
<1>1. /\ RecoveryInv' /\ TypeOK' /\ CanvasLifecycle'
      /\ TypeOK /\ CanvasLifecycle /\ Alone /\ TargetsAreStale
  BY TreeFacts, RecoveryInvNext DEF RecoveryInv, RecoveryTypeOK
<1>c. /\ \A x \in Cleaners : CleanupFits(x)'
      /\ \A s \in Steps : Taken(s) => Taken(s)'
  BY TreeFacts, CleanersNext
<1>2. CASE Timely /\ [Next]_vars
  <2>0. TimelyRetry /\ EarlyFailure
    BY <1>2 DEF Timely
  <2>1. Alone' /\ TargetsAreStale'
    BY <1>1, <1>2, <2>0, AloneNext, TargetsKept
  <2>2. \A s \in Steps : Unprepared(s)'
    BY <1>1, <1>2, UnpreparedNext
  <2>3. \A c \in Dispatchers : SuccessIsPast(c)' /\ DispatchFits(c)'
    BY <1>1, <1>2, SuccessPastNext, DispatchFitsNext
  <2>4. ASSUME NEW c \in Dispatchers, NEW s \in Steps
        PROVE  /\ AtWorkInWave(c, s)' /\ Prepared(c, s)' /\ ComingIsPending(c, s)'
               /\ WaveHasAll(c, s)' /\ TerminalIsQuiet(c, s)' /\ HasTree(c, s)'
    BY <1>1, <1>c, <1>2, <2>0, <2>1, AtWorkNext, PreparedNext, ComingNext, WaveHasAllNext,
       QuietNext, HasTreeNext
  <2> QED
    BY <1>1, <1>c, <2>1, <2>2, <2>3, <2>4 DEF TreeInv
<1>3. CASE Timely /\ Interferes
  <2>1. Alone' /\ TargetsAreStale' /\ \A s \in Steps : Unprepared(s)'
    BY <1>3, RowEbbs
  <2>2. \A c \in Dispatchers : SuccessIsPast(c)' /\ DispatchFits(c)'
    BY <1>3, CanvasEbbs
  <2>3. ASSUME NEW c \in Dispatchers, NEW s \in Steps
        PROVE  /\ AtWorkInWave(c, s)' /\ Prepared(c, s)' /\ ComingIsPending(c, s)'
               /\ WaveHasAll(c, s)' /\ TerminalIsQuiet(c, s)' /\ HasTree(c, s)'
    BY <1>c, <1>3, PlaceEbbs, TreeEbbs
  <2> QED
    BY <1>1, <1>c, <2>1, <2>2, <2>3 DEF TreeInv
<1>4. CASE UNCHANGED allVars
  <2>1. UNCHANGED vars /\ UNCHANGED cleaner
    BY <1>4 DEF allVars, extras
  <2> QED
    BY <1>1, <1>c, <2>1 DEF vars, TreeInv, Taken, Alone, InCharge, Live, Current, TargetsAreStale,
       Unprepared, IsTerminal, SuccessIsPast, DispatchFits, AtWorkInWave, Prepared,
       ComingIsPending, InGeneration, Coming, WaveHasAll, TerminalIsQuiet, HasTree,
       Working
<1> QED
  BY <1>2, <1>3, <1>4, RecoverySteps

\* The canvas in charge, the rows of the steps that it comes to and the directories
\* stay together through losses, reconciles, cleanups, and timely retries and dispatch
\* failures.
THEOREM TreeCorrect == RecoverySpec /\ [][Timely]_allVars => []TreeInv
BY TreeInit, TreeNext, PTL DEF RecoverySpec

\* Whatever is lost, redelivered, retried, reconciled or cleaned up, a run loses its
\* directory only to a cleanup that a retry has overtaken, as long as retries and
\* failed dispatches are timely.
THEOREM RecoveryWorktreeSpared == RecoverySpec /\ [][Timely]_allVars => []WorktreeSpared
<1>1. TreeInv => WorktreeSpared
  <2> SUFFICES ASSUME TreeInv, NEW c \in Dispatchers, NEW s \in Steps, WorkingNow(c, s)
               PROVE  s \in trees \/ Taken(s)
    BY DEF WorktreeSpared
  <2> QED
    BY TreeCanvas DEF WorkingNow, StepFenced, HasTree, Current, InGeneration
<1> QED
  BY <1>1, TreeCorrect, PTL

NoneTaken == \A x \in Cleaners : cleaner[x].took = {}

LEMMA NoneTakenNext ==
    ASSUME RecoveryInv, NoneTaken, [RecoveryNext]_allVars, [TimelyCleanup]_allVars
    PROVE  NoneTaken'
<1>0. cleaner \in [Cleaners -> Cleanup]
  BY DEF RecoveryInv, RecoveryTypeOK
<1>1. ASSUME NEW y \in Cleaners, CleanupReads(y) PROVE NoneTaken'
  BY <1>0, <1>1 DEF CleanupReads, NoneTaken
<1>2. ASSUME NEW y \in Cleaners, CleanupRemoves(y), TimelyCleanup PROVE NoneTaken'
  <2>1. ~Overtaken(y)
    BY <1>2 DEF TimelyCleanup, Overtaken
  <2>2. cleaner' = [cleaner EXCEPT ![y].pc = "done", ![y].took = {}]
    BY <1>2, <2>1 DEF CleanupRemoves
  <2> QED
    BY <1>0, <2>2 DEF NoneTaken, Cleanup
<1>3. CASE UNCHANGED cleaner
  BY <1>3 DEF NoneTaken
<1> QED
  BY <1>1, <1>2, <1>3
  DEF RecoveryNext, Repair, ReconcileReads, ReconcileRepairs, allVars, extras

\* A run whose message is delivered again after its worker was lost finds its
\* directory as the first run did, whatever merge_wave, the finalizer or a cleanup
\* removed, as long as cleanups are timely too.
THEOREM RecoveryWorktreeKept ==
    RecoverySpec /\ [][Timely]_allVars /\ [][TimelyCleanup]_allVars => []WorktreeKept
<1>1. RecoveryInit => NoneTaken
  BY DEF RecoveryInit, NoneTaken
<1>2. RecoverySpec /\ [][TimelyCleanup]_allVars => []NoneTaken
  BY <1>1, NoneTakenNext, RecoveryInvCorrect, PTL DEF RecoverySpec
<1>3. WorktreeSpared /\ NoneTaken => WorktreeKept
  BY DEF WorktreeSpared, NoneTaken, Taken, WorktreeKept
<1> QED
  BY <1>2, <1>3, RecoveryWorktreeSpared, PTL
=============================================================================

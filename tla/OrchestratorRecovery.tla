------------------------ MODULE OrchestratorRecovery ------------------------
(***************************************************************************)
(* OrchestratorExecution with what goes wrong around it and the two        *)
(* endpoints that are meant to repair it: workers that are lost (Celery    *)
(* redelivers their message: task_acks_late, task_reject_on_worker_lost)   *)
(* or killed at the hard time limit (the message is gone), API processes   *)
(* that die, reconcile_orchestrator and cleanup_terminal_orchestrator,     *)
(* which read the rows without a lock.                                     *)
(***************************************************************************)
EXTENDS OrchestratorExecution

CONSTANTS
    Reconcilers,   \* users who may ask for a reconcile, again and again
    Cleaners,      \* cleanup requests
    MaxLosses      \* bound on lost workers and killed processes

ASSUME LossAssumption == MaxLosses \in Nat

VARIABLES
    losses,        \* how many there were
    reconciler,    \* progress of each reconcile request, and what it read
    cleaner        \* progress of each cleanup request, and what it read

extras == <<losses, reconciler, cleaner>>
allVars == <<vars, extras>>

Snapshot == [pc : {"idle", "repair", "done", "failed"}, parent : Parent,
             child : [Steps -> Child]]
Cleanup == [pc : {"idle", "remove", "done"}, force : BOOLEAN,
            integ : BOOLEAN, change : BOOLEAN,
            gen : Nat,             \* the generation it found terminal (ghost)
            took : SUBSET Steps]   \* the directories it removed although a retry
                                   \* had taken the execution up again (ghost)

(* Type correctness of the execution's state and of the extension's own.   *)
RecoveryTypeOK ==
    /\ TypeOK
    /\ losses \in 0..MaxLosses
    /\ reconciler \in [Reconcilers -> Snapshot]
    /\ cleaner \in [Cleaners -> Cleanup]

RecoveryInit ==
    /\ Init
    /\ losses = 0
    /\ reconciler = [r \in Reconcilers |->
                       [pc |-> "idle", parent |-> parent, child |-> child]]
    /\ cleaner = [x \in Cleaners |-> [pc |-> "idle", force |-> FALSE,
                                      integ |-> FALSE, change |-> FALSE,
                                      gen |-> 0, took |-> {}]]

-----------------------------------------------------------------------------
(***************************************************************************)
(* Lost workers                                                            *)
(***************************************************************************)
Lose == losses < MaxLosses /\ losses' = losses + 1

\* The message of the running callback is delivered again, or (the hard time
\* limit) the chain ends here.
Redelivered(r) == [r EXCEPT !.busy = FALSE, !.todo = {}, !.base = {}]
Dropped(r) == [r EXCEPT !.stage = "revoked", !.busy = FALSE]
Interrupt(c) ==
    \/ canvas' = [canvas EXCEPT ![c] = Redelivered(@)]
    \/ canvas' = [canvas EXCEPT ![c] = Dropped(@)]

\* Before the commit: worktrees stay as far as they were registered.
PrepareLost(c) ==
    /\ canvas[c].stage \in {"prepare", "wave"} /\ canvas[c].busy /\ ~Barred(c)
    /\ Lose /\ Interrupt(c)
    /\ trees' \in IF canvas[c].stage = "prepare"
                  THEN {trees, trees \cup {Integration}}
                  ELSE {trees \cup {s \in canvas[c].todo : s < k} :
                           k \in 1..(NumSteps + 1)}
    /\ UNCHANGED <<parent, child, disp, canceller, applied, codeChanges>>

\* merge_wave commits its rows once, after the last step of the wave: a loss at
\* step k leaves picks and removed worktrees that no row tells of.
MergeLost(c) ==
    /\ Merging(c) /\ ~HasFailure(c)
    /\ Lose /\ Interrupt(c)
    /\ \E k \in Pending(c), removed \in BOOLEAN :
         LET before == {s \in Pending(c) : s < k}
             picked == before \cup {k}
         IN  /\ Foldable(picked)
             /\ applied' = applied \cup Picks(picked)
             /\ trees' = IF removed THEN trees \ picked ELSE trees \ before
    /\ UNCHANGED <<parent, child, disp, canceller, codeChanges>>

\* Before finalize's commit nothing is left; after it, the finalizer starts
\* over with part of the worktrees removed.
FinalizeLost(c) ==
    /\ \/ canvas[c].stage = "finalize" /\ canvas[c].busy /\ UNCHANGED trees
       \/ /\ canvas[c].stage = "cleanup" /\ Cleanable(c)
          /\ \E k \in Steps : trees' = trees \ {s \in Leftovers : s < k}
    /\ Lose
    /\ \/ canvas' = [canvas EXCEPT ![c].stage = "finalize", ![c].busy = FALSE]
       \/ canvas' = [canvas EXCEPT ![c] = Dropped(@)]
    /\ UNCHANGED <<parent, child, disp, canceller, applied, codeChanges>>

\* A step's worker is lost while the agent works, or after the row was
\* committed and before Celery heard of it; a step killed at the hard limit
\* never counts for its chord.
StepLost(c, s) ==
    /\ canvas[c].step[s] = "working" /\ canvas[c].stage = "steps"
    /\ Lose
    /\ \/ UNCHANGED child
       \/ /\ ~StepFenced(c, s) /\ parent.status # "CANCELLED" /\ s \in trees
          /\ \E changed \in BOOLEAN :
               child' = [child EXCEPT ![s].status = "SUCCESS",
                                      ![s].commit = IF changed THEN c ELSE None,
                                      ![s].merge = IF changed THEN "ready"
                                                              ELSE "skipped"]
    /\ \E next \in {"queued", "idle"} :
         canvas' = [canvas EXCEPT ![c].step[s] = next]
    /\ UNCHANGED <<parent, disp, canceller, applied, trees, codeChanges>>

\* The API process of a retry dies before its dispatch is over.
RetryLost(d) ==
    /\ d # Resume /\ disp[d].pc \in {"build", "publish", "confirm", "persist"}
    /\ Lose
    /\ disp' = [disp EXCEPT ![d].pc = "done"]
    /\ UNCHANGED <<parent, child, canvas, canceller, applied, trees, codeChanges>>

-----------------------------------------------------------------------------
(***************************************************************************)
(* reconcile_orchestrator                                                  *)
(***************************************************************************)
ReconcileReads(r) ==
    /\ reconciler[r].pc # "repair" /\ parent.gen > 0
    /\ reconciler' = [reconciler EXCEPT
                        ![r] = [pc |-> "repair", parent |-> parent,
                                child |-> child]]
    /\ UNCHANGED <<vars, losses, cleaner>>

\* Steps whose worktree is recreated: every step that is not merged.
\* Mutant: a path in the row is taken for a worktree.
MissingIfUnrecorded(old, rows) ==
    {s \in Steps : old.integ /\ rows[s].merge # "merged" /\ ~rows[s].path}
Missing(old, rows) ==
    {s \in Steps : /\ old.integ /\ rows[s].merge # "merged"
                   /\ ~rows[s].path \/ s \notin trees}

\* A cherry-pick makes a commit of its own, so that a step's commit is an
\* ancestor of the integration branch only if the pick reproduced it (same
\* parent, same second).
Reconciled(s, row, ancestor) ==
    CASE ancestor /\ row.merge # "merged" -> [child[s] EXCEPT !.merge = "merged"]
      [] ~ancestor /\ row.merge = "merged" -> [child[s] EXCEPT !.merge = "ready"]
      [] OTHER -> child[s]

\* An exception at step k keeps what was done before it.  The parent's row stays
\* as it is: reconcile assigns metadata_json, but always the very text it read
\* (the recreated worktree has the path and the branch that are recorded), and
\* the session writes only columns whose value differs from what it loaded.
ReconcileRepairs(r) ==
    LET old == reconciler[r].parent
        rows == reconciler[r].child
    IN
    /\ reconciler[r].pc = "repair"
    /\ \E k \in 1..(NumSteps + 1) :
       \E ancestors \in SUBSET {s \in Steps : <<s, rows[s].commit>> \in applied} :
         LET done == {s \in Steps : s < k}
             recreated == Missing(old, rows) \cap done
         IN
         /\ trees' = trees \cup recreated \cup
                     (IF old.integ THEN {Integration} ELSE {})
         /\ child' = [s \in Steps |->
                        IF s \notin done THEN child[s]
                        ELSE [Reconciled(s, rows[s], s \in ancestors) EXCEPT
                                !.path = IF s \in recreated THEN TRUE ELSE @]]
         /\ reconciler' = [reconciler EXCEPT
                             ![r].pc = IF done = Steps THEN "done" ELSE "failed"]
    /\ UNCHANGED <<parent, canvas, disp, canceller, applied, codeChanges, losses,
                   cleaner>>

(***************************************************************************)
(* cleanup_terminal_orchestrator                                           *)
(***************************************************************************)

\* Mutant: force overrides the check that the task is terminal.
AllowedIfForced(force) == parent.status = "SUCCESS" \/ force
CleanupAllowed(force) == parent.status = "SUCCESS" \/ (IsTerminal /\ force)

CleanupReads(x) ==
    /\ cleaner[x].pc = "idle" /\ parent.gen > 0
    /\ \E force \in BOOLEAN :
         /\ CleanupAllowed(force)
         /\ cleaner' = [cleaner EXCEPT
                          ![x] = [pc |-> "remove", force |-> force,
                                  integ |-> parent.integ,
                                  change |-> parent.change,
                                  gen |-> parent.gen, took |-> {}]]
    /\ UNCHANGED <<vars, losses, reconciler>>

\* With force, and no CodeChange that needs it, the integration worktree and
\* branch go too.  (A rejected CodeChange does not need it: the review is not
\* modelled here.)
Unneeded(x) == cleaner[x].force /\ cleaner[x].integ /\ ~cleaner[x].change

\* The removal looks at no status and no generation again.
Overtaken(x) == cleaner[x].gen # parent.gen /\ ~IsTerminal

CleanupRemoves(x) ==
    /\ cleaner[x].pc = "remove"
    /\ trees' = trees \ (Leftovers \cup IF Unneeded(x) THEN {Integration} ELSE {})
    /\ applied' = IF Unneeded(x) THEN {} ELSE applied
    /\ cleaner' = [cleaner EXCEPT ![x].pc = "done",
                                   ![x].took = IF Overtaken(x) THEN Leftovers ELSE {}]
    /\ UNCHANGED <<parent, child, canvas, disp, canceller, codeChanges, losses,
                   reconciler>>

-----------------------------------------------------------------------------
Loss ==
    \/ \E d \in Dispatchers :
          \/ PrepareLost(d) \/ MergeLost(d) \/ FinalizeLost(d) \/ RetryLost(d)
          \/ \E s \in Steps : StepLost(d, s)

Repair ==
    \/ \E r \in Reconcilers : ReconcileReads(r) \/ ReconcileRepairs(r)
    \/ \E x \in Cleaners : CleanupReads(x) \/ CleanupRemoves(x)

RecoveryNext ==
    \/ Next /\ UNCHANGED extras
    \/ Loss /\ UNCHANGED <<reconciler, cleaner>>
    \/ Repair

RecoverySpec == RecoveryInit /\ [][RecoveryNext]_allVars

\* Workers keep running, redelivered messages are taken up again, and somebody
\* keeps asking for a reconcile.
RecoveryFairSpec ==
    /\ RecoverySpec /\ Fairness
    /\ \A r \in Reconcilers : WF_allVars(ReconcileReads(r) \/ ReconcileRepairs(r))

-----------------------------------------------------------------------------
(* Properties *)

\* The integration worktree of a generated CodeChange stays until its review.
\* (Refuted by a forced cleanup that races with a retry: see README.md.)
IntegrationIsKept == parent.change => Integration \in trees

\* Whatever is lost, redelivered, retried, reconciled or cleaned up, a run loses the
\* directory it works in to one thing only: a cleanup that read a terminal status,
\* and came to its removal when a retry had taken the execution up again.
\* (That this happens refutes WorktreeKept: see README.md.)
Taken(s) == \E x \in Cleaners : s \in cleaner[x].took
WorktreeSpared ==
    \A c \in Dispatchers, s \in Steps : WorkingNow(c, s) => s \in trees \/ Taken(s)

\* A reconcile that nothing interferes with leaves the rows and git in agreement:
\* what is called merged afterwards is on the integration branch, and a step that
\* is not has its worktree, unless its row was merged before.  (A row that is set
\* back, which happens to healthy ones, gets a worktree from the next reconcile
\* only: see README.md.)
QuietReconcileAgrees ==
    [][\A r \in Reconcilers :
          /\ ReconcileRepairs(r)
          /\ parent = reconciler[r].parent /\ child = reconciler[r].child
          /\ reconciler'[r].pc = "done" /\ parent.integ
          => /\ Integration \in trees'
             /\ \A s \in Steps :
                   IF child'[s].merge = "merged" THEN Applied(s)
                   ELSE \/ s \in trees' /\ child'[s].path
                        \/ child[s].merge = "merged"]_allVars
=============================================================================

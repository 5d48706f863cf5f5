------------------------- MODULE RecoveryInvariants -------------------------
(* What is left of the execution's invariants when workers are lost and     *)
(* reconciles and cleanups come at any time: the inductive invariants       *)
(* behind the theorems of OrchestratorRecovery_proofs, in a module that TLC *)
(* can check too.                                                           *)
EXTENDS OrchestratorRecovery, ExecutionProgress

RecoveryInv ==
    /\ RecoveryTypeOK
    /\ CanvasLifecycle
    /\ OneCodeChange /\ ChangesFit /\ FinalizerIsRight
    /\ ClaimHeld /\ CommitIsSuccess

-----------------------------------------------------------------------------
(* Which interferences do harm                                             *)

\* No reconcile writes what it read before a retry: of the steps it read, every
\* one still has the commit that it was compared with.
FreshRepair ==
    \A r \in Reconcilers : ReconcileRepairs(r) =>
        \A s \in Steps : child[s].commit = reconciler[r].child[s].commit

\* No cleanup removes the integration branch.
GentleCleanup == \A x \in Cleaners : CleanupRemoves(x) => ~Unneeded(x)

\* No dispatch is reported as failed when steps of its canvas are at work already.
EarlyFailure ==
    \A d \in Dispatchers : DispatchPublishFails(d) => \A s \in Steps : ~Working(d, s)
Timely == TimelyRetry /\ EarlyFailure

\* No cleanup comes back to an execution that was retried meanwhile.
TimelyCleanup == \A x \in Cleaners : CleanupRemoves(x) => IsTerminal

-----------------------------------------------------------------------------
(* Directories: what the current canvas relies on                          *)

\* Only the members of the wave's chord are queued or at work, but for those that a
\* cancellation did not reach.
AtWorkInWave(c, s) ==
    canvas[c].step[s] \in {"queued", "working"} =>
        \/ canvas[c].stage = "steps" /\ WaveOf[s] = canvas[c].wave
        \/ canvas[c].stage = "revoked" /\ ~Current(c)

\* A canvas that goes on has an integration worktree recorded, unless it is about
\* to be.  (One whose message is gone may have none.)
Prepared(c, s) ==
    /\ Working(c, s) => parent.integ
    /\ Live(c) =>
         /\ canvas[c].stage = "prepare" /\ canvas[c].busy => ~parent.integ
         /\ canvas[c].stage \notin {"built", "prepare", "revoked"} =>
              parent.integ \/ parent.status \in {"FAILED", "CANCELLED"}

\* The chain of canvas c has not come to the wave of step s.
Coming(c, s) ==
    \/ canvas[c].stage \in {"built", "prepare", "wave"} /\ canvas[c].wave <= WaveOf[s]
    \/ canvas[c].stage \in {"steps", "merge"} /\ canvas[c].wave < WaveOf[s]
ComingIsPending(c, s) ==
    InGeneration(s) /\ (disp[c].pc = "build" \/ (Live(c) /\ Coming(c, s))) =>
        child[s].status = "PENDING"

\* prepare_wave: what it read before its lock has every step it must prepare.
WaveHasAll(c, s) ==
    Live(c) /\ canvas[c].stage = "wave" /\ canvas[c].busy =>
        (WaveOf[s] = canvas[c].wave /\ InGeneration(s) => s \in canvas[c].todo)

\* After SUCCESS nothing is dispatched, prepared or run.
SuccessIsPast(c) ==
    parent.status = "SUCCESS" =>
        /\ disp[c].pc # "build"
        /\ Live(c) => canvas[c].stage \in {"finalize", "cleanup", "done", "revoked"}

\* Once the execution is over, no current run is left.
TerminalIsQuiet(c, s) == IsTerminal /\ Current(c) => ~Working(c, s)

\* A dispatcher's generation is not ahead, and what a retry reports of its dispatch
\* comes after the end of the execution that it opened.
DispatchFits(d) ==
    /\ disp[d].gen <= parent.gen
    /\ disp[d].pc \in {"publish", "confirm"} =>
         canvas[d].stage # "free" /\ disp[d].gen <= canvas[d].gen
    /\ disp[d].pc = "persist" /\ disp[d].gen = parent.gen => IsTerminal

\* A cleanup removes what it found terminal, or a retry has come since.
CleanupFits(x) ==
    /\ cleaner[x].gen <= parent.gen
    /\ cleaner[x].pc # "done" => cleaner[x].took = {}
    /\ cleaner[x].pc = "remove" => IsTerminal \/ cleaner[x].gen < parent.gen

\* A step that may begin, or has, finds its directory, unless a cleanup that was
\* overtaken by a retry has it.
HasTree(c, s) ==
    Current(c) /\ InGeneration(s) =>
        /\ canvas[c].step[s] = "queued" /\ ~IsTerminal => s \in trees \/ Taken(s)
        /\ Working(c, s) => s \in trees \/ Taken(s)

TreeInv ==
    /\ RecoveryInv /\ Alone /\ TargetsAreStale
    /\ \A s \in Steps : Unprepared(s)
    /\ \A x \in Cleaners : CleanupFits(x)
    /\ \A c \in Dispatchers : SuccessIsPast(c) /\ DispatchFits(c)
    /\ \A c \in Dispatchers, s \in Steps :
         /\ AtWorkInWave(c, s) /\ Prepared(c, s) /\ ComingIsPending(c, s)
         /\ WaveHasAll(c, s) /\ TerminalIsQuiet(c, s) /\ HasTree(c, s)
=============================================================================

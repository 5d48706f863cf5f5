------------------------- MODULE ExecutionProgress -------------------------
(* How far an execution has come: the invariants that relate the canvas in *)
(* charge to the rows of the steps, as long as retries come one by one.    *)
(* Behind the theorems of ExecutionProgress_proofs, in a module that TLC   *)
(* can check too.                                                          *)
EXTENDS ExecutionInvariants

\* No retry commits while the dispatch of another one is still to begin: between
\* a retry's commit and its dispatch's first transaction the execution is not
\* cancelled and retried again.
TimelyRetry ==
    \A d, e \in Dispatchers : RetryCommits(d) => disp[e].pc # "build"

-----------------------------------------------------------------------------
(* Who is in charge                                                        *)

\* A published or recorded canvas of the parent's generation.
Live(c) == canvas[c].stage # "free" /\ Current(c)
InCharge(c) == disp[c].pc = "build" \/ Live(c)
Alone == \A c, d \in Dispatchers : InCharge(c) /\ InCharge(d) => c = d

\* What a cancellation revokes is of an earlier generation, and so are the rows
\* of a cancelled execution.
TargetsAreStale ==
    /\ \A c \in Dispatchers : canvas[c].stage = "free" => canvas[c].ids = None
    /\ \A k \in Cancellers : \A d \in canceller[k].targets :
         canvas[d].stage # "free" /\ canvas[d].gen < parent.gen
    /\ \A s \in Steps :
         /\ child[s].gen <= parent.gen
         /\ parent.status = "CANCELLED" => child[s].gen < parent.gen
RevokedAreStale ==
    /\ TargetsAreStale
    /\ \A c \in Dispatchers : canvas[c].stage = "revoked" => canvas[c].gen < parent.gen

WhoIsInCharge == Alone /\ RevokedAreStale

-----------------------------------------------------------------------------
(* How far the steps are                                                   *)

InGeneration(s) == child[s].gen = parent.gen

\* Only the members of the wave's chord are queued or at work, and merge_wave
\* comes after all of them.
Chord(c, s) ==
    /\ canvas[c].step[s] \in {"queued", "working"} =>
         \/ canvas[c].stage = "steps" /\ WaveOf[s] = canvas[c].wave
         \/ canvas[c].stage = "revoked"
    /\ canvas[c].stage = "merge" /\ WaveOf[s] = canvas[c].wave =>
         canvas[c].step[s] = "done"

\* Before the integration worktree exists, no step has begun.
Unprepared(s) ==
    /\ parent.gen = 0 => ~parent.integ
    /\ ~parent.integ =>
         /\ child[s].status \in {"PENDING", "CANCELLED"}
         /\ ~IsTerminal => child[s].status = "PENDING"
         /\ parent.status # "SUCCESS"
\* A handler that is about to create it is still right that there is none.
PreparedFirst(c, s) ==
    /\ Working(c, s) => parent.integ
    /\ Live(c) =>
         /\ canvas[c].stage = "prepare" /\ canvas[c].busy => ~parent.integ
         /\ canvas[c].stage \notin {"built", "prepare"} =>
              parent.integ \/ parent.status \in {"FAILED", "CANCELLED"}

\* The chain of canvas c has not come to step s, or has just queued it.
Ahead(c, s) ==
    \/ canvas[c].stage \in {"built", "prepare", "wave"} /\ canvas[c].wave <= WaveOf[s]
    \/ canvas[c].stage \in {"steps", "merge"} /\ canvas[c].wave < WaveOf[s]
    \/ canvas[c].stage = "steps" /\ canvas[c].step[s] = "queued"
\* It is over with the wave of step s.
Behind(c, s) ==
    \/ canvas[c].stage \in {"built", "prepare", "wave", "steps", "merge"}
       /\ WaveOf[s] < canvas[c].wave
    \/ canvas[c].stage = "finalize"
\* It is at the wave of step s, and over with the step.
Returned(c, s) ==
    /\ canvas[c].stage \in {"steps", "merge"} /\ WaveOf[s] = canvas[c].wave
    /\ canvas[c].step[s] = "done"

\* The rows follow the canvas in charge: a step of its generation is PENDING ahead
\* of it, RUNNING while it is at work, SUCCESS or FAILED when it has returned, and
\* every step is finished behind it.
NotBegun(c, s) ==
    InGeneration(s) /\ (disp[c].pc = "build" \/ (Live(c) /\ Ahead(c, s))) =>
        child[s].status = "PENDING"
AtWorkIsRunning(c, s) == Working(c, s) /\ Current(c) => child[s].status = "RUNNING"
ReturnedIsOver(c, s) ==
    Live(c) /\ ~IsTerminal /\ Returned(c, s) => child[s].status \in {"SUCCESS", "FAILED"}
BehindIsFinished(c, s) ==
    /\ disp[c].pc = "build" /\ WaveOf[s] < disp[c].start => Finished(s)
    /\ Live(c) /\ ~IsTerminal /\ Behind(c, s) => Finished(s)
Follows(c, s) ==
    /\ NotBegun(c, s) /\ AtWorkIsRunning(c, s)
    /\ ReturnedIsOver(c, s) /\ BehindIsFinished(c, s)

\* What a retry does not take into its generation is finished; what is folded
\* has succeeded.
OldIsFinished(s) == ~IsTerminal /\ parent.integ /\ ~InGeneration(s) => Finished(s)
FoldedIsSuccess(s) ==
    /\ Folded(s) => child[s].status = "SUCCESS"
    /\ child[s].merge = "skipped" => child[s].commit = None

RowFits(s) ==
    /\ Unprepared(s) /\ OldIsFinished(s) /\ FoldedIsSuccess(s)
    /\ parent.status = "SUCCESS" => Finished(s)
CanvasFits(c, s) == Chord(c, s) /\ PreparedFirst(c, s) /\ Follows(c, s)

Progress ==
    /\ \A s \in Steps : RowFits(s)
    /\ \A c \in Dispatchers, s \in Steps : CanvasFits(c, s)

ProgressInv == ExecutionInv /\ WhoIsInCharge /\ Progress

-----------------------------------------------------------------------------
(* Git: what the branch and the directories hold                           *)

\* prepare_wave: what it read before its lock is still what it has to prepare.
WaveIsRead ==
    \A c \in Dispatchers : Live(c) /\ canvas[c].stage = "wave" /\ canvas[c].busy =>
        \A s \in Steps :
            /\ WaveOf[s] = canvas[c].wave /\ InGeneration(s) => s \in canvas[c].todo
            /\ ~IsTerminal /\ WaveOf[s] < canvas[c].wave /\ child[s].commit # None =>
                 <<s, child[s].commit>> \in canvas[c].base

\* A step that may begin, or has, finds its directory and a base with the commits
\* of the waves before.
Ready(s) ==
    /\ s \in trees /\ child[s].path
    /\ \A t \in Steps : WaveOf[t] < WaveOf[s] =>
         /\ Finished(t)
         /\ child[t].commit # None => <<t, child[t].commit>> \in child[s].base
StepsAreReady ==
    \A c \in Dispatchers, s \in Steps : Current(c) /\ InGeneration(s) =>
        /\ canvas[c].step[s] = "queued" /\ ~IsTerminal => Ready(s)
        /\ Working(c, s) => Ready(s)

\* Commits belong to canvases that were recorded; of a canvas in charge, the branch
\* has what the rows say, and a commit of a step that is still to be folded in only
\* if its execution failed.
CommitIsKnown ==
    \A s \in Steps : child[s].commit # None => canvas[child[s].commit].stage # "free"
BranchIsKnown ==
    \A s \in Steps, c \in Dispatchers : <<s, c>> \in applied =>
        canvas[c].stage # "free" /\ (Current(c) => child[s].commit = c)
BranchIsFolded ==
    ~IsTerminal => \A s \in Steps :
        child[s].merge # "conflict" /\ (Applied(s) => Folded(s))

\* A step that has succeeded has a directory recorded, for the cleanups to find it;
\* after SUCCESS only the finalizer's cleanup still has some to remove.
SuccessHasPath == \A s \in Steps : child[s].status = "SUCCESS" => child[s].path
CleanedUp ==
    parent.status = "SUCCESS" =>
        \/ trees \cap Steps = {}
        \/ \E c \in Dispatchers : Live(c) /\ canvas[c].stage = "cleanup"

GitInv ==
    /\ ProgressInv
    /\ WaveIsRead /\ StepsAreReady /\ SuccessHasPath
    /\ CommitIsKnown /\ BranchIsKnown /\ BranchIsFolded /\ ConflictIsReal
=============================================================================

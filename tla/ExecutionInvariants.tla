------------------------ MODULE ExecutionInvariants ------------------------
(* The inductive invariants behind the theorems of                         *)
(* ExecutionSafety_proofs, in a module that TLC can check too, and       *)
(* the mapping to OrchestratorContract.                                    *)
EXTENDS OrchestratorExecution

\* A canvas exists from the dispatch's first transaction on, and belongs to
\* a generation the parent has reached.
CanvasLifecycle ==
    \A c \in Dispatchers :
        /\ canvas[c].gen <= parent.gen
        /\ canvas[c].stage # "free" => canvas[c].gen > 0
        /\ disp[c].pc \in {"idle", "build"} => canvas[c].stage = "free"
        /\ canvas[c].stage \in {"free", "built"} =>
              /\ ~canvas[c].busy
              /\ \A s \in Steps : ~Working(c, s)
        /\ canvas[c].stage \in {"steps", "merge"} => ~canvas[c].busy

\* A finalizer that has read "no CodeChange yet" is still right about it
\* unless the barrier under the lock stops it.
FinalizerIsRight ==
    \A c \in Dispatchers :
        canvas[c].stage = "finalize" /\ canvas[c].busy /\ ~Barred(c)
            => ~parent.change

\* An execution that goes on generated its CodeChanges in earlier generations.
ChangesFit ==
    ~IsTerminal /\ parent.gen > 0 =>
        codeChanges.named + codeChanges.orphaned < parent.gen

\* A current run works for the child's generation, holds its claim, and the
\* child looks RUNNING to everyone who could still claim it.
ClaimHeld ==
    \A c \in Dispatchers, s \in Steps :
        Working(c, s) /\ Current(c) =>
            /\ child[s].gen = canvas[c].gen
            /\ child[s].claim = c
            /\ child[s].commit = None
            /\ parent.status \notin {"FAILED", "CANCELLED"} =>
                  child[s].status = "RUNNING"

\* Only a successful step has a commit.
CommitIsSuccess ==
    \A s \in Steps : child[s].commit # None => child[s].status = "SUCCESS"

ExecutionInv ==
    /\ TypeOK
    /\ CanvasLifecycle
    /\ OneCodeChange /\ ChangesFit /\ FinalizerIsRight
    /\ ClaimHeld /\ CommitIsSuccess /\ MergedIsApplied

\* The execution implements the contract its clients rely on.
Contract == INSTANCE OrchestratorContract WITH
    status <- parent.status, generation <- parent.gen,
    branch <- applied, changes <- codeChanges.named,
    orphans <- codeChanges.orphaned

\* Every step of dispatchers, callbacks, retries and cancellations is a step
\* of the contract or leaves the contract's state alone.
ImplementsContract == Contract!ContractSpec
=============================================================================

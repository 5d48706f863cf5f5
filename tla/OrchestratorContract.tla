------------------------ MODULE OrchestratorContract ------------------------
(***************************************************************************)
(* What the execution of a confirmed plan promises to its clients (the     *)
(* task API, the CodeChange review, the user): a status, a generation that *)
(* every cancellation and every retry advances, an integration branch that *)
(* only the running execution extends, and one CodeChange that SUCCESS     *)
(* comes with; failures before it may leave CodeChanges nobody refers to.  *)
(* Nothing is said of workers, callbacks, messages, locks or worktrees.    *)
(***************************************************************************)
EXTENDS Naturals

CONSTANT Commits    \* the step commits that may be folded in

VARIABLES
    status,       \* Task.status of the orchestrator
    generation,   \* metadata_json.execution_generation
    branch,       \* step commits the integration branch contains
    changes,      \* CodeChange rows code_change_id names
    orphans       \* CodeChange rows of this orchestrator that nothing names

cvars == <<status, generation, branch, changes, orphans>>

ContractInit ==
    /\ status = "RUNNING" /\ generation = 0
    /\ branch = {} /\ changes = 0 /\ orphans = 0

\* The first dispatch opens generation 1.
Open ==
    /\ generation = 0 /\ generation' = 1
    /\ UNCHANGED <<status, branch, changes, orphans>>

\* merge_wave: commits are added, never taken back; the wave may fail half way.
Integrate ==
    /\ status = "RUNNING"
    /\ branch \subseteq branch' /\ branch' \subseteq Commits
    /\ status' \in {"RUNNING", "FAILED"}
    /\ UNCHANGED <<generation, changes, orphans>>

\* finalize_execution.
Succeed ==
    /\ status = "RUNNING" /\ status' = "SUCCESS"
    /\ changes = 0 /\ changes' = 1
    /\ UNCHANGED <<generation, branch, orphans>>

\* A callback or a dispatch failed.  A dispatch notices too late that its
\* execution is over, so that SUCCESS and CANCELLED may become FAILED.  A
\* finalizer that fails leaves one CodeChange at most, once in a generation.
Fail ==
    /\ status' = "FAILED"
    /\ \/ UNCHANGED orphans
       \/ /\ status = "RUNNING" /\ changes = 0
          /\ orphans < generation /\ orphans' = orphans + 1
    /\ UNCHANGED <<generation, branch, changes>>

Cancelled ==
    /\ status = "RUNNING" /\ status' = "CANCELLED"
    /\ generation > 0 /\ generation' = generation + 1
    /\ UNCHANGED <<branch, changes, orphans>>

Retried ==
    /\ status \in {"FAILED", "CANCELLED"} /\ status' = "RUNNING"
    /\ generation > 0 /\ generation' = generation + 1
    /\ UNCHANGED <<branch, changes, orphans>>

ContractNext == Open \/ Integrate \/ Succeed \/ Fail \/ Cancelled \/ Retried

ContractSpec == ContractInit /\ [][ContractNext]_cvars
=============================================================================

---------------------------- MODULE MCExecution ----------------------------
(* Small plans on which OrchestratorExecution is model-checked.            *)
EXTENDS ExecutionProgress

\* One wave of one step, a chain of two, and two parallel steps with a third
\* that needs both (the example of docs/orchestrator-celery-worktree.md).
OneStep == <<0>>
Chain == <<0, 1>>
Parallel == <<0, 0>>
Diamond == <<0, 0, 1>>
=============================================================================

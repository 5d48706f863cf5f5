----------------------------- MODULE MCRecovery -----------------------------
(* Small plans on which OrchestratorRecovery is model-checked.              *)
EXTENDS RecoveryInvariants

OneStep == <<0>>
Chain == <<0, 1>>
Parallel == <<0, 0>>
=============================================================================

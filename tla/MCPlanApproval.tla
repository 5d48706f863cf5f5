--------------------------- MODULE MCPlanApproval ---------------------------
(* Two plans without a common step, on which PlanApproval is checked.       *)
EXTENDS PlanApproval, TLC

CONSTANTS p1, p2, k1, k2, k3, confirm1, confirm2

StepKeys == p1 :> {k1, k2} @@ p2 :> {k3}
=============================================================================

--------------------------- MODULE MCCodeChanges ---------------------------
(***************************************************************************)
(* CodeChanges from the moment the first task of the clone has ended: its  *)
(* branch is at the default branch's commit, its edits are in the tree.    *)
(* The task may have failed in a clone with history and no other change.   *)
(***************************************************************************)
EXTENDS CodeChanges

FirstTaskEnded ==
    \E main \in {NoCommit, 1}, planned \in BOOLEAN, status \in {"SUCCESS", "FAILED"} :
        /\ planned \/ main = NoCommit => status = "SUCCESS"
        /\ Cloned(main, planned, 1, TRUE)
        /\ task = [t \in Tasks |-> IF t = 1 THEN [NoTask EXCEPT !.status = status]
                                   ELSE NoTask]
        /\ run = [t \in Tasks |-> IF t = 1 THEN "ended" ELSE "none"]
        /\ NothingPublished

MCSpec == FirstTaskEnded /\ [][Next]_vars
=============================================================================

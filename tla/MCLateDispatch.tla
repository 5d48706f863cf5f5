--------------------------- MODULE MCLateDispatch ---------------------------
(* A retry whose API process is slow: it has committed its generation but   *)
(* not yet recorded its canvas when the execution is cancelled, retried,    *)
(* fails and is retried once more.  LateInit is what remains after the      *)
(* second retry's canvas failed in the last wave of a chain of two:         *)
(*   gen 1  Resume's canvas failed;                                         *)
(*   gen 2  Retry1 committed and stalled before its dispatch;               *)
(*   gen 3  a cancellation;                                                 *)
(*   gen 4  Retry2's canvas, in which step 2 failed.                        *)
(* Step 1 was merged in generation 1 or in generation 4, so that Retry1     *)
(* and the retry to come start at the same wave or at different ones.       *)
EXTENDS MCExecution

CONSTANTS Retry1, Retry2, Retry3, Cancel1

Published(stage, gen, start, d) ==
    [NoCanvas EXCEPT !.stage = stage, !.gen = gen, !.ids = d,
                     !.start = start, !.wave = start,
                     !.step = [s \in Steps |-> "done"]]

AfterFailures(merger) ==
    LET start == IF merger = Resume THEN 1 ELSE 0 IN
    /\ parent = [status |-> "FAILED", plan |-> "dispatch_queued", gen |-> 4,
                 ids |-> Retry2, canvasId |-> TRUE, integ |-> TRUE,
                 change |-> FALSE]
    /\ child = <<[status |-> "SUCCESS", gen |-> IF merger = Resume THEN 1 ELSE 4,
                  merge |-> "merged", claim |-> merger, commit |-> merger,
                  base |-> {}, path |-> TRUE],
                 [status |-> "FAILED", gen |-> 4, merge |-> "pending",
                  claim |-> Retry2, commit |-> None,
                  base |-> {<<1, merger>>}, path |-> TRUE]>>
    /\ canvas = [d \in Dispatchers |->
                   CASE d = Resume -> Published("revoked", 1, 0, d)
                     [] d = Retry2 -> [Published("done", 4, start, d)
                                         EXCEPT !.wave = 1]
                     [] OTHER      -> NoCanvas]
    /\ disp = [d \in Dispatchers |->
                 [pc |-> CASE d = Retry1 -> "build" [] d = Retry3 -> "idle"
                           [] OTHER -> "done",
                  gen |-> CASE d = Retry1 -> 2 [] d = Retry2 -> 4 [] OTHER -> 0,
                  start |-> IF d \in {Retry1, Retry2} THEN start ELSE 0]]
    /\ canceller = [k \in Cancellers |->
                      IF k = Cancel1
                      THEN [pc |-> "done", gen |-> 3, targets |-> {Resume}]
                      ELSE [pc |-> "idle", gen |-> 0, targets |-> {}]]
    /\ applied = {<<1, merger>>}
    /\ trees = {Integration, 2}
    /\ codeChanges = [named |-> 0, orphaned |-> 0]

LateInit == \E merger \in {Resume, Retry2} : AfterFailures(merger)

LateSpec == LateInit /\ [][Next]_vars
=============================================================================

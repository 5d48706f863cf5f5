--------------------------- MODULE RepositoryLock ---------------------------
(***************************************************************************)
(* repository_git_lock: the Redis key that serialises git metadata         *)
(* operations on one repository across workers and API processes.  The key *)
(* expires after a TTL that nobody renews.                                 *)
(*                                                                         *)
(* Time is counted in ticks.  A caller is known by its name; its token is  *)
(* fresh in each call, but a second call of the same caller cannot begin   *)
(* to hold before the key of its first is gone.                            *)
(***************************************************************************)
EXTENDS Naturals

CONSTANTS
    Callers,   \* worker and API threads that use the repository
    None,      \* the key does not exist
    TTL,       \* repository_git_lock_ttl_seconds
    Timeout,   \* repository_git_lock_timeout_seconds
    MaxHold    \* longest time a body runs: git has no timeout of its own, the
               \* task is killed at Celery's hard time limit

ASSUME LockAssumption ==
    /\ None \notin Callers
    /\ TTL \in Nat \ {0} /\ Timeout \in Nat /\ MaxHold \in Nat

VARIABLES
    owner,   \* whose token the key holds
    ttl,     \* ticks until the key expires
    pc,      \* what each caller does
    timer    \* ticks a caller has waited, or held the lock

vars == <<owner, ttl, pc, timer>>

\* The key, and the callers' progress.
TypeOK ==
    /\ owner \in Callers \cup {None}
    /\ ttl \in 0..TTL
    /\ pc \in [Callers -> {"idle", "waiting", "holding", "dead"}]
    /\ timer \in [Callers -> Nat]

Init ==
    /\ owner = None /\ ttl = 0
    /\ pc = [p \in Callers |-> "idle"]
    /\ timer = [p \in Callers |-> 0]

Call(p) ==
    /\ pc[p] = "idle"
    /\ pc' = [pc EXCEPT ![p] = "waiting"]
    /\ timer' = [timer EXCEPT ![p] = 0]
    /\ UNCHANGED <<owner, ttl>>

\* SET key token NX EX ttl succeeds.
\* Mutants: without NX; without EX (the key never expires).
AcquireAlways(p) ==
    /\ pc[p] = "waiting"
    /\ owner' = p /\ ttl' = TTL
    /\ pc' = [pc EXCEPT ![p] = "holding"]
    /\ timer' = [timer EXCEPT ![p] = 0]
AcquireForever(p) ==
    /\ pc[p] = "waiting" /\ owner = None
    /\ owner' = p /\ ttl' = 0
    /\ pc' = [pc EXCEPT ![p] = "holding"]
    /\ timer' = [timer EXCEPT ![p] = 0]
Acquire(p) ==
    /\ pc[p] = "waiting" /\ owner = None
    /\ owner' = p /\ ttl' = TTL
    /\ pc' = [pc EXCEPT ![p] = "holding"]
    /\ timer' = [timer EXCEPT ![p] = 0]

\* The SET reached Redis but its answer was lost: the call raises and nobody
\* will release the key.
AcquireUnanswered(p) ==
    /\ pc[p] = "waiting" /\ owner = None
    /\ owner' = p /\ ttl' = TTL
    /\ pc' = [pc EXCEPT ![p] = "idle"]
    /\ UNCHANGED timer

\* RepositoryLockTimeout: the deadline has passed and the SET failed once more.
GiveUp(p) ==
    /\ pc[p] = "waiting" /\ owner # None
    /\ timer[p] >= Timeout
    /\ pc' = [pc EXCEPT ![p] = "idle"]
    /\ UNCHANGED <<owner, ttl, timer>>

\* The script deletes the key only if it still holds this call's token.
\* Mutant: an unconditional DEL.
ReleaseAny(p) ==
    /\ pc[p] = "holding"
    /\ owner' = None /\ ttl' = 0
    /\ pc' = [pc EXCEPT ![p] = "idle"]
    /\ UNCHANGED timer
Release(p) ==
    /\ pc[p] = "holding"
    /\ IF owner = p THEN owner' = None /\ ttl' = 0
                    ELSE UNCHANGED <<owner, ttl>>
    /\ pc' = [pc EXCEPT ![p] = "idle"]
    /\ UNCHANGED timer

\* Redis does not answer: the body is over and the key stays.
ReleaseFails(p) ==
    /\ pc[p] = "holding"
    /\ pc' = [pc EXCEPT ![p] = "idle"]
    /\ UNCHANGED <<owner, ttl, timer>>

\* The process is killed while it holds the lock.
Crash(p) ==
    /\ pc[p] = "holding"
    /\ pc' = [pc EXCEPT ![p] = "dead"]
    /\ UNCHANGED <<owner, ttl, timer>>

\* A waiter polls every 0.1 s, so that time does not pass its deadline.
Tick ==
    /\ \A p \in Callers : /\ pc[p] = "waiting" => timer[p] < Timeout
                          /\ pc[p] = "holding" => timer[p] < MaxHold
    /\ ttl' = IF ttl = 0 THEN 0 ELSE ttl - 1
    /\ owner' = IF ttl = 1 THEN None ELSE owner
    /\ timer' = [p \in Callers |-> IF pc[p] \in {"waiting", "holding"}
                                   THEN timer[p] + 1 ELSE timer[p]]
    /\ UNCHANGED pc

Next ==
    \/ \E p \in Callers :
          \/ Call(p) \/ Acquire(p) \/ AcquireUnanswered(p) \/ GiveUp(p)
          \/ Release(p) \/ ReleaseFails(p) \/ Crash(p)
    \/ Tick

Spec == Init /\ [][Next]_vars

\* Time passes, waiters poll, bodies end.
Fairness ==
    /\ WF_vars(Tick)
    /\ \A p \in Callers :
          /\ WF_vars(Acquire(p) \/ AcquireUnanswered(p) \/ GiveUp(p))
          /\ WF_vars(Release(p) \/ ReleaseFails(p) \/ Crash(p))

FairSpec == Spec /\ Fairness

-----------------------------------------------------------------------------
(* Properties *)

\* Two callers never change the repository's git metadata at the same time.
\* (Refuted: a body may outlive the TTL.)
MutualExclusion ==
    \A p, q \in Callers : pc[p] = "holding" /\ pc[q] = "holding" => p = q

\* Whatever earlier holders do that outlived their key, a holder has the key
\* until its own TTL is over: a late release does not open the lock.
FreshHolderOwnsKey ==
    \A p \in Callers : pc[p] = "holding" /\ timer[p] < TTL => owner = p

\* A killed worker or an unanswered SET does not block the repository for ever.
LockRecovers ==
    \A p \in Callers : (owner = p /\ pc[p] # "holding") ~> (owner # p)
=============================================================================

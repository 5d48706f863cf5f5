------------------------ MODULE RepositoryLock_proofs ------------------------
(* What the repository lock guarantees for any number of callers, any TTL   *)
(* and any timeout.                                                         *)
EXTENDS RepositoryLock, TLAPS

\* The key and its expiry go together, and a holder that still owns the key
\* took it TTL - ttl ticks ago.
KeyAge ==
    /\ owner = None <=> ttl = 0
    /\ \A p \in Callers : owner = p /\ pc[p] = "holding" => ttl + timer[p] = TTL

LockInv == TypeOK /\ KeyAge /\ FreshHolderOwnsKey

LEMMA InitInv == Init => LockInv
  BY LockAssumption DEF Init, LockInv, TypeOK, KeyAge, FreshHolderOwnsKey

\* Time: a fresh holder's key has ticks left, exactly as many as the holder.
LEMMA TickInv == LockInv /\ Tick => LockInv'
<1> SUFFICES ASSUME LockInv, Tick PROVE LockInv'
  OBVIOUS
<1> USE LockAssumption DEF LockInv
<1>1. TypeOK'
  BY DEF Tick, TypeOK
<1>2. KeyAge'
  BY DEF Tick, TypeOK, KeyAge
<1>3. FreshHolderOwnsKey'
  <2> SUFFICES ASSUME NEW p \in Callers, pc'[p] = "holding", timer'[p] < TTL
               PROVE  owner' = p
    BY DEF FreshHolderOwnsKey
  <2>1. pc[p] = "holding" /\ timer'[p] = timer[p] + 1 /\ timer[p] \in Nat
    BY DEF Tick, TypeOK
  <2>2. owner = p /\ ttl + timer[p] = TTL
    BY <2>1 DEF FreshHolderOwnsKey, KeyAge
  <2> QED
    BY <2>1, <2>2 DEF Tick, TypeOK
<1> QED
  BY <1>1, <1>2, <1>3

LEMMA CallerInv ==
    ASSUME NEW p \in Callers, LockInv,
           \/ Call(p) \/ Acquire(p) \/ AcquireUnanswered(p) \/ GiveUp(p)
           \/ Release(p) \/ ReleaseFails(p) \/ Crash(p)
    PROVE  LockInv'
<1> USE LockAssumption DEF LockInv
<1>1. CASE Call(p)
  BY <1>1 DEF Call, TypeOK, KeyAge, FreshHolderOwnsKey
\* The key is free, so that no other holder is fresh.
<1>2. CASE Acquire(p)
  BY <1>2 DEF Acquire, TypeOK, KeyAge, FreshHolderOwnsKey
<1>3. CASE AcquireUnanswered(p)
  BY <1>3 DEF AcquireUnanswered, TypeOK, KeyAge, FreshHolderOwnsKey
<1>4. CASE GiveUp(p)
  BY <1>4 DEF GiveUp, TypeOK, KeyAge, FreshHolderOwnsKey
\* Another holder's key is not p's, and stays.
<1>5. CASE Release(p)
  BY <1>5 DEF Release, TypeOK, KeyAge, FreshHolderOwnsKey
<1>6. CASE ReleaseFails(p)
  BY <1>6 DEF ReleaseFails, TypeOK, KeyAge, FreshHolderOwnsKey
<1>7. CASE Crash(p)
  BY <1>7 DEF Crash, TypeOK, KeyAge, FreshHolderOwnsKey
<1> QED
  BY <1>1, <1>2, <1>3, <1>4, <1>5, <1>6, <1>7

THEOREM LockCorrect == Spec => []LockInv
<1>1. LockInv /\ [Next]_vars => LockInv'
  <2> SUFFICES ASSUME LockInv, [Next]_vars PROVE LockInv'
    OBVIOUS
  <2>1. CASE Next
    BY <2>1, CallerInv, TickInv DEF Next
  <2>2. CASE UNCHANGED vars
    BY <2>2 DEF vars, LockInv, TypeOK, KeyAge, FreshHolderOwnsKey
  <2> QED
    BY <2>1, <2>2
<1> QED
  BY <1>1, InitInv, PTL DEF Spec

\* A holder keeps the key for its first TTL ticks, however long earlier
\* holders overstayed.
THEOREM FreshHolderOwnsKeyAlways == Spec => []FreshHolderOwnsKey
  BY LockCorrect, PTL DEF LockInv

\* Two callers are in the lock at once only if one of them has held it for its
\* whole TTL: with any number of them, killed or unanswered, that is the one way to
\* lose the exclusion.  (The code does not close it: nobody renews the key, and
\* Celery's hard limit is three times the TTL.)
THEOREM OnlyOverstayersOverlap ==
    Spec => [](\A p, q \in Callers : pc[p] = "holding" /\ pc[q] = "holding" /\ p # q
                  => timer[p] >= TTL \/ timer[q] >= TTL)
<1>1. LockInv => \A p, q \in Callers : pc[p] = "holding" /\ pc[q] = "holding" /\ p # q
                  => timer[p] >= TTL \/ timer[q] >= TTL
  BY LockAssumption DEF LockInv, TypeOK, FreshHolderOwnsKey
<1> QED
  BY <1>1, LockCorrect, PTL
=============================================================================

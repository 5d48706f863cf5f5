SPECIFICATION FairSpec
CONSTANTS
    Callers = {c1, c2, c3}
    None = None
    TTL = 3
    Timeout = 1
    MaxHold = 5
INVARIANTS
    FreshHolderOwnsKey
PROPERTIES
    LockRecovers
CHECK_DEADLOCK FALSE

SPECIFICATION Spec
CONSTANTS
    NumSteps = 3
    Characters <- SmallCharacters
    Segments <- SmallSegments
    Names <- SmallNames
    Scopes <- SmallLists
    MaxSegments = 2
    MaxDepth = 3
INVARIANTS
    AcceptedIsAcyclic
    RejectedIsCyclic
    DependenciesFirst
    ScheduledOnce
    NoNeedlessDelay
    NoSharedFile
    OverlapIsReal
CHECK_DEADLOCK FALSE

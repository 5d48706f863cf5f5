SPECIFICATION MCSpec
CONSTANTS
    MaxTasks = 2
    MaxChanges = 2
    MaxLosses = 1
    MaxWaiting = 1
    Capacity = 1
    Workers = 1
    MaxCommits = 2
INVARIANTS TypeOK CommittedIsPublished NothingUnreviewed RevisionFollowsReject NothingAbandoned
CHECK_DEADLOCK FALSE

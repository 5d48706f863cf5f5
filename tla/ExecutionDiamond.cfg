SPECIFICATION Spec
CONSTANTS
    NumSteps = 3
    WaveOf <- Diamond
    LastWave = 1
    Dispatchers = {resume, retry1}
    Resume = resume
    Cancellers = {cancel1}
    Faults = {"step", "conflict", "merge", "finalize", "publish"}
    None = None
INVARIANTS
    BaseContainsPredecessors
    ConflictIsReal
    NoWorktreeLeft
    OneCodeChange
    WorktreeKept
PROPERTIES
    ImplementsContract
CHECK_DEADLOCK FALSE

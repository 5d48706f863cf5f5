SPECIFICATION FairSpec
CONSTANTS
    NumSteps = 2
    WaveOf <- Chain
    LastWave = 1
    Dispatchers = {resume, retry1}
    Resume = resume
    Cancellers = {cancel1}
    Faults = {"prepare", "wave", "step", "conflict", "merge", "finalize", "cleanup", "revoke"}
    None = None
INVARIANTS
    TypeOK
    SuccessIsComplete
PROPERTIES
    WorkIsKept
    RevivalNeedsRetry
    OldGenerationIsInert
    Converges
CHECK_DEADLOCK FALSE

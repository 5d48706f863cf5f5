SPECIFICATION LateSpec
CONSTANTS
    NumSteps = 2
    WaveOf <- Chain
    LastWave = 1
    Dispatchers = {resume, retry1, retry2, retry3}
    Resume = resume
    Cancellers = {cancel1, cancel2}
    Faults = {"step", "conflict", "merge", "publish"}
    None = None
    Retry1 = retry1
    Retry2 = retry2
    Retry3 = retry3
    Cancel1 = cancel1
INVARIANTS
    OneRunPerGeneration
    MergedIsApplied
CHECK_DEADLOCK FALSE

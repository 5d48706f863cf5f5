SPECIFICATION RecoverySpec
CONSTANTS
  NumSteps = 1
  WaveOf <- OneStep
  LastWave = 0
  resume = resume
  Dispatchers = {resume}
  Resume = resume
  Cancellers = {}
  Reconcilers = {}
  Cleaners = {}
  MaxLosses = 1
  Faults = {}
  None = None
INVARIANTS
  SuccessIsComplete
CHECK_DEADLOCK FALSE

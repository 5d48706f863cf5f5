SPECIFICATION RecoverySpec
CONSTANTS
  NumSteps = 1
  WaveOf <- OneStep
  LastWave = 0
  resume = resume
  retry1 = retry1
  Dispatchers = {resume, retry1}
  Resume = resume
  Cancellers = {}
  reconcile1 = reconcile1
  cleanup1 = cleanup1
  Reconcilers = {reconcile1}
  Cleaners = {cleanup1}
  MaxLosses = 1
  Faults = {"step"}
  None = None
INVARIANTS
  WorktreeSpared
PROPERTIES
  QuietReconcileAgrees
CHECK_DEADLOCK FALSE
